-------------------------- MODULE PseudoTboxProofs --------------------------
(***************************************************************************)
(* What is proved of PseudoTbox, and of PseudoPoll, which extends it, for  *)
(* every set of objects and templates and every bound.  Of PseudoTbox: the *)
(* records follow the objects and their flags, what is found by template   *)
(* is right, and no SaveAs call is lost.  Of PseudoPoll: the records follow*)
(* the objects whatever handlers do, and a wait for idle ends when it may. *)
(***************************************************************************)
EXTENDS PseudoPoll, ListFacts

\* No identifier twice in a list.
Distinct(s) == \A i, j \in DOMAIN s : s[i].id = s[j].id => i = j

\* One identifier comes before another in a list.
Before(s, x, y) == \E i, j \in DOMAIN s : i < j /\ s[i].id = x /\ s[j].id = y

\* Where the code finds an identifier: the first place that has it.
Place(s, id) == SelectInSeq(s, LAMBDA r : r.id = id)

-----------------------------------------------------------------------------
(* Lists of things with an identifier. *)

\* A new element at the front.
LEMMA ConsFacts ==
  ASSUME NEW R, NEW s \in Seq(R), NEW r \in R, r.id \notin Ids(s), Distinct(s)
  PROVE  LET t == Cons(r, s) IN
         /\ t \in Seq(R) /\ Distinct(t)
         /\ Ids(t) = Ids(s) \cup {r.id}
         /\ ToSet(t) = ToSet(s) \cup {r}
         /\ \A x, y : Before(t, x, y) => x = r.id \/ Before(s, x, y)
<1> DEFINE t == Cons(r, s)
<1>1. /\ t \in Seq(R) /\ DOMAIN t = 1..(Len(s) + 1) /\ t[1] = r
      /\ \A i \in DOMAIN s : t[i + 1] = s[i]
  BY InsertFacts DEF Cons
<1>2. DOMAIN s = 1..Len(s) /\ Len(s) \in Nat
  BY LenProperties
<1> HIDE DEF t
<1>3. \A j \in DOMAIN t : j = 1 \/ (j - 1 \in DOMAIN s /\ t[j] = s[j - 1])
  <2> TAKE j \in DOMAIN t
  <2>1. j = 1 \/ (j - 1 \in DOMAIN s /\ (j - 1) + 1 = j)
    BY <1>1, <1>2
  <2>2. QED
    BY <1>1, <2>1
<1>4. Ids(t) = Ids(s) \cup {r.id}
  <2>1. Ids(t) \subseteq Ids(s) \cup {r.id}
    BY <1>1, <1>3 DEF Ids
  <2>2. \A i \in DOMAIN s : i + 1 \in DOMAIN t
    BY <1>1, <1>2
  <2>3. \A i \in DOMAIN s : \E j \in DOMAIN t : t[j].id = s[i].id
    BY <1>1, <2>2
  <2>4. Ids(s) \subseteq Ids(t)
    BY <2>3 DEF Ids
  <2>5. 1 \in DOMAIN t /\ t[1].id = r.id
    BY <1>1, <1>2
  <2>6. r.id \in Ids(t)
    BY <2>5 DEF Ids
  <2>7. QED
    BY <2>1, <2>4, <2>6
<1>5. Distinct(t)
  <2> SUFFICES ASSUME NEW i \in DOMAIN t, NEW j \in DOMAIN t, t[i].id = t[j].id
               PROVE  i = j
    BY DEF Distinct
  <2>1. i \in Nat /\ j \in Nat
    BY <1>1
  <2>2. \A k \in DOMAIN s : s[k].id # r.id
    BY DEF Ids
  <2>3. i = 1 <=> j = 1
    BY <1>1, <1>3, <2>2
  <2>4. CASE i # 1 /\ j # 1
    <3>1. /\ i - 1 \in DOMAIN s /\ j - 1 \in DOMAIN s
          /\ s[i - 1].id = s[j - 1].id
      BY <1>3, <2>4
    <3>2. i - 1 = j - 1
      BY <3>1 DEF Distinct
    <3>3. QED
      BY <2>1, <3>2
  <2>5. QED
    BY <2>3, <2>4
<1>6. ToSet(t) = ToSet(s) \cup {r}
  <2>1. ToSet(t) \subseteq ToSet(s) \cup {r}
    BY <1>1, <1>3 DEF ToSet
  <2>2. \A i \in DOMAIN s : i + 1 \in DOMAIN t /\ t[i + 1] = s[i]
    BY <1>1, <1>2
  <2>3. ToSet(s) \subseteq ToSet(t)
    BY <2>2 DEF ToSet
  <2>4. 1 \in DOMAIN t /\ t[1] = r
    BY <1>1, <1>2
  <2>5. r \in ToSet(t)
    BY <2>4 DEF ToSet
  <2>6. QED
    BY <2>1, <2>3, <2>5
<1>7. \A x, y : Before(t, x, y) => x = r.id \/ Before(s, x, y)
  <2> SUFFICES ASSUME NEW x, NEW y, NEW i \in DOMAIN t, NEW j \in DOMAIN t,
                      i < j, t[i].id = x, t[j].id = y, x # r.id
               PROVE  \E a, b \in DOMAIN s : a < b /\ s[a].id = x /\ s[b].id = y
    BY DEF Before
  <2>1. i # 1 /\ j # 1 /\ i - 1 < j - 1
    BY <1>1, <1>2
  <2>2. QED
    BY <1>3, <2>1
<1>8. QED
  BY <1>1, <1>4, <1>5, <1>6, <1>7 DEF t

\* A new element at the end.
LEMMA AppendFacts ==
  ASSUME NEW R, NEW s \in Seq(R), NEW r \in R
  PROVE  LET t == Append(s, r) IN
         /\ t \in Seq(R)
         /\ DOMAIN t = 1..(Len(s) + 1) /\ DOMAIN s = 1..Len(s) /\ Len(s) \in Nat
         /\ \A i \in DOMAIN s : i \in DOMAIN t /\ t[i] = s[i]
         /\ t[Len(s) + 1] = r
         /\ Ids(t) = Ids(s) \cup {r.id}
         /\ Distinct(s) /\ r.id \notin Ids(s) => Distinct(t)
         /\ ToSet(t) = ToSet(s) \cup {r}
         /\ \A x, y : Before(s, x, y) \/ (x \in Ids(s) /\ y = r.id) => Before(t, x, y)
<1> DEFINE t == Append(s, r)
<1>1. /\ t \in Seq(R) /\ DOMAIN t = 1..(Len(s) + 1) /\ t[Len(s) + 1] = r
      /\ DOMAIN s = 1..Len(s) /\ Len(s) \in Nat
      /\ \A i \in DOMAIN s : t[i] = s[i]
  BY AppendProperties, LenProperties
<1> HIDE DEF t
<1>2. /\ \A i \in DOMAIN s : i \in DOMAIN t
      /\ Len(s) + 1 \in DOMAIN t
      /\ \A i \in DOMAIN t : i \in DOMAIN s \/ i = Len(s) + 1
  BY <1>1
<1>3. Ids(t) = Ids(s) \cup {r.id}
  BY <1>1, <1>2 DEF Ids
<1>4. Distinct(s) /\ r.id \notin Ids(s) => Distinct(t)
  BY <1>1, <1>2 DEF Ids, Distinct
<1>5. ToSet(t) = ToSet(s) \cup {r}
  BY <1>1, <1>2 DEF ToSet
<1>6. ASSUME NEW x, NEW y, Before(s, x, y) \/ (x \in Ids(s) /\ y = r.id)
      PROVE  Before(t, x, y)
  <2>1. CASE Before(s, x, y)
    BY <1>1, <2>1 DEF Before
  <2>2. CASE x \in Ids(s) /\ y = r.id
    <3>1. PICK i \in DOMAIN s : s[i].id = x
      BY <2>2 DEF Ids
    <3>2. i < Len(s) + 1 /\ i \in DOMAIN t /\ t[i].id = x /\ t[Len(s) + 1].id = y
      BY <1>1, <2>2, <3>1
    <3>3. QED
      BY <1>2, <3>2 DEF Before
  <2>3. QED
    BY <1>6, <2>1, <2>2
<1>7. QED
  BY <1>1, <1>2, <1>3, <1>4, <1>5, <1>6 DEF t

LEMMA PlaceFacts ==
  ASSUME NEW R, NEW s \in Seq(R), NEW id, id \in Ids(s)
  PROVE  Place(s, id) \in DOMAIN s /\ s[Place(s, id)].id = id
<1> DEFINE S == {i \in 1..Len(s) : s[i].id = id}
<1>1. DOMAIN s = 1..Len(s)
  BY LenProperties
<1>2. S # {} /\ S \subseteq Nat
  BY <1>1 DEF Ids
<1>3. \E m \in S : \A n \in S : m <= n
  <2> HIDE DEF S
  <2> QED
    BY <1>2, LeastNatural
<1>4. Place(s, id) = Min(S)
  BY <1>2 DEF Place, SelectInSeq
<1>5. Min(S) \in S
  BY <1>3 DEF Min
<1>6. QED
  BY <1>1, <1>4, <1>5

\* The element with an identifier is found, and it alone goes.
LEMMA RemoveIdFacts ==
  ASSUME NEW R, NEW s \in Seq(R), NEW id, id \in Ids(s), Distinct(s)
  PROVE  LET p == Place(s, id)
             t == RemoveAt(s, p)
         IN /\ p \in DOMAIN s /\ s[p].id = id
            /\ t \in Seq(R) /\ Distinct(t)
            /\ Ids(t) = Ids(s) \ {id}
            /\ ToSet(t) = {r \in ToSet(s) : r.id # id}
            /\ \A x, y : Before(t, x, y) => Before(s, x, y)
            /\ \A x, y : x # id /\ y # id /\ Before(s, x, y) => Before(t, x, y)
<1> DEFINE p == Place(s, id)
           t == RemoveAt(s, p)
           Was(j) == OldPlace(p, j)
<1>1. p \in DOMAIN s /\ s[p].id = id
  BY PlaceFacts
<1>2. /\ t \in Seq(R)
      /\ \A j \in DOMAIN t : Was(j) \in DOMAIN s /\ Was(j) # p /\ t[j] = s[Was(j)]
      /\ \A i \in DOMAIN s : i # p => \E j \in DOMAIN t : Was(j) = i
      /\ \A i, j \in DOMAIN t : Was(i) = Was(j) => i = j
      /\ \A i, j \in DOMAIN t : i < j <=> Was(i) < Was(j)
  BY <1>1, RemovedPlaces
<1> HIDE DEF p, t, Was
<1>3. Distinct(t)
  BY <1>2 DEF Distinct
<1>4. Ids(t) = Ids(s) \ {id}
  <2>1. \A j \in DOMAIN t : t[j].id # id
    BY <1>1, <1>2 DEF Distinct
  <2>2. Ids(t) \subseteq Ids(s) \ {id}
    BY <1>2, <2>1 DEF Ids
  <2>3. \A i \in DOMAIN s : s[i].id # id => \E j \in DOMAIN t : t[j].id = s[i].id
    BY <1>1, <1>2
  <2>4. Ids(s) \ {id} \subseteq Ids(t)
    BY <2>3 DEF Ids
  <2>5. QED
    BY <2>2, <2>4
<1>5. ToSet(t) = {r \in ToSet(s) : r.id # id}
  <2>1. \A j \in DOMAIN t : t[j].id # id
    BY <1>1, <1>2 DEF Distinct
  <2>2. ToSet(t) \subseteq {r \in ToSet(s) : r.id # id}
    BY <1>2, <2>1 DEF ToSet
  <2>3. \A i \in DOMAIN s : s[i].id # id => \E j \in DOMAIN t : t[j] = s[i]
    BY <1>1, <1>2
  <2>4. QED
    BY <2>2, <2>3 DEF ToSet
<1>6. ASSUME NEW x, NEW y, Before(t, x, y) PROVE Before(s, x, y)
  <2>1. PICK i \in DOMAIN t, j \in DOMAIN t : i < j /\ t[i].id = x /\ t[j].id = y
    BY <1>6 DEF Before
  <2>2. /\ Was(i) \in DOMAIN s /\ Was(j) \in DOMAIN s /\ Was(i) < Was(j)
        /\ s[Was(i)].id = x /\ s[Was(j)].id = y
    BY <1>2, <2>1
  <2>3. QED
    BY <2>2 DEF Before
<1>7. ASSUME NEW x, NEW y, x # id, y # id, Before(s, x, y) PROVE Before(t, x, y)
  <2>1. PICK i \in DOMAIN s, j \in DOMAIN s : i < j /\ s[i].id = x /\ s[j].id = y
    BY <1>7 DEF Before
  <2>2. i # p /\ j # p
    BY <1>1, <1>7, <2>1
  <2>3. PICK a \in DOMAIN t : Was(a) = i
    BY <1>2, <2>2
  <2>4. PICK b \in DOMAIN t : Was(b) = j
    BY <1>2, <2>2
  <2>5. a < b /\ t[a].id = x /\ t[b].id = y
    BY <1>2, <2>1, <2>3, <2>4
  <2>6. QED
    BY <2>5 DEF Before
<1>8. QED
  BY <1>1, <1>2, <1>3, <1>4, <1>5, <1>6, <1>7 DEF p, t

-----------------------------------------------------------------------------
(* Events that are still to come. *)

\* The objects a queue tells the creation or deletion of.
Told(s, kind) == {s[i].id : i \in {n \in DOMAIN s : s[n].kind = kind}}

\* At most one creation and one deletion of an object, in that order.
Ordered(s) ==
  \A i, j \in DOMAIN s :
    s[i].id = s[j].id /\ i < j => s[i].kind = "created" /\ s[j].kind = "deleted"

Event == [kind : {"created", "deleted"}, id : ObjectId]

LEMMA PendingTold ==
  ASSUME NEW kind
  PROVE  Pending(kind) = Told(events, kind) /\ Pending(kind)' = Told(events', kind)
  BY DEF Pending, Told, ToSet

LEMMA EventKinds ==
  ASSUME NEW s \in Seq(Event)
  PROVE  \A i \in DOMAIN s : s[i].kind \in {"created", "deleted"}
<1>1. \A i \in DOMAIN s : s[i] \in Event
  BY ElementOfSeq, LenProperties
<1>2. \A e \in Event : e.kind \in {"created", "deleted"}
  BY DEF Event
<1>3. QED
  BY <1>1, <1>2

LEMMA IdsTold ==
  ASSUME NEW s \in Seq(Event)
  PROVE  Ids(s) = Told(s, "created") \cup Told(s, "deleted")
<1>1. \A i \in DOMAIN s : s[i].kind \in {"created", "deleted"}
  BY EventKinds
<1>2. QED
  BY <1>1 DEF Ids, Told

\* A new event comes last.
LEMMA PostedFacts ==
  ASSUME NEW s \in Seq(Event), Ordered(s), NEW e \in Event,
         e.kind = "created" => e.id \notin Ids(s),
         e.kind = "deleted" => e.id \notin Told(s, "deleted")
  PROVE  LET t == Append(s, e) IN
         /\ t \in Seq(Event) /\ Ordered(t)
         /\ Told(t, e.kind) = Told(s, e.kind) \cup {e.id}
         /\ \A k : k # e.kind => Told(t, k) = Told(s, k)
<1> DEFINE t == Append(s, e)
<1>1. /\ t \in Seq(Event)
      /\ DOMAIN t = 1..(Len(s) + 1) /\ DOMAIN s = 1..Len(s) /\ Len(s) \in Nat
      /\ \A i \in DOMAIN s : i \in DOMAIN t /\ t[i] = s[i]
      /\ t[Len(s) + 1] = e
  BY AppendFacts
<1> HIDE DEF t
<1>2. /\ Len(s) + 1 \in DOMAIN t
      /\ \A i \in DOMAIN t : i \in DOMAIN s \/ i = Len(s) + 1
  BY <1>1
<1>3. \A i \in DOMAIN s : s[i].kind \in {"created", "deleted"}
  BY EventKinds
<1>4. e.kind \in {"created", "deleted"}
  BY DEF Event
<1>5. \A i \in DOMAIN s : s[i].id = e.id => s[i].kind = "created" /\ e.kind = "deleted"
  <2> SUFFICES ASSUME NEW i \in DOMAIN s, s[i].id = e.id
               PROVE  s[i].kind = "created" /\ e.kind = "deleted"
    OBVIOUS
  <2>1. e.id \in Ids(s)
    BY DEF Ids
  <2>2. e.kind = "deleted"
    BY <1>4, <2>1
  <2>3. s[i].kind # "deleted"
    BY <2>2 DEF Told
  <2>4. QED
    BY <1>3, <2>2, <2>3
<1>6. Ordered(t)
  <2> SUFFICES ASSUME NEW i \in DOMAIN t, NEW j \in DOMAIN t,
                      t[i].id = t[j].id, i < j
               PROVE  t[i].kind = "created" /\ t[j].kind = "deleted"
    BY DEF Ordered
  <2>1. i \in DOMAIN s
    BY <1>1, <1>2
  <2>2. CASE j \in DOMAIN s
    BY <1>1, <2>1, <2>2 DEF Ordered
  <2>3. CASE j = Len(s) + 1
    BY <1>1, <1>5, <2>1, <2>3
  <2>4. QED
    BY <1>2, <2>2, <2>3
<1>7. ASSUME NEW k PROVE Told(t, k) = Told(s, k) \cup (IF k = e.kind THEN {e.id} ELSE {})
  <2>1. Told(t, k) \subseteq Told(s, k) \cup (IF k = e.kind THEN {e.id} ELSE {})
    BY <1>1, <1>2 DEF Told
  <2>2. Told(s, k) \subseteq Told(t, k)
    BY <1>1 DEF Told
  <2>3. k = e.kind => e.id \in Told(t, k)
    BY <1>1, <1>2 DEF Told
  <2>4. QED
    BY <2>1, <2>2, <2>3
<1>8. QED
  BY <1>1, <1>6, <1>7 DEF t

\* The oldest event is told, and it is not told again.
LEMMA DeliveredFacts ==
  ASSUME NEW s \in Seq(Event), Ordered(s), s # <<>>
  PROVE  LET h == Head(s) t == Tail(s) IN
         /\ h \in Event
         /\ t \in Seq(Event) /\ Ordered(t)
         /\ h.id \in Told(s, h.kind)
         /\ Told(t, h.kind) = Told(s, h.kind) \ {h.id}
         /\ \A k : k # h.kind => Told(t, k) = Told(s, k)
         /\ h.kind = "deleted" => h.id \notin Told(s, "created")
<1> DEFINE h == Head(s)
           t == Tail(s)
<1>1. /\ h \in Event /\ h = s[1] /\ t \in Seq(Event)
      /\ Len(s) \in Nat /\ Len(s) >= 1 /\ DOMAIN s = 1..Len(s)
      /\ Len(t) = Len(s) - 1 /\ DOMAIN t = 1..(Len(s) - 1)
      /\ \A i \in 1..(Len(s) - 1) : t[i] = s[i + 1]
  BY HeadTailProperties, EmptySeq, LenProperties
<1> HIDE DEF h, t
<1>2. /\ 1 \in DOMAIN s
      /\ \A i \in DOMAIN t : i + 1 \in DOMAIN s /\ t[i] = s[i + 1] /\ 1 < i + 1
      /\ \A i \in DOMAIN s : i # 1 => i - 1 \in DOMAIN t /\ (i - 1) + 1 = i /\ 1 < i
  BY <1>1
<1>3. Ordered(t)
  <2> SUFFICES ASSUME NEW i \in DOMAIN t, NEW j \in DOMAIN t,
                      t[i].id = t[j].id, i < j
               PROVE  t[i].kind = "created" /\ t[j].kind = "deleted"
    BY DEF Ordered
  <2>1. i + 1 < j + 1
    BY <1>1
  <2>2. QED
    BY <1>2, <2>1 DEF Ordered
<1>4. h.id \in Told(s, h.kind)
  BY <1>1, <1>2 DEF Told
<1>5. ASSUME NEW i \in DOMAIN s, i # 1, s[i].id = h.id
      PROVE  h.kind = "created" /\ s[i].kind = "deleted"
  BY <1>1, <1>2, <1>5 DEF Ordered
<1>6. \A k : Told(t, k) \subseteq Told(s, k)
  BY <1>2 DEF Told
<1>7. ASSUME NEW k, NEW id \in Told(s, k), k # h.kind \/ id # h.id
      PROVE  id \in Told(t, k)
  <2>1. PICK i \in DOMAIN s : s[i].kind = k /\ s[i].id = id
    BY DEF Told
  <2>2. i # 1
    BY <1>1, <1>7, <2>1
  <2>3. i - 1 \in DOMAIN t /\ t[i - 1] = s[i]
    BY <1>2, <2>2
  <2>4. QED
    BY <2>1, <2>3 DEF Told
<1>8. h.id \notin Told(t, h.kind)
  <2> SUFFICES ASSUME h.id \in Told(t, h.kind) PROVE FALSE
    OBVIOUS
  <2>1. PICK i \in DOMAIN t : t[i].kind = h.kind /\ t[i].id = h.id
    BY DEF Told
  <2>2. i + 1 \in DOMAIN s /\ i + 1 # 1 /\ t[i] = s[i + 1]
    BY <1>1, <1>2
  <2>3. QED
    BY <1>5, <2>1, <2>2
<1>9. h.kind = "deleted" => h.id \notin Told(s, "created")
  <2> SUFFICES ASSUME h.kind = "deleted", h.id \in Told(s, "created") PROVE FALSE
    OBVIOUS
  <2>1. PICK i \in DOMAIN s : s[i].kind = "created" /\ s[i].id = h.id
    BY DEF Told
  <2>2. i # 1
    BY <1>1, <2>1
  <2>3. QED
    BY <1>5, <2>1, <2>2
<1>10. Told(t, h.kind) = Told(s, h.kind) \ {h.id}
  BY <1>6, <1>7, <1>8
<1>11. ASSUME NEW k, k # h.kind PROVE Told(t, k) = Told(s, k)
  <2>1. Told(t, k) \subseteq Told(s, k)
    BY <1>6
  <2>2. Told(s, k) \subseteq Told(t, k)
    BY <1>7, <1>11
  <2>3. QED
    BY <2>1, <2>2
<1>12. QED
  BY <1>1, <1>3, <1>4, <1>9, <1>10, <1>11 DEF h, t

-----------------------------------------------------------------------------
(* Type correctness. *)

\* The invariant has three parts that do not depend on each other's actions:
\* the objects with their events and records, the flags, and the SaveAs calls.

Object == [id : ObjectId, template : Template]
RecordType == [id : ObjectId, is_showing : BOOLEAN]

ListsOK ==
  /\ initialised \in BOOLEAN
  /\ toolbox \in Seq(Object)
  /\ events \in Seq(Event)
  /\ objects \in Seq(RecordType)
  /\ shown \subseteq ObjectId /\ unsure \subseteq ObjectId /\ missed \subseteq ObjectId

\* The records go with the objects, but for what is still to be told or missed.
Follows ==
  /\ Told(events, "deleted") \cap Ids(toolbox) = {}
  /\ Told(events, "created") \cap Ids(objects) = {}
  /\ Told(events, "created") \ Ids(toolbox) \subseteq Told(events, "deleted")
  /\ Ids(objects) \ Ids(toolbox) \subseteq Told(events, "deleted")
  /\ Ids(toolbox) \ Ids(objects) \subseteq Told(events, "created") \cup missed
  /\ missed \subseteq Ids(toolbox) \ Ids(objects)

TableInv ==
  /\ Distinct(objects) /\ Distinct(toolbox) /\ Ordered(events)
  /\ Follows

\* The flag of a record is the truth about an object unless that is unsure.
FlagOf(s, id) == \E r \in ToSet(s) : r.id = id /\ r.is_showing

FlagsInv ==
  /\ shown \subseteq Ids(toolbox)
  /\ \A id \in Ids(toolbox) \ unsure : FlagOf(objects, id) <=> id \in shown

ObjectsInv == ListsOK /\ TableInv /\ FlagsInv

LEMMA EmptyFacts ==
  /\ Ids(<<>>) = {} /\ Distinct(<<>>) /\ Ordered(<<>>)
  /\ \A k : Told(<<>>, k) = {}
  /\ \A R : <<>> \in Seq(R)
  BY DEF Ids, Distinct, Ordered, Told

LEMMA InitObjects ==
  ASSUME Init
  PROVE  ObjectsInv
  BY EmptyFacts DEF Init, ObjectsInv, ListsOK, TableInv, Follows, FlagsInv

\* A step that leaves the objects and their records alone.
LEMMA SameObjects ==
  ASSUME ObjectsInv, UNCHANGED <<theirs, records>>
  PROVE  ObjectsInv'
  BY DEF ObjectsInv, ListsOK, TableInv, Follows, FlagsInv, theirs, records

-----------------------------------------------------------------------------
(* What the operations do to the lists. *)

LEMMA NewRecordFacts ==
  ASSUME objects \in Seq(RecordType), Distinct(objects),
         NEW id \in ObjectId, id \notin Ids(objects), NewRecord(id)
  PROVE  /\ objects' \in Seq(RecordType) /\ Distinct(objects')
         /\ Ids(objects') = Ids(objects) \cup {id}
         /\ ~FlagOf(objects', id)
         /\ \A x : x # id => (FlagOf(objects', x) <=> FlagOf(objects, x))
<1> DEFINE r == [id |-> id, is_showing |-> FALSE]
<1>1. r \in RecordType /\ r.id = id /\ r.is_showing = FALSE
  BY DEF RecordType
<1> HIDE DEF r
<1>2. objects' = Cons(r, objects)
  BY DEF NewRecord, r
<1>3. /\ objects' \in Seq(RecordType) /\ Distinct(objects')
      /\ Ids(objects') = Ids(objects) \cup {id}
      /\ ToSet(objects') = ToSet(objects) \cup {r}
  BY <1>1, <1>2, ConsFacts
<1>4. \A o \in ToSet(objects) : o.id # id
  BY DEF ToSet, Ids
<1>5. QED
  BY <1>1, <1>3, <1>4 DEF FlagOf

LEMMA ForgetFacts ==
  ASSUME objects \in Seq(RecordType), Distinct(objects), NEW id, Forget(id)
  PROVE  /\ objects' \in Seq(RecordType) /\ Distinct(objects')
         /\ Ids(objects') = Ids(objects) \ {id}
         /\ ~FlagOf(objects', id)
         /\ \A x : x # id => (FlagOf(objects', x) <=> FlagOf(objects, x))
<1>1. Recorded(id) <=> id \in Ids(objects)
  BY DEF Recorded, Ids
<1>2. CASE ~Recorded(id)
  <2>1. objects' = objects /\ \A o \in ToSet(objects) : o.id # id
    BY <1>2 DEF Forget, ToSet, Recorded
  <2>2. QED
    BY <1>1, <1>2, <2>1 DEF FlagOf
<1>3. CASE Recorded(id)
  <2>1. objects' = RemoveAt(objects, Place(objects, id))
    BY <1>3 DEF Forget, RecordOf, Place, SelectInSeq
  <2>2. /\ objects' \in Seq(RecordType) /\ Distinct(objects')
        /\ Ids(objects') = Ids(objects) \ {id}
        /\ ToSet(objects') = {r \in ToSet(objects) : r.id # id}
    BY <1>1, <1>3, <2>1, RemoveIdFacts
  <2>3. QED
    BY <2>2 DEF FlagOf
<1>4. QED
  BY <1>2, <1>3

LEMMA CreatedFacts ==
  ASSUME toolbox \in Seq(Object), Distinct(toolbox), NEW id \in ObjectId,
         id \notin Ids(toolbox), NEW t \in Template, Created(id, t)
  PROVE  /\ toolbox' \in Seq(Object) /\ Distinct(toolbox')
         /\ Ids(toolbox') = Ids(toolbox) \cup {id}
         /\ \A x, y : Before(toolbox, x, y) \/ (x \in Ids(toolbox) /\ y = id)
                        => Before(toolbox', x, y)
<1> DEFINE o == [id |-> id, template |-> t]
<1>1. o \in Object /\ o.id = id
  BY DEF Object
<1> HIDE DEF o
<1>2. toolbox' = Append(toolbox, o)
  BY DEF Created, o
<1>3. QED
  BY <1>1, <1>2, AppendFacts

LEMMA DeletedFacts ==
  ASSUME toolbox \in Seq(Object), Distinct(toolbox), NEW id, id \in Ids(toolbox),
         Deleted(id)
  PROVE  /\ toolbox' \in Seq(Object) /\ Distinct(toolbox')
         /\ Ids(toolbox') = Ids(toolbox) \ {id}
         /\ \A x, y : x # id /\ y # id /\ Before(toolbox, x, y) => Before(toolbox', x, y)
<1>1. toolbox' = RemoveAt(toolbox, Place(toolbox, id))
  BY DEF Deleted, PlaceOf, Place, SelectInSeq
<1>2. QED
  BY <1>1, RemoveIdFacts

\* An object that is told of is the last one then, and the others stay in order.
LEMMA MadeKnownFacts ==
  ASSUME toolbox \in Seq(Object), Distinct(toolbox), NEW id, MadeKnown(id)
  PROVE  /\ toolbox' \in Seq(Object) /\ Distinct(toolbox')
         /\ Ids(toolbox') = Ids(toolbox)
         /\ \A x, y \in Ids(toolbox) :
              x # id /\ (y = id \/ Before(toolbox, x, y)) => Before(toolbox', x, y)
<1>1. CASE id \notin Ids(toolbox)
  BY <1>1 DEF MadeKnown
<1>2. CASE id \in Ids(toolbox)
  <2> DEFINE p == Place(toolbox, id)
             o == toolbox[p]
             rest == RemoveAt(toolbox, p)
  <2>1. /\ p \in DOMAIN toolbox /\ o.id = id
        /\ rest \in Seq(Object) /\ Distinct(rest)
        /\ Ids(rest) = Ids(toolbox) \ {id}
        /\ \A x, y : x # id /\ y # id /\ Before(toolbox, x, y) => Before(rest, x, y)
    BY <1>2, RemoveIdFacts
  <2>2. o \in Object
    BY <2>1, ElementOfSeq, LenProperties
  <2>3. toolbox' = Append(rest, o)
    BY <1>2 DEF MadeKnown, PlaceOf, Place, SelectInSeq
  <2> HIDE DEF o, rest
  <2>4. /\ toolbox' \in Seq(Object) /\ Distinct(toolbox')
        /\ Ids(toolbox') = Ids(rest) \cup {id}
        /\ \A x, y : Before(rest, x, y) \/ (x \in Ids(rest) /\ y = id)
                       => Before(toolbox', x, y)
    BY <2>1, <2>2, <2>3, AppendFacts
  <2>5. QED
    BY <1>2, <2>1, <2>4
<1>3. QED
  BY <1>1, <1>2

\* The event is the last one, and nothing else is told.
LEMMA PostedQueue ==
  ASSUME events \in Seq(Event), Ordered(events),
         NEW kind \in {"created", "deleted"}, NEW id \in ObjectId, Posted(kind, id),
         kind = "created" => id \notin Ids(events),
         kind = "deleted" => id \notin Told(events, "deleted")
  PROVE  /\ events' \in Seq(Event) /\ Ordered(events')
         /\ Told(events', kind) = Told(events, kind) \cup {id}
         /\ \A k : k # kind => Told(events', k) = Told(events, k)
<1> DEFINE e == [kind |-> kind, id |-> id]
<1>1. e \in Event /\ e.kind = kind /\ e.id = id
  BY DEF Event
<1> HIDE DEF e
<1>2. events' = Append(events, e)
  BY DEF Posted, e
<1>3. QED
  BY <1>1, <1>2, PostedFacts

\* What an identifier the Toolbox may use again is known not to be.
LEMMA FreeFacts ==
  ASSUME ObjectsInv, NEW id, Free(id)
  PROVE  /\ id \notin Ids(toolbox) /\ id \notin Ids(objects) /\ id \notin shown
         /\ id \notin Ids(events) /\ id \notin missed
         /\ id \notin Told(events, "created") /\ id \notin Told(events, "deleted")
<1>1. Ids(events) = Told(events, "created") \cup Told(events, "deleted")
  BY IdsTold DEF ObjectsInv, ListsOK
<1>2. QED
  BY <1>1 DEF Free, ObjectsInv, TableInv, Follows, FlagsInv

-----------------------------------------------------------------------------
(* Every operation on objects keeps the records in step. *)

\* The records go; the objects that are there, if any, are missed then.
LEMMA InitialiseStep ==
  ASSUME ObjectsInv, pseudo_toolbox_initialise
  PROVE  ObjectsInv'
<1>1. /\ UNCHANGED <<toolbox, events, shown>> /\ initialised' \in BOOLEAN
      /\ \/ UNCHANGED <<objects, unsure, missed>>
         \/ /\ objects' = <<>>
            /\ unsure' = unsure \cup shown /\ missed' = missed \cup Ids(toolbox)
  BY DEF pseudo_toolbox_initialise, ObjectsInv, ListsOK
<1>2. CASE UNCHANGED <<objects, unsure, missed>>
  BY <1>1, <1>2 DEF ObjectsInv, ListsOK, TableInv, Follows, FlagsInv
<1>3. CASE /\ objects' = <<>>
           /\ unsure' = unsure \cup shown /\ missed' = missed \cup Ids(toolbox)
  <2>1. Ids(toolbox) \subseteq ObjectId
    <3>1. \A i \in DOMAIN toolbox : toolbox[i] \in Object
      BY ElementOfSeq, LenProperties DEF ObjectsInv, ListsOK
    <3>2. QED
      BY <3>1 DEF Ids, Object
  <2>2. /\ objects' \in Seq(RecordType) /\ Distinct(objects') /\ Ids(objects') = {}
        /\ \A x : ~FlagOf(objects', x)
    BY <1>3, EmptyFacts DEF FlagOf, ToSet
  <2>3. ListsOK' /\ TableInv'
    BY <1>1, <1>3, <2>1, <2>2 DEF ObjectsInv, ListsOK, TableInv, Follows
  <2>4. FlagsInv'
    BY <1>1, <1>3, <2>2 DEF ObjectsInv, FlagsInv
  <2>5. QED
    BY <2>3, <2>4 DEF ObjectsInv
<1>4. QED
  BY <1>1, <1>2, <1>3

\* An object created by the Toolbox itself is still to be told.
LEMMA AutoCreateStep ==
  ASSUME ObjectsInv, NEW id \in ObjectId, NEW t \in Template, AutoCreate(id, t)
  PROVE  ObjectsInv'
<1>1. /\ id \notin Ids(toolbox) /\ id \notin Ids(objects) /\ id \notin shown
      /\ id \notin Ids(events)
      /\ id \notin Told(events, "created") /\ id \notin Told(events, "deleted")
  BY FreeFacts DEF AutoCreate
<1>2. /\ toolbox' \in Seq(Object) /\ Distinct(toolbox')
      /\ Ids(toolbox') = Ids(toolbox) \cup {id}
  BY <1>1, CreatedFacts DEF AutoCreate, ObjectsInv, ListsOK, TableInv
<1>3. /\ events' \in Seq(Event) /\ Ordered(events')
      /\ Told(events', "created") = Told(events, "created") \cup {id}
      /\ Told(events', "deleted") = Told(events, "deleted")
  BY <1>1, PostedQueue DEF AutoCreate, ObjectsInv, ListsOK, TableInv
<1>4. /\ UNCHANGED <<initialised, objects, shown, unsure, missed>>
      /\ initialised = TRUE
  BY DEF AutoCreate, Running, records, ObjectsInv, ListsOK
<1>5. ListsOK' /\ TableInv'
  BY <1>1, <1>2, <1>3, <1>4 DEF ObjectsInv, ListsOK, TableInv, Follows
<1>6. ~FlagOf(objects, id)
  BY <1>1 DEF FlagOf, ToSet, Ids
<1>7. FlagsInv'
  BY <1>1, <1>2, <1>4, <1>6 DEF ObjectsInv, FlagsInv
<1>8. QED
  BY <1>5, <1>7 DEF ObjectsInv

\* An object the Toolbox deletes is gone before the client is told.
LEMMA DeletedStep ==
  ASSUME ObjectsInv, NEW id \in ObjectId, id \in Ids(toolbox), initialised,
         Deleted(id), Posted("deleted", id), shown' = shown \ {id},
         missed' = missed \ {id}, UNCHANGED <<initialised, unsure>>,
         UNCHANGED objects \/ Forget(id)
  PROVE  ObjectsInv'
<1>1. /\ toolbox' \in Seq(Object) /\ Distinct(toolbox')
      /\ Ids(toolbox') = Ids(toolbox) \ {id}
  BY DeletedFacts DEF ObjectsInv, ListsOK, TableInv
<1>2. id \notin Told(events, "deleted")
  BY DEF ObjectsInv, TableInv, Follows
<1>3. /\ events' \in Seq(Event) /\ Ordered(events')
      /\ Told(events', "deleted") = Told(events, "deleted") \cup {id}
      /\ Told(events', "created") = Told(events, "created")
  BY <1>2, PostedQueue DEF ObjectsInv, ListsOK, TableInv
<1>4. /\ objects' \in Seq(RecordType) /\ Distinct(objects')
      /\ Ids(objects') \subseteq Ids(objects) /\ Ids(objects) \subseteq Ids(objects') \cup {id}
      /\ \A x : x # id => (FlagOf(objects', x) <=> FlagOf(objects, x))
  BY ForgetFacts DEF ObjectsInv, ListsOK, TableInv
<1>5. ListsOK' /\ TableInv'
  BY <1>1, <1>3, <1>4 DEF ObjectsInv, ListsOK, TableInv, Follows
<1>6. FlagsInv'
  BY <1>1, <1>4 DEF ObjectsInv, FlagsInv
<1>7. QED
  BY <1>5, <1>6 DEF ObjectsInv

LEMMA DeliverStep ==
  ASSUME ObjectsInv, Deliver
  PROVE  ObjectsInv'
<1> DEFINE h == Head(events)
           id == h.id
<1>1. /\ events # <<>> /\ events' = Tail(events) /\ initialised = TRUE
      /\ UNCHANGED <<initialised, shown>>
      /\ \/ /\ h.kind = "created" /\ pseudo_toolbox_object_created(id)
            /\ MadeKnown(id) /\ UNCHANGED unsure
         \/ /\ h.kind = "deleted" /\ Forget(id) /\ UNCHANGED toolbox
            /\ UNCHANGED missed /\ unsure' = unsure \ {id}
  BY DEF Deliver, Running, theirs, pseudo_toolbox_object_deleted, ObjectsInv, ListsOK
<1>2. /\ h \in Event
      /\ events' \in Seq(Event) /\ Ordered(events')
      /\ id \in Told(events, h.kind)
      /\ Told(events', h.kind) = Told(events, h.kind) \ {id}
      /\ \A k : k # h.kind => Told(events', k) = Told(events, k)
      /\ h.kind = "deleted" => id \notin Told(events, "created")
  BY <1>1, DeliveredFacts DEF ObjectsInv, ListsOK, TableInv
<1>3. id \in ObjectId
  BY <1>2 DEF Event
<1> HIDE DEF h, id
<1>4. CASE /\ h.kind = "created" /\ pseudo_toolbox_object_created(id)
           /\ MadeKnown(id) /\ UNCHANGED unsure
  <2>1. /\ id \in Told(events, "created") /\ id \notin Ids(objects)
        /\ Told(events', "created") = Told(events, "created") \ {id}
        /\ Told(events', "deleted") = Told(events, "deleted")
    BY <1>2, <1>4 DEF ObjectsInv, TableInv, Follows
  <2>2. ~FlagOf(objects, id)
    BY <2>1 DEF FlagOf, ToSet, Ids
  <2>3. toolbox' \in Seq(Object) /\ Distinct(toolbox') /\ Ids(toolbox') = Ids(toolbox)
    BY <1>4, MadeKnownFacts DEF ObjectsInv, ListsOK, TableInv
  <2>4. CASE NewRecord(id) /\ missed' = missed \ {id}
    <3>1. /\ objects' \in Seq(RecordType) /\ Distinct(objects')
          /\ Ids(objects') = Ids(objects) \cup {id}
          /\ ~FlagOf(objects', id)
          /\ \A x : x # id => (FlagOf(objects', x) <=> FlagOf(objects, x))
      BY <1>3, <2>1, <2>4, NewRecordFacts DEF ObjectsInv, ListsOK, TableInv
    <3>2. ListsOK' /\ TableInv'
      BY <1>1, <1>2, <1>4, <2>1, <2>4, <2>3, <3>1
      DEF ObjectsInv, ListsOK, TableInv, Follows
    <3>3. FlagsInv'
      BY <1>1, <1>4, <2>2, <2>3, <3>1 DEF ObjectsInv, FlagsInv
    <3>4. QED
      BY <3>2, <3>3 DEF ObjectsInv
  <2>5. CASE UNCHANGED objects /\ missed' = missed \cup Unrecorded(id)
    <3>1. ListsOK' /\ TableInv'
      BY <1>1, <1>2, <1>3, <1>4, <2>1, <2>5, <2>3
      DEF ObjectsInv, ListsOK, TableInv, Follows, Unrecorded
    <3>2. FlagsInv'
      BY <1>1, <1>4, <2>5, <2>3 DEF ObjectsInv, FlagsInv
    <3>3. QED
      BY <3>1, <3>2 DEF ObjectsInv
  <2>6. QED
    BY <1>4, <2>4, <2>5 DEF pseudo_toolbox_object_created
<1>5. CASE /\ h.kind = "deleted" /\ Forget(id) /\ UNCHANGED toolbox
           /\ UNCHANGED missed /\ unsure' = unsure \ {id}
  <2>1. /\ id \in Told(events, "deleted") /\ id \notin Ids(toolbox)
        /\ Told(events', "deleted") = Told(events, "deleted") \ {id}
        /\ Told(events', "created") = Told(events, "created")
        /\ id \notin Told(events, "created")
    BY <1>2, <1>5 DEF ObjectsInv, TableInv, Follows
  <2>2. /\ objects' \in Seq(RecordType) /\ Distinct(objects')
        /\ Ids(objects') = Ids(objects) \ {id}
        /\ \A x : x # id => (FlagOf(objects', x) <=> FlagOf(objects, x))
    BY <1>5, ForgetFacts DEF ObjectsInv, ListsOK, TableInv
  <2>3. ListsOK' /\ TableInv'
    BY <1>1, <1>2, <1>5, <2>1, <2>2 DEF ObjectsInv, ListsOK, TableInv, Follows
  <2>4. FlagsInv'
    BY <1>1, <1>5, <2>1, <2>2 DEF ObjectsInv, FlagsInv
  <2>5. QED
    BY <2>3, <2>4 DEF ObjectsInv
<1>6. QED
  BY <1>1, <1>4, <1>5

LEMMA CreateStep ==
  ASSUME ObjectsInv, NEW id \in ObjectId, NEW t \in Template,
         pseudo_toolbox_create_object(id, t)
  PROVE  ObjectsInv'
<1>1. /\ UNCHANGED <<initialised, events, shown, unsure, missed>>
      /\ initialised = TRUE
      /\ \/ UNCHANGED <<toolbox, objects>>
         \/ Created(id, t) /\ NewRecord(id)
  BY DEF pseudo_toolbox_create_object, Running, ObjectsInv, ListsOK
<1>2. CASE UNCHANGED <<toolbox, objects>>
  BY <1>1, <1>2, SameObjects DEF theirs, records
<1>3. CASE Created(id, t) /\ NewRecord(id)
  <2>1. /\ id \notin Ids(toolbox) /\ id \notin Ids(objects) /\ id \notin shown
        /\ id \notin Told(events, "created") /\ id \notin Told(events, "deleted")
    BY FreeFacts DEF pseudo_toolbox_create_object
  <2>2. /\ toolbox' \in Seq(Object) /\ Distinct(toolbox')
        /\ Ids(toolbox') = Ids(toolbox) \cup {id}
    BY <1>3, <2>1, CreatedFacts DEF ObjectsInv, ListsOK, TableInv
  <2>3. /\ objects' \in Seq(RecordType) /\ Distinct(objects')
        /\ Ids(objects') = Ids(objects) \cup {id}
        /\ ~FlagOf(objects', id)
        /\ \A x : x # id => (FlagOf(objects', x) <=> FlagOf(objects, x))
    BY <1>3, <2>1, NewRecordFacts DEF ObjectsInv, ListsOK, TableInv
  <2>4. ListsOK' /\ TableInv'
    BY <1>1, <2>1, <2>2, <2>3 DEF ObjectsInv, ListsOK, TableInv, Follows
  <2>5. FlagsInv'
    BY <1>1, <2>1, <2>2, <2>3 DEF ObjectsInv, FlagsInv
  <2>6. QED
    BY <2>4, <2>5 DEF ObjectsInv
<1>4. QED
  BY <1>1, <1>2, <1>3

LEMMA DeleteStep ==
  ASSUME ObjectsInv, NEW id \in ObjectId, pseudo_toolbox_delete_object(id)
  PROVE  ObjectsInv'
<1>1. /\ Forget(id) /\ UNCHANGED initialised /\ initialised = TRUE
      /\ \/ /\ id \in Ids(toolbox) /\ Deleted(id) /\ Posted("deleted", id)
            /\ shown' = shown \ {id} /\ missed' = missed \ {id} /\ UNCHANGED unsure
         \/ /\ missed' = missed \cup Unrecorded(id)
            /\ unsure' = unsure \cup ({id} \cap shown)
            /\ UNCHANGED <<toolbox, events, shown>>
  BY DEF pseudo_toolbox_delete_object, pseudo_toolbox_object_deleted, Running,
         ObjectsInv, ListsOK
<1>2. CASE /\ id \in Ids(toolbox) /\ Deleted(id) /\ Posted("deleted", id)
           /\ shown' = shown \ {id} /\ missed' = missed \ {id} /\ UNCHANGED unsure
  BY <1>1, <1>2, DeletedStep
<1>3. CASE /\ missed' = missed \cup Unrecorded(id)
           /\ unsure' = unsure \cup ({id} \cap shown)
           /\ UNCHANGED <<toolbox, events, shown>>
  <2>1. /\ objects' \in Seq(RecordType) /\ Distinct(objects')
        /\ Ids(objects') = Ids(objects) \ {id}
        /\ \A x : x # id => (FlagOf(objects', x) <=> FlagOf(objects, x))
    BY <1>1, ForgetFacts DEF ObjectsInv, ListsOK, TableInv
  <2>2. ListsOK' /\ TableInv'
    BY <1>1, <1>3, <2>1 DEF ObjectsInv, ListsOK, TableInv, Follows, Unrecorded
  <2>3. ~FlagOf(objects', id)
    BY <2>1 DEF FlagOf, ToSet, Ids
  <2>4. FlagsInv'
    BY <1>1, <1>3, <2>1, <2>3 DEF ObjectsInv, FlagsInv
  <2>5. QED
    BY <2>2, <2>4 DEF ObjectsInv
<1>4. QED
  BY <1>1, <1>2, <1>3

\* The flag of a record is set and its identifier stays.
LEMMA FlagFacts ==
  ASSUME NEW r \in RecordType, NEW flag \in BOOLEAN
  PROVE  LET q == [r EXCEPT !.is_showing = flag] IN
         q \in RecordType /\ q.id = r.id /\ (q.is_showing <=> flag)
<1>1. CASE flag
  BY <1>1 DEF RecordType
<1>2. CASE ~flag
  BY <1>2 DEF RecordType
<1>3. QED
  BY <1>1, <1>2

LEMMA SetShowingFacts ==
  ASSUME objects \in Seq(RecordType), Distinct(objects), NEW id,
         NEW flag \in BOOLEAN, SetShowing(id, flag)
  PROVE  /\ objects' \in Seq(RecordType) /\ Distinct(objects')
         /\ Ids(objects') = Ids(objects)
         /\ Recorded(id) => (FlagOf(objects', id) <=> flag)
         /\ \A x : x # id => (FlagOf(objects', x) <=> FlagOf(objects, x))
<1>1. Recorded(id) <=> id \in Ids(objects)
  BY DEF Recorded, Ids
<1>2. CASE ~Recorded(id)
  <2>1. objects' = objects
    BY <1>2 DEF SetShowing
  <2>2. QED
    BY <1>2, <2>1
<1>3. CASE Recorded(id)
  <2> DEFINE p == Place(objects, id)
             q == [objects[p] EXCEPT !.is_showing = flag]
  <2>1. p \in DOMAIN objects /\ objects[p].id = id
    BY <1>1, <1>3, RemoveIdFacts
  <2>2. objects' = [objects EXCEPT ![p] = q]
    BY <1>3 DEF SetShowing, RecordOf, Place, SelectInSeq
  <2> HIDE DEF p
  <2>3. objects[p] \in RecordType
    BY <2>1, ElementOfSeq, LenProperties
  <2>4. q \in RecordType /\ q.id = id /\ (q.is_showing <=> flag)
    BY <2>1, <2>3, FlagFacts
  <2> HIDE DEF q
  <2>5. /\ objects' \in Seq(RecordType) /\ DOMAIN objects' = DOMAIN objects
        /\ objects'[p] = q
        /\ \A j \in DOMAIN objects : j # p => objects'[j] = objects[j]
    BY <2>1, <2>2, <2>4, UpdateFacts
  <2>6. \A j \in DOMAIN objects : objects'[j].id = objects[j].id
    BY <2>1, <2>4, <2>5
  <2>7. Distinct(objects') /\ Ids(objects') = Ids(objects)
    BY <2>5, <2>6 DEF Distinct, Ids
  <2>8. \A j \in DOMAIN objects : objects[j].id = id => j = p
    BY <2>1 DEF Distinct
  <2>9. FlagOf(objects', id) <=> flag
    BY <2>1, <2>4, <2>5, <2>6, <2>8 DEF FlagOf, ToSet
  <2>10. ASSUME NEW x, x # id PROVE FlagOf(objects', x) <=> FlagOf(objects, x)
    BY <2>1, <2>4, <2>5, <2>6, <2>10 DEF FlagOf, ToSet
  <2>11. QED
    BY <2>5, <2>7, <2>9, <2>10
<1>4. QED
  BY <1>2, <1>3

\* A failed show or hide leaves the flag unsure, and so does the showing of an
\* object that has no record.
LEMMA ShowHideStep ==
  ASSUME ObjectsInv, NEW id \in ObjectId, NEW flag \in BOOLEAN, ShowHide(id, flag)
  PROVE  ObjectsInv'
<1>1. UNCHANGED theirs /\ initialised = TRUE
  BY DEF ShowHide, Running, ObjectsInv, ListsOK
<1>2. CASE UNCHANGED records
  BY <1>1, <1>2, SameObjects
<1>3. ASSUME SetShowing(id, flag), UNCHANGED missed,
             \/ /\ id \in Ids(toolbox)
                /\ shown' = IF flag THEN shown \cup {id} ELSE shown \ {id}
                /\ unsure' = IF flag /\ ~Recorded(id) THEN unsure \cup {id} ELSE unsure \ {id}
             \/ unsure' = unsure \cup ({id} \cap Ids(toolbox)) /\ UNCHANGED shown
      PROVE  ObjectsInv'
  <2>1. /\ objects' \in Seq(RecordType) /\ Distinct(objects')
        /\ Ids(objects') = Ids(objects)
        /\ Recorded(id) => (FlagOf(objects', id) <=> flag)
        /\ \A x : x # id => (FlagOf(objects', x) <=> FlagOf(objects, x))
    BY <1>3, SetShowingFacts DEF ObjectsInv, ListsOK, TableInv
  <2>2. ListsOK' /\ TableInv'
    BY <1>1, <1>3, <2>1 DEF ObjectsInv, ListsOK, TableInv, Follows, theirs
  <2>3. ~Recorded(id) => ~FlagOf(objects', id)
    BY <2>1 DEF FlagOf, ToSet, Recorded, Ids
  <2>4. FlagsInv'
    <3>1. CASE unsure' = unsure \cup ({id} \cap Ids(toolbox)) /\ UNCHANGED shown
      BY <1>1, <2>1, <3>1 DEF ObjectsInv, FlagsInv, theirs
    <3>2. CASE /\ id \in Ids(toolbox)
               /\ shown' = IF flag THEN shown \cup {id} ELSE shown \ {id}
               /\ unsure' = IF flag /\ ~Recorded(id) THEN unsure \cup {id}
                            ELSE unsure \ {id}
      <4>1. shown' \subseteq Ids(toolbox)' /\ Ids(toolbox)' = Ids(toolbox)
        BY <1>1, <3>2 DEF ObjectsInv, FlagsInv, theirs
      <4>2. \A x \in Ids(toolbox) \ unsure' : x # id => (FlagOf(objects', x) <=> x \in shown')
        BY <2>1, <3>2 DEF ObjectsInv, FlagsInv
      <4>3. id \notin unsure' => (FlagOf(objects', id) <=> id \in shown')
        BY <2>1, <2>3, <3>2
      <4>4. QED
        BY <4>1, <4>2, <4>3 DEF FlagsInv
    <3>3. QED
      BY <1>3, <3>1, <3>2
  <2>5. QED
    BY <2>2, <2>4 DEF ObjectsInv
<1>4. QED
  BY <1>2, <1>3 DEF ShowHide

LEMMA ResetStep ==
  ASSUME ObjectsInv, pseudo_toolbox_reset
  PROVE  ObjectsInv'
<1>1. /\ objects' = [i \in DOMAIN objects |-> [objects[i] EXCEPT !.is_showing = FALSE]]
      /\ shown' = {} /\ unsure' = {} /\ UNCHANGED <<theirs, missed>>
  BY DEF pseudo_toolbox_reset
<1>2. /\ Len(objects) \in Nat /\ DOMAIN objects = 1..Len(objects)
      /\ \A i \in DOMAIN objects : objects[i] \in RecordType
  BY ElementOfSeq, LenProperties DEF ObjectsInv, ListsOK
<1>3. \A i \in DOMAIN objects :
        /\ objects'[i] \in RecordType
        /\ objects'[i].id = objects[i].id /\ ~objects'[i].is_showing
  BY <1>1, <1>2, FlagFacts
<1>4. DOMAIN objects' = DOMAIN objects
  BY <1>1
<1>5. objects' \in Seq(RecordType)
  <2>1. objects' = [i \in 1..Len(objects) |-> objects'[i]]
    BY <1>1, <1>2
  <2>2. \A i \in 1..Len(objects) : objects'[i] \in RecordType
    BY <1>2, <1>3
  <2>3. QED
    BY <1>2, <2>1, <2>2, IsASeq
<1>6. Distinct(objects') /\ Ids(objects') = Ids(objects)
  BY <1>3, <1>4 DEF Distinct, Ids, ObjectsInv, TableInv
<1>7. \A x : ~FlagOf(objects', x)
  BY <1>3, <1>4 DEF FlagOf, ToSet
<1>8. ListsOK' /\ TableInv'
  BY <1>1, <1>5, <1>6 DEF ObjectsInv, ListsOK, TableInv, Follows, theirs
<1>9. FlagsInv'
  BY <1>1, <1>7 DEF FlagsInv
<1>10. QED
  BY <1>8, <1>9 DEF ObjectsInv

\* ObjectsInv is inductive: one case per operation on objects, and the rest.
LEMMA ObjectsStep ==
  ASSUME ObjectsInv, [Next]_vars
  PROVE  ObjectsInv'
<1>1. CASE UNCHANGED vars
  BY <1>1, SameObjects DEF vars, theirs, records
<1>2. CASE pseudo_toolbox_initialise
  BY <1>2, InitialiseStep
<1>3. CASE Deliver
  BY <1>3, DeliverStep
<1>4. CASE object_veneer \/ window_veneer \/ gadget_veneer \/ menu_veneer \/ dialogue_veneer
  BY <1>4, SameObjects
  DEF object_veneer, window_veneer, gadget_veneer, menu_veneer, dialogue_veneer, Veneer
<1>5. CASE pseudo_toolbox_reset
  BY <1>5, ResetStep
<1>6. ASSUME NEW id \in ObjectId, NEW t \in Template, AutoCreate(id, t)
      PROVE  ObjectsInv'
  BY <1>6, AutoCreateStep
<1>7. ASSUME NEW id \in ObjectId, NEW t \in Template, pseudo_toolbox_create_object(id, t)
      PROVE  ObjectsInv'
  BY <1>7, CreateStep
<1>8. ASSUME NEW id \in ObjectId, AutoDelete(id) PROVE ObjectsInv'
  BY <1>8, DeletedStep DEF AutoDelete, Running
<1>9. ASSUME NEW id \in ObjectId, pseudo_toolbox_delete_object(id) PROVE ObjectsInv'
  BY <1>9, DeleteStep
<1>10. ASSUME NEW id \in ObjectId, pseudo_toolbox_show_object(id) PROVE ObjectsInv'
  BY <1>10, ShowHideStep DEF pseudo_toolbox_show_object
<1>11. ASSUME NEW id \in ObjectId, pseudo_toolbox_hide_object(id) PROVE ObjectsInv'
  BY <1>11, ShowHideStep DEF pseudo_toolbox_hide_object
<1>12. CASE pseudo_saveas_reset_buffer_filled \/ pseudo_saveas_reset_file_save_completed
  BY <1>12, SameObjects
  DEF pseudo_saveas_reset_buffer_filled, pseudo_saveas_reset_file_save_completed, ResetOne
<1>13. ASSUME NEW call \in Call,
              \/ pseudo_saveas_buffer_filled(call)
              \/ pseudo_saveas_file_save_completed(call)
       PROVE  ObjectsInv'
  BY <1>13, SameObjects DEF pseudo_saveas_buffer_filled, pseudo_saveas_file_save_completed
<1>14. QED
  BY <1>1, <1>2, <1>3, <1>4, <1>5, <1>6, <1>7, <1>8, <1>9, <1>10, <1>11, <1>12, <1>13
  DEF Next

LEMMA ObjectsAlways == Spec => []ObjectsInv
  BY InitObjects, ObjectsStep, PTL DEF Spec

\* The records follow the objects, whenever and however often the Toolbox tells
\* of what it created or deleted (PseudoTbox.c:185-222), which identifiers it
\* uses again and which calls fail, for any number of objects.
THEOREM RecordsAlwaysFollow == Spec => []RecordsFollowObjects
<1>1. ObjectsInv => RecordsFollowObjects
  BY PendingTold DEF ObjectsInv, TableInv, Follows, Distinct, RecordsFollowObjects
<1>2. QED
  BY ObjectsAlways, <1>1, PTL

\* The flag of an object's record is the truth (PseudoTbox.c:285-330), unless
\* show, hide or delete failed in the Toolbox, its creation was untold, or its
\* record went when the Toolbox was initialised again.
THEOREM ShowingAlwaysSound == Spec => []ShowingSound
<1>1. ASSUME ObjectsInv, NEW id \in Ids(toolbox) \ unsure
      PROVE  pseudo_toolbox_object_is_showing(id) <=> id \in shown
  <2>1. FlagOf(objects, id) <=> id \in shown
    BY <1>1 DEF ObjectsInv, FlagsInv
  <2>2. CASE ~Recorded(id)
    BY <2>1, <2>2 DEF FlagOf, ToSet, Recorded, pseudo_toolbox_object_is_showing
  <2>3. CASE Recorded(id)
    <3>1. id \in Ids(objects)
      BY <2>3 DEF Recorded, Ids
    <3>2. Place(objects, id) \in DOMAIN objects /\ objects[Place(objects, id)].id = id
      BY <1>1, <3>1, RemoveIdFacts DEF ObjectsInv, ListsOK, TableInv
    <3>3. \A i \in DOMAIN objects : objects[i].id = id => i = Place(objects, id)
      BY <1>1, <3>2 DEF ObjectsInv, TableInv, Distinct
    <3>4. FlagOf(objects, id) <=> objects[Place(objects, id)].is_showing
      BY <3>2, <3>3 DEF FlagOf, ToSet
    <3>5. RecordOf(id) = Place(objects, id)
      BY DEF RecordOf, Place, SelectInSeq
    <3>6. QED
      BY <2>1, <2>3, <3>4, <3>5 DEF pseudo_toolbox_object_is_showing
  <2>4. QED
    BY <2>2, <2>3
<1>2. ObjectsInv => ShowingSound
  BY <1>1 DEF ShowingSound
<1>3. QED
  BY ObjectsAlways, <1>2, PTL

-----------------------------------------------------------------------------
(* What is found by template name. *)

\* Of two objects with a record, the one the client was told of last has its
\* record first.
MadeInv ==
  \A x, y \in Ids(toolbox) : Before(objects, x, y) => Before(toolbox, y, x)

LEMMA BeforeIds ==
  ASSUME NEW s, NEW x, NEW y, Before(s, x, y)
  PROVE  x \in Ids(s) /\ y \in Ids(s)
  BY DEF Before, Ids

\* The order of the lists, when they change as the lemmas above say.
LEMMA NewRecordOrder ==
  ASSUME objects \in Seq(RecordType), Distinct(objects),
         NEW id \in ObjectId, id \notin Ids(objects), NewRecord(id)
  PROVE  \A x, y : Before(objects', x, y) => x = id \/ Before(objects, x, y)
<1> DEFINE r == [id |-> id, is_showing |-> FALSE]
<1>1. r \in RecordType /\ r.id = id
  BY DEF RecordType
<1> HIDE DEF r
<1>2. objects' = Cons(r, objects)
  BY DEF NewRecord, r
<1>3. QED
  BY <1>1, <1>2, ConsFacts

LEMMA ForgetOrder ==
  ASSUME objects \in Seq(RecordType), Distinct(objects), NEW id, Forget(id)
  PROVE  \A x, y : Before(objects', x, y) => Before(objects, x, y)
<1>1. CASE ~Recorded(id)
  BY <1>1 DEF Forget
<1>2. CASE Recorded(id)
  <2>1. objects' = RemoveAt(objects, Place(objects, id))
    BY <1>2 DEF Forget, RecordOf, Place, SelectInSeq
  <2>2. id \in Ids(objects)
    BY <1>2 DEF Recorded, Ids
  <2>3. QED
    BY <2>1, <2>2, RemoveIdFacts
<1>3. QED
  BY <1>1, <1>2

\* A record that is changed stays where it is.
LEMMA FlagOrder ==
  ASSUME objects \in Seq(RecordType), Distinct(objects),
         \/ \E id : \E flag \in BOOLEAN : SetShowing(id, flag)
         \/ objects' = [i \in DOMAIN objects |-> [objects[i] EXCEPT !.is_showing = FALSE]]
  PROVE  \A x, y : Before(objects', x, y) => Before(objects, x, y)
<1>1. \A i \in DOMAIN objects : objects[i] \in RecordType
  BY ElementOfSeq, LenProperties
<1>2. ASSUME DOMAIN objects' = DOMAIN objects,
             \A i \in DOMAIN objects : objects'[i].id = objects[i].id
      PROVE  \A x, y : Before(objects', x, y) => Before(objects, x, y)
  BY <1>2 DEF Before
<1>3. ASSUME NEW id, NEW flag \in BOOLEAN, SetShowing(id, flag)
      PROVE  \A x, y : Before(objects', x, y) => Before(objects, x, y)
  <2>1. CASE ~Recorded(id)
    BY <1>3, <2>1 DEF SetShowing
  <2>2. CASE Recorded(id)
    <3> DEFINE p == Place(objects, id)
               q == [objects[p] EXCEPT !.is_showing = flag]
    <3>1. p \in DOMAIN objects
      BY <2>2, RemoveIdFacts DEF Recorded, Ids
    <3>2. objects' = [objects EXCEPT ![p] = q]
      BY <1>3, <2>2 DEF SetShowing, RecordOf, Place, SelectInSeq
    <3> HIDE DEF p
    <3>3. q \in RecordType /\ q.id = objects[p].id
      BY <1>1, <1>3, <3>1, FlagFacts
    <3> HIDE DEF q
    <3>4. /\ DOMAIN objects' = DOMAIN objects /\ objects'[p] = q
          /\ \A j \in DOMAIN objects : j # p => objects'[j] = objects[j]
      BY <3>1, <3>2, <3>3, UpdateFacts
    <3>5. \A i \in DOMAIN objects : objects'[i].id = objects[i].id
      BY <3>3, <3>4
    <3>6. QED
      BY <1>2, <3>4, <3>5
  <2>3. QED
    BY <2>1, <2>2
<1>4. CASE objects' = [i \in DOMAIN objects |-> [objects[i] EXCEPT !.is_showing = FALSE]]
  <2>1. DOMAIN objects' = DOMAIN objects
    BY <1>4
  <2>2. \A i \in DOMAIN objects : objects'[i].id = objects[i].id
    BY <1>1, <1>4, FlagFacts
  <2>3. QED
    BY <1>2, <2>1, <2>2
<1>5. QED
  BY <1>3, <1>4

LEMMA InitMade ==
  ASSUME Init
  PROVE  MadeInv
  BY DEF Init, MadeInv, Ids

\* The objects stay, and the records are not put in another order.
LEMMA SameMade ==
  ASSUME MadeInv, UNCHANGED toolbox,
         \A x, y : Before(objects', x, y) => Before(objects, x, y)
  PROVE  MadeInv'
  BY DEF MadeInv

\* A new record comes first, and the object it is of last.
LEMMA NewestMade ==
  ASSUME MadeInv, objects \in Seq(RecordType), Distinct(objects),
         NEW id \in ObjectId, id \notin Ids(objects), NewRecord(id),
         \A x \in Ids(toolbox') : x # id => x \in Ids(toolbox),
         \A x, y \in Ids(toolbox) :
           x # id /\ y # id /\ Before(toolbox, x, y) => Before(toolbox', x, y),
         \A x \in Ids(toolbox') : x # id => Before(toolbox', x, id)
  PROVE  MadeInv'
<1> SUFFICES ASSUME NEW x \in Ids(toolbox'), NEW y \in Ids(toolbox'), Before(objects', x, y)
             PROVE  Before(toolbox', y, x)
  BY DEF MadeInv
<1>1. \A a, b : Before(objects', a, b) => a = id \/ Before(objects, a, b)
  BY NewRecordOrder
<1>2. /\ objects' \in Seq(RecordType) /\ Distinct(objects')
      /\ Ids(objects') = Ids(objects) \cup {id}
  BY NewRecordFacts
<1>3. CASE x = id
  <2>1. \A i, j \in DOMAIN objects' : i < j => i # j
    <3>1. DOMAIN objects' \subseteq Nat
      BY <1>2, LenProperties
    <3>2. QED
      BY <3>1
  <2>2. y # id
    BY <1>2, <1>3, <2>1 DEF Distinct, Before
  <2>3. QED
    BY <1>3, <2>2
<1>4. CASE x # id
  <2>1. Before(objects, x, y)
    BY <1>1, <1>4
  <2>2. y # id
    BY <2>1, BeforeIds
  <2>3. x \in Ids(toolbox) /\ y \in Ids(toolbox)
    BY <1>4, <2>2
  <2>4. QED
    BY <1>4, <2>1, <2>2, <2>3 DEF MadeInv
<1>5. QED
  BY <1>3, <1>4

LEMMA DeliverMade ==
  ASSUME ObjectsInv, MadeInv, Deliver
  PROVE  MadeInv'
<1> DEFINE h == Head(events)
           id == h.id
<1>1. /\ events # <<>>
      /\ \/ h.kind = "created" /\ pseudo_toolbox_object_created(id) /\ MadeKnown(id)
         \/ h.kind = "deleted" /\ Forget(id) /\ UNCHANGED toolbox
  BY DEF Deliver, pseudo_toolbox_object_deleted
<1>2. h \in Event /\ id \in Told(events, h.kind)
  BY <1>1, DeliveredFacts DEF ObjectsInv, ListsOK, TableInv
<1>3. id \in ObjectId
  BY <1>2 DEF Event
<1> HIDE DEF h, id
<1>4. /\ toolbox \in Seq(Object) /\ Distinct(toolbox)
      /\ objects \in Seq(RecordType) /\ Distinct(objects)
  BY DEF ObjectsInv, ListsOK, TableInv
<1>5. CASE h.kind = "deleted" /\ Forget(id) /\ UNCHANGED toolbox
  BY <1>4, <1>5, ForgetOrder, SameMade
<1>6. CASE h.kind = "created" /\ pseudo_toolbox_object_created(id) /\ MadeKnown(id)
  <2>1. id \notin Ids(objects)
    BY <1>2, <1>6 DEF ObjectsInv, TableInv, Follows
  <2>2. /\ Ids(toolbox') = Ids(toolbox)
        /\ \A x, y \in Ids(toolbox) :
             x # id /\ (y = id \/ Before(toolbox, x, y)) => Before(toolbox', x, y)
    BY <1>4, <1>6, MadeKnownFacts
  <2>3. CASE NewRecord(id)
    <3>1. CASE id \in Ids(toolbox)
      BY <1>3, <1>4, <2>1, <2>2, <2>3, <3>1, NewestMade
    <3>2. CASE id \notin Ids(toolbox)
      <4>1. UNCHANGED toolbox
        BY <1>6, <3>2 DEF MadeKnown
      <4>2. \A x, y : Before(objects', x, y) => x = id \/ Before(objects, x, y)
        BY <1>3, <1>4, <2>1, <2>3, NewRecordOrder
      <4>3. QED
        BY <3>2, <4>1, <4>2 DEF MadeInv
    <3>3. QED
      BY <3>1, <3>2
  <2>4. CASE UNCHANGED objects
    <3> SUFFICES ASSUME NEW x \in Ids(toolbox), NEW y \in Ids(toolbox),
                        Before(objects, x, y)
                 PROVE  Before(toolbox', y, x)
      BY <2>2, <2>4 DEF MadeInv
    <3>1. x # id /\ y # id
      BY <2>1, BeforeIds
    <3>2. QED
      BY <2>2, <3>1 DEF MadeInv
  <2>5. QED
    BY <1>6, <2>3, <2>4 DEF pseudo_toolbox_object_created
<1>7. QED
  BY <1>1, <1>5, <1>6

LEMMA AutoCreateMade ==
  ASSUME ObjectsInv, MadeInv, NEW id \in ObjectId, NEW t \in Template, AutoCreate(id, t)
  PROVE  MadeInv'
<1>1. id \notin Ids(toolbox) /\ id \notin Ids(objects)
  BY FreeFacts DEF AutoCreate
<1>2. /\ Ids(toolbox') = Ids(toolbox) \cup {id}
      /\ \A x, y : Before(toolbox, x, y) => Before(toolbox', x, y)
  BY <1>1, CreatedFacts DEF AutoCreate, ObjectsInv, ListsOK, TableInv
<1>3. UNCHANGED objects
  BY DEF AutoCreate, records
<1>4. \A x, y : Before(objects, x, y) => x # id /\ y # id
  BY <1>1, BeforeIds
<1>5. QED
  BY <1>2, <1>3, <1>4 DEF MadeInv

LEMMA CreateMade ==
  ASSUME ObjectsInv, MadeInv, NEW id \in ObjectId, NEW t \in Template,
         pseudo_toolbox_create_object(id, t)
  PROVE  MadeInv'
<1>1. UNCHANGED <<toolbox, objects>> \/ (Created(id, t) /\ NewRecord(id))
  BY DEF pseudo_toolbox_create_object
<1>2. CASE UNCHANGED <<toolbox, objects>>
  BY <1>2, SameMade
<1>3. CASE Created(id, t) /\ NewRecord(id)
  <2>1. id \notin Ids(toolbox) /\ id \notin Ids(objects)
    BY FreeFacts DEF pseudo_toolbox_create_object
  <2>2. /\ Ids(toolbox') = Ids(toolbox) \cup {id}
        /\ \A x, y : Before(toolbox, x, y) \/ (x \in Ids(toolbox) /\ y = id)
                       => Before(toolbox', x, y)
    BY <1>3, <2>1, CreatedFacts DEF ObjectsInv, ListsOK, TableInv
  <2>3. objects \in Seq(RecordType) /\ Distinct(objects)
    BY DEF ObjectsInv, ListsOK, TableInv
  <2>4. QED
    BY <1>3, <2>1, <2>2, <2>3, NewestMade
<1>4. QED
  BY <1>1, <1>2, <1>3

LEMMA DeletedMade ==
  ASSUME ObjectsInv, MadeInv, NEW id \in ObjectId, id \in Ids(toolbox),
         Deleted(id), UNCHANGED objects \/ Forget(id)
  PROVE  MadeInv'
<1>1. /\ Ids(toolbox') = Ids(toolbox) \ {id}
      /\ \A x, y : x # id /\ y # id /\ Before(toolbox, x, y) => Before(toolbox', x, y)
  BY DeletedFacts DEF ObjectsInv, ListsOK, TableInv
<1>2. \A x, y : Before(objects', x, y) => Before(objects, x, y)
  BY ForgetOrder DEF ObjectsInv, ListsOK, TableInv
<1>3. QED
  BY <1>1, <1>2 DEF MadeInv

LEMMA MadeStep ==
  ASSUME ObjectsInv, MadeInv, [Next]_vars
  PROVE  MadeInv'
<1>1. ASSUME UNCHANGED toolbox,
             \A x, y : Before(objects', x, y) => Before(objects, x, y)
      PROVE  MadeInv'
  BY <1>1, SameMade
<1>2. objects \in Seq(RecordType) /\ Distinct(objects)
  BY DEF ObjectsInv, ListsOK, TableInv
<1>3. CASE pseudo_toolbox_initialise
  BY <1>1, <1>3 DEF pseudo_toolbox_initialise, Before
<1>4. ASSUME NEW id \in ObjectId, AutoDelete(id) PROVE MadeInv'
  BY <1>4, DeletedMade DEF AutoDelete
<1>5. ASSUME NEW id \in ObjectId, pseudo_toolbox_delete_object(id) PROVE MadeInv'
  <2>1. /\ Forget(id)
        /\ (id \in Ids(toolbox) /\ Deleted(id)) \/ UNCHANGED toolbox
    BY <1>5 DEF pseudo_toolbox_delete_object, pseudo_toolbox_object_deleted
  <2>2. QED
    BY <1>1, <1>2, <2>1, DeletedMade, ForgetOrder
<1>6. ASSUME NEW id \in ObjectId, NEW flag \in BOOLEAN, ShowHide(id, flag) PROVE MadeInv'
  <2>1. UNCHANGED toolbox /\ (UNCHANGED objects \/ SetShowing(id, flag))
    BY <1>6 DEF ShowHide, theirs, records
  <2>2. QED
    BY <1>1, <1>2, <2>1, FlagOrder
<1>7. CASE pseudo_toolbox_reset
  BY <1>1, <1>2, <1>7, FlagOrder DEF pseudo_toolbox_reset, theirs
<1>8. CASE UNCHANGED <<theirs, records>>
  BY <1>1, <1>8 DEF theirs, records
<1>9. CASE UNCHANGED vars
  BY <1>8, <1>9 DEF vars, theirs, records
<1>10. CASE object_veneer \/ window_veneer \/ gadget_veneer \/ menu_veneer \/ dialogue_veneer
  BY <1>8, <1>10
  DEF object_veneer, window_veneer, gadget_veneer, menu_veneer, dialogue_veneer, Veneer
<1>11. CASE pseudo_saveas_reset_buffer_filled \/ pseudo_saveas_reset_file_save_completed
  BY <1>8, <1>11
  DEF pseudo_saveas_reset_buffer_filled, pseudo_saveas_reset_file_save_completed, ResetOne
<1>12. ASSUME NEW call \in Call,
              \/ pseudo_saveas_buffer_filled(call)
              \/ pseudo_saveas_file_save_completed(call)
       PROVE  MadeInv'
  BY <1>8, <1>12 DEF pseudo_saveas_buffer_filled, pseudo_saveas_file_save_completed
<1>13. ASSUME NEW id \in ObjectId,
              pseudo_toolbox_show_object(id) \/ pseudo_toolbox_hide_object(id)
       PROVE  MadeInv'
  BY <1>6, <1>13 DEF pseudo_toolbox_show_object, pseudo_toolbox_hide_object
<1>14. QED
  BY <1>3, <1>4, <1>5, <1>7, <1>9, <1>10, <1>11, <1>12, <1>13,
     DeliverMade, AutoCreateMade, CreateMade DEF Next

LEMMA MadeAlways == Spec => [](ObjectsInv /\ MadeInv)
<1>1. Init => ObjectsInv /\ MadeInv
  BY InitObjects, InitMade
<1>2. (ObjectsInv /\ MadeInv) /\ [Next]_vars => (ObjectsInv /\ MadeInv)'
  BY ObjectsStep, MadeStep
<1>3. QED
  BY <1>1, <1>2, PTL DEF Spec

\* What pseudo_toolbox_find_by_template_name returns (PseudoTbox.c:166-183) is the
\* object made from the template that the client was told of last, passing over
\* only those missed or still to be told of, and NULL only when there is no other,
\* whichever the client or the Toolbox made and however they were deleted and told.
THEOREM FindAlwaysSound == Spec => []FindSound
<1>1. ASSUME ObjectsInv, MadeInv, NEW t \in Template
      PROVE  LET found == pseudo_toolbox_find_by_template_name(t)
                 made == {i \in DOMAIN toolbox : toolbox[i].template = t}
                 unknown == Pending("created") \cup missed
             IN IF found = NULL_ObjectId
                THEN \A i \in made : toolbox[i].id \in unknown
                ELSE \E i \in made :
                       /\ toolbox[i].id = found
                       /\ \A j \in made : j > i => toolbox[j].id \in unknown
  <2> DEFINE found == pseudo_toolbox_find_by_template_name(t)
             made == {i \in DOMAIN toolbox : toolbox[i].template = t}
             unknown == Pending("created") \cup missed
             places == {i \in DOMAIN objects :
                          \E o \in ToSet(toolbox) : o.id = objects[i].id /\ o.template = t}
             first == CHOOSE i \in places : \A j \in places : i <= j
  <2>1. found = IF places = {} THEN NULL_ObjectId ELSE objects[first].id
    BY DEF pseudo_toolbox_find_by_template_name
  <2>2. /\ DOMAIN objects \subseteq Nat /\ DOMAIN toolbox \subseteq Nat
        /\ \A i \in DOMAIN objects : objects[i].id \in ObjectId
    <3>1. objects \in Seq(RecordType) /\ toolbox \in Seq(Object)
      BY <1>1 DEF ObjectsInv, ListsOK
    <3>2. \A i \in DOMAIN objects : objects[i] \in RecordType
      BY <3>1, ElementOfSeq, LenProperties
    <3>3. QED
      BY <3>1, <3>2, LenProperties DEF RecordType
  <2>3. Distinct(objects) /\ Distinct(toolbox)
    BY <1>1 DEF ObjectsInv, TableInv
  <2>4. \A i \in places : \E a \in made : toolbox[a].id = objects[i].id
    BY DEF ToSet
  <2>5. \A a \in made : toolbox[a].id \in unknown \/
                        \E i \in places : objects[i].id = toolbox[a].id
    <3> SUFFICES ASSUME NEW a \in made, toolbox[a].id \notin unknown
                 PROVE  \E i \in places : objects[i].id = toolbox[a].id
      OBVIOUS
    <3>1. toolbox[a].id \in Ids(toolbox) /\ toolbox[a] \in ToSet(toolbox)
      BY DEF Ids, ToSet
    <3>2. toolbox[a].id \in Ids(objects)
      BY <1>1, <3>1, PendingTold DEF ObjectsInv, TableInv, Follows
    <3>3. PICK i \in DOMAIN objects : objects[i].id = toolbox[a].id
      BY <3>2 DEF Ids
    <3>4. i \in places
      BY <3>1, <3>3
    <3>5. QED
      BY <3>3, <3>4
  <2>6. /\ \A i \in places : i \in DOMAIN objects /\ i \in Nat
        /\ \A i \in made : i \in DOMAIN toolbox /\ i \in Nat
    BY <2>2
  <2> HIDE DEF made, places, unknown
  <2>7. CASE places = {}
    BY <2>1, <2>5, <2>7 DEF made, unknown
  <2>8. CASE places # {}
    <3>1. \E i \in places : \A j \in places : i <= j
      BY <2>6, <2>8, LeastNatural
    <3>2. first \in places /\ \A j \in places : first <= j
      BY <3>1
    <3> HIDE DEF first
    <3>3. found = objects[first].id /\ found \in ObjectId
      BY <2>1, <2>2, <2>6, <2>8, <3>2
    <3>4. PICK a \in made : toolbox[a].id = found
      BY <2>4, <3>2, <3>3
    <3>5. ASSUME NEW b \in made, b > a, toolbox[b].id \notin unknown
          PROVE  FALSE
      <4>1. PICK k \in places : objects[k].id = toolbox[b].id
        BY <2>5, <3>5
      <4>2. b # a /\ toolbox[b].id # found
        BY <2>3, <2>6, <3>4, <3>5 DEF Distinct
      <4>3. k # first
        BY <3>3, <4>1, <4>2
      <4>4. first < k
        BY <2>6, <3>2, <4>3
      <4>5. Before(objects, found, toolbox[b].id)
        BY <2>6, <3>2, <3>3, <4>1, <4>4 DEF Before
      <4>6. found \in Ids(toolbox) /\ toolbox[b].id \in Ids(toolbox)
        BY <2>6, <3>4 DEF Ids
      <4>7. Before(toolbox, toolbox[b].id, found)
        BY <1>1, <4>5, <4>6 DEF MadeInv
      <4>8. b < a
        BY <2>3, <2>6, <3>4, <4>7 DEF Before, Distinct
      <4>9. QED
        BY <2>6, <3>5, <4>8
    <3>6. found # NULL_ObjectId
      BY <3>3, NullAssumption
    <3>7. QED
      BY <3>4, <3>5, <3>6 DEF made, unknown
  <2>9. QED
    BY <2>7, <2>8
<1>2. ObjectsInv /\ MadeInv => FindSound
  BY <1>1 DEF FindSound
<1>3. QED
  BY MadeAlways, <1>2, PTL

-----------------------------------------------------------------------------
(* The SaveAs calls. *)

Interceptor == [intercept : BOOLEAN, last : Call \cup {Cleared}]

\* What an interceptor keeps of a call.
Kept(kind, call) == IF kind = "buffer_filled" THEN call ELSE Stored(call)

\* Never reset, or intercepting since a reset, or called since it: then the first
\* call is kept and the others were passed on.
KindInv(kind, icept, reset, calls, n) ==
  \/ ~icept.intercept /\ ~reset /\ icept.last = Cleared /\ n = Len(calls)
  \/ icept.intercept /\ reset /\ icept.last = Cleared /\ calls = <<>> /\ n = 0
  \/ /\ ~icept.intercept /\ reset /\ Len(calls) > 0 /\ n + 1 = Len(calls)
     /\ icept.last = Kept(kind, calls[1])

\* Each kind by itself.
SaveInv(kind, icept, reset, calls, n) ==
  /\ icept \in Interceptor
  /\ icept.last.data \in 0..(IF kind = "buffer_filled" THEN BufferSize ELSE NameSize)
  /\ calls \in Seq(Call) /\ Len(calls) <= MaxSent
  /\ n \in 0..MaxSent
  /\ KindInv(kind, icept, reset, calls, n)

SavesInv ==
  /\ DOMAIN saveas = Kinds /\ DOMAIN sent = Kinds /\ DOMAIN passed = Kinds
  /\ saveas = [k \in Kinds |-> saveas[k]]
  /\ sent = [k \in Kinds |-> sent[k]]
  /\ passed = [k \in Kinds |-> passed[k]]
  /\ armed \subseteq Kinds
  /\ \A k \in Kinds : SaveInv(k, saveas[k], k \in armed, sent[k], passed[k])
  /\ ret \in {NoError, SimulatedError, ToolboxError}
  /\ status \in {"running", "aborted", "overrun"}

LEMMA BoundsNat ==
  MaxSent \in Nat /\ MaxData \in Nat /\ BufferSize \in Nat /\ NameSize \in Nat
  BY SizesAssumption

LEMMA ClearedFacts ==
  ASSUME NEW kind \in Kinds, NEW reset \in BOOLEAN
  PROVE  SaveInv(kind, [intercept |-> reset, last |-> Cleared], reset, <<>>, 0)
<1> DEFINE icept == [intercept |-> reset, last |-> Cleared]
<1>1. icept \in Interceptor /\ icept.last = Cleared /\ (icept.intercept <=> reset)
  <2>1. CASE reset
    BY <2>1 DEF Interceptor
  <2>2. CASE ~reset
    BY <2>2 DEF Interceptor
  <2>3. QED
    BY <2>1, <2>2
<1> HIDE DEF icept
<1>2. <<>> \in Seq(Call) /\ Len(<<>>) = 0 /\ Cleared.data = 0
  BY DEF Cleared
<1>3. QED
  <2>1. KindInv(kind, icept, reset, <<>>, 0)
    BY <1>1, <1>2 DEF KindInv
  <2>2. QED
    BY <1>1, <1>2, <2>1, BoundsNat DEF SaveInv, icept

\* A file name that is cut fits, and one that fits is not cut.
LEMMA StoredFacts ==
  ASSUME NEW call \in Call, call.data >= 0
  PROVE  /\ Stored(call) \in Call /\ Stored(call).id = call.id
         /\ Stored(call).data = Least(call.data, NameSize)
         /\ Stored(call).data \in 0..NameSize
  BY BoundsNat DEF Call, Stored, Least

\* The first call after a reset.
LEMMA InterceptedFacts ==
  ASSUME NEW kind \in Kinds, NEW icept, NEW reset, NEW calls, NEW n,
         SaveInv(kind, icept, reset, calls, n), icept.intercept, Len(calls) < MaxSent,
         NEW call \in Call, call.data >= 0, kind = "buffer_filled" => call.data <= BufferSize
  PROVE  SaveInv(kind, [intercept |-> FALSE, last |-> Kept(kind, call)], reset,
                 Append(calls, call), n)
<1> DEFINE after == [intercept |-> FALSE, last |-> Kept(kind, call)]
           more == Append(calls, call)
<1>1. reset /\ calls = <<>> /\ n = 0 /\ Len(calls) = 0
  BY DEF SaveInv, KindInv
<1>2. more \in Seq(Call) /\ Len(more) = 1 /\ more[1] = call
  BY <1>1
<1>3. /\ Kept(kind, call) \in Call
      /\ Kept(kind, call).data \in 0..(IF kind = "buffer_filled" THEN BufferSize ELSE NameSize)
  BY StoredFacts, BoundsNat DEF Kept, Call
<1>4. after \in Interceptor /\ ~after.intercept /\ after.last = Kept(kind, call)
  BY <1>3 DEF Interceptor
<1> HIDE DEF after, more
<1>5. KindInv(kind, after, reset, more, n)
  BY <1>1, <1>2, <1>4 DEF KindInv
<1>6. SaveInv(kind, after, reset, more, n)
  <2>1. after.last.data \in 0..(IF kind = "buffer_filled" THEN BufferSize ELSE NameSize)
    BY <1>3, <1>4
  <2>2. Len(more) <= MaxSent /\ n \in 0..MaxSent
    BY <1>1, <1>2, BoundsNat
  <2>3. QED
    BY <1>2, <1>4, <1>5, <2>1, <2>2 DEF SaveInv
<1>7. QED
  BY <1>6 DEF after, more

\* The next ones.
LEMMA PassedOnFacts ==
  ASSUME NEW kind \in Kinds, NEW icept, NEW reset, NEW calls, NEW n,
         SaveInv(kind, icept, reset, calls, n), ~icept.intercept, Len(calls) < MaxSent,
         NEW call \in Call
  PROVE  SaveInv(kind, icept, reset, Append(calls, call), n + 1)
<1> DEFINE more == Append(calls, call)
<1>1. /\ more \in Seq(Call) /\ Len(more) = Len(calls) + 1 /\ Len(calls) \in Nat
      /\ Len(calls) > 0 => more[1] = calls[1]
  BY DEF SaveInv
<1>2. n \in Nat /\ n <= Len(calls) /\ Len(more) <= MaxSent
  BY <1>1, BoundsNat DEF SaveInv, KindInv
<1> HIDE DEF more
<1>3. KindInv(kind, icept, reset, more, n + 1)
  BY <1>1, <1>2 DEF SaveInv, KindInv
<1>4. n + 1 \in 0..MaxSent
  BY <1>1, <1>2, BoundsNat
<1>5. SaveInv(kind, icept, reset, more, n + 1)
  BY <1>1, <1>2, <1>3, <1>4 DEF SaveInv
<1>6. QED
  BY <1>5 DEF more

LEMMA InitSaves ==
  ASSUME Init
  PROVE  SavesInv
<1>1. ASSUME NEW k \in Kinds PROVE SaveInv(k, saveas[k], k \in armed, sent[k], passed[k])
  <2>1. /\ saveas[k] = [intercept |-> FALSE, last |-> Cleared]
        /\ sent[k] = <<>> /\ passed[k] = 0 /\ (k \in armed) = FALSE
    BY DEF Init
  <2>2. QED
    BY <2>1, ClearedFacts
<1>2. QED
  BY <1>1 DEF Init, SavesInv

\* A step that is not about the SaveAs calls.
LEMMA SameSaves ==
  ASSUME SavesInv, UNCHANGED saves, ret' \in {NoError, SimulatedError, ToolboxError},
         status' \in {"running", "aborted", "overrun"}
  PROVE  SavesInv'
  BY DEF SavesInv, saves

LEMMA ResetSaves ==
  ASSUME SavesInv, NEW kinds \in SUBSET Kinds, Reset(kinds), Returns(NoError)
  PROVE  SavesInv'
<1>1. /\ DOMAIN saveas' = Kinds /\ DOMAIN sent' = Kinds /\ DOMAIN passed' = Kinds
      /\ saveas' = [k \in Kinds |-> saveas'[k]]
      /\ sent' = [k \in Kinds |-> sent'[k]]
      /\ passed' = [k \in Kinds |-> passed'[k]]
      /\ armed' = armed \cup kinds
  BY DEF Reset
<1>2. ASSUME NEW k \in Kinds PROVE SaveInv(k, saveas'[k], k \in armed', sent'[k], passed'[k])
  <2>1. CASE k \in kinds
    <3>1. /\ saveas'[k] = [intercept |-> TRUE, last |-> Cleared]
          /\ sent'[k] = <<>> /\ passed'[k] = 0 /\ (k \in armed') = TRUE
      BY <1>1, <2>1 DEF Reset
    <3>2. QED
      BY <3>1, ClearedFacts
  <2>2. CASE k \notin kinds
    <3>1. /\ saveas'[k] = saveas[k] /\ sent'[k] = sent[k] /\ passed'[k] = passed[k]
          /\ (k \in armed') = (k \in armed)
      BY <1>1, <2>2 DEF Reset
    <3>2. QED
      BY <3>1 DEF SavesInv
  <2>3. QED
    BY <2>1, <2>2
<1>3. QED
  BY <1>1, <1>2 DEF SavesInv, Returns

\* A SaveAs call that is answered here or passed on changes its own kind only.
LEMMA SaveCall ==
  ASSUME SavesInv, NEW kind \in Kinds, NEW call \in Call, CanSend(kind),
         ~saveas[kind].intercept \/
           (call.data >= 0 /\ (kind = "buffer_filled" => call.data <= BufferSize)),
         Intercepted(kind, call, Kept(kind, call)) \/ PassedOn(kind, call)
  PROVE  SavesInv'
<1>1. SaveInv(kind, saveas[kind], kind \in armed, sent[kind], passed[kind]) /\ Len(sent[kind]) < MaxSent
  BY DEF SavesInv, CanSend
<1>2. ASSUME SaveInv(kind, saveas'[kind], kind \in armed, sent'[kind], passed'[kind]),
             armed' = armed,
             \A k \in Kinds \ {kind} : /\ saveas'[k] = saveas[k]
                                       /\ sent'[k] = sent[k] /\ passed'[k] = passed[k],
             saveas' = [k \in Kinds |-> saveas'[k]],
             sent' = [k \in Kinds |-> sent'[k]],
             passed' = [k \in Kinds |-> passed'[k]],
             ret' \in {NoError, SimulatedError, ToolboxError}, status' = status
      PROVE  SavesInv'
  <2>1. \A k \in Kinds : SaveInv(k, saveas'[k], k \in armed', sent'[k], passed'[k])
    BY <1>2 DEF SavesInv
  <2>2. DOMAIN saveas' = Kinds /\ DOMAIN sent' = Kinds /\ DOMAIN passed' = Kinds
    BY <1>2
  <2>3. QED
    BY <1>2, <2>1, <2>2 DEF SavesInv
<1>3. CASE Intercepted(kind, call, Kept(kind, call))
  <2>1. /\ saveas[kind].intercept
        /\ saveas' = [saveas EXCEPT ![kind] = [intercept |-> FALSE, last |-> Kept(kind, call)]]
        /\ sent' = [sent EXCEPT ![kind] = Append(sent[kind], call)]
        /\ armed' = armed /\ passed' = passed /\ ret' = NoError /\ status' = status
    BY <1>3 DEF Intercepted, Returns
  <2>2. SaveInv(kind, [intercept |-> FALSE, last |-> Kept(kind, call)], kind \in armed,
                Append(sent[kind], call), passed[kind])
    BY <1>1, <2>1, InterceptedFacts
  <2>3. /\ saveas'[kind] = [intercept |-> FALSE, last |-> Kept(kind, call)]
        /\ sent'[kind] = Append(sent[kind], call)
        /\ saveas' = [k \in Kinds |-> saveas'[k]] /\ sent' = [k \in Kinds |-> sent'[k]]
        /\ \A k \in Kinds \ {kind} : saveas'[k] = saveas[k] /\ sent'[k] = sent[k]
    BY <2>1 DEF SavesInv
  <2>4. QED
    BY <1>2, <2>1, <2>2, <2>3 DEF SavesInv
<1>4. CASE PassedOn(kind, call)
  <2>1. /\ ~saveas[kind].intercept
        /\ sent' = [sent EXCEPT ![kind] = Append(sent[kind], call)]
        /\ passed' = [passed EXCEPT ![kind] = passed[kind] + 1]
        /\ saveas' = saveas /\ armed' = armed /\ status' = status
        /\ ret' \in {NoError, SimulatedError, ToolboxError}
    BY <1>4 DEF PassedOn, Returns, pseudokern_fail, tbox
  <2>2. SaveInv(kind, saveas[kind], kind \in armed, Append(sent[kind], call),
                passed[kind] + 1)
    BY <1>1, <2>1, PassedOnFacts
  <2>3. /\ sent'[kind] = Append(sent[kind], call) /\ passed'[kind] = passed[kind] + 1
        /\ sent' = [k \in Kinds |-> sent'[k]] /\ passed' = [k \in Kinds |-> passed'[k]]
        /\ \A k \in Kinds \ {kind} : sent'[k] = sent[k] /\ passed'[k] = passed[k]
    BY <2>1 DEF SavesInv
  <2>4. QED
    BY <1>2, <2>1, <2>2, <2>3 DEF SavesInv
<1>5. QED
  BY <1>3, <1>4

\* SavesInv is inductive.
LEMMA SavesStep ==
  ASSUME SavesInv, [Next]_vars
  PROVE  SavesInv'
<1>1. ret \in {NoError, SimulatedError, ToolboxError} /\ status \in {"running", "aborted", "overrun"}
  BY DEF SavesInv
<1>2. CASE UNCHANGED vars
  BY <1>1, <1>2, SameSaves DEF vars, saves
<1>3. CASE pseudo_toolbox_initialise
  BY <1>1, <1>3, SameSaves DEF pseudo_toolbox_initialise, Returns, pseudokern_fail, tbox
<1>4. CASE Deliver
  BY <1>1, <1>4, SameSaves DEF Deliver
<1>5. CASE object_veneer \/ window_veneer \/ gadget_veneer \/ menu_veneer \/ dialogue_veneer
  BY <1>1, <1>5, SameSaves
  DEF object_veneer, window_veneer, gadget_veneer, menu_veneer, dialogue_veneer, Veneer,
      Returns, pseudokern_fail, tbox
<1>6. CASE pseudo_toolbox_reset
  BY <1>6, ResetSaves DEF pseudo_toolbox_reset, Kinds
<1>7. ASSUME NEW id \in ObjectId, NEW t \in Template,
             AutoCreate(id, t) \/ pseudo_toolbox_create_object(id, t)
      PROVE  SavesInv'
  BY <1>1, <1>7, SameSaves
  DEF AutoCreate, pseudo_toolbox_create_object, Returns, pseudokern_fail, tbox
<1>8. ASSUME NEW id \in ObjectId, AutoDelete(id) \/ pseudo_toolbox_delete_object(id)
      PROVE  SavesInv'
  BY <1>1, <1>8, SameSaves DEF AutoDelete, pseudo_toolbox_delete_object, Returns
<1>9. ASSUME NEW id \in ObjectId,
             pseudo_toolbox_show_object(id) \/ pseudo_toolbox_hide_object(id)
      PROVE  SavesInv'
  BY <1>1, <1>9, SameSaves
  DEF pseudo_toolbox_show_object, pseudo_toolbox_hide_object, ShowHide, Returns,
      pseudokern_fail
<1>10. CASE pseudo_saveas_reset_buffer_filled \/ pseudo_saveas_reset_file_save_completed
  BY <1>10, ResetSaves
  DEF pseudo_saveas_reset_buffer_filled, pseudo_saveas_reset_file_save_completed, ResetOne,
      Kinds
<1>11. ASSUME NEW call \in Call, pseudo_saveas_buffer_filled(call) PROVE SavesInv'
  <2>1. CASE status' \in {"aborted", "overrun"} /\ UNCHANGED <<saves, ret>>
    BY <1>1, <2>1, SameSaves
  <2>2. CASE /\ CanSend("buffer_filled")
             /\ \/ call.data \in 0..BufferSize /\ Intercepted("buffer_filled", call, call)
                \/ PassedOn("buffer_filled", call)
    <3>1. "buffer_filled" \in Kinds /\ Kept("buffer_filled", call) = call
      BY DEF Kinds, Kept
    <3>2. ~saveas["buffer_filled"].intercept \/ (call.data >= 0 /\ call.data <= BufferSize)
      BY <2>2, BoundsNat DEF PassedOn
    <3>3. QED
      BY <2>2, <3>1, <3>2, SaveCall
  <2>3. QED
    BY <1>11, <2>1, <2>2 DEF pseudo_saveas_buffer_filled
<1>12. ASSUME NEW call \in Call, pseudo_saveas_file_save_completed(call) PROVE SavesInv'
  <2>1. /\ "file_save_completed" \in Kinds
        /\ Kept("file_save_completed", call) = Stored(call)
    BY DEF Kinds, Kept
  <2>2. QED
    BY <1>12, <2>1, SaveCall DEF pseudo_saveas_file_save_completed
<1>13. QED
  BY <1>2, <1>3, <1>4, <1>5, <1>6, <1>7, <1>8, <1>9, <1>10, <1>11, <1>12 DEF Next

LEMMA SavesAlways == Spec => []SavesInv
  BY InitSaves, SavesStep, PTL DEF Spec

\* Every variable keeps its type, and no more is stored of a SaveAs call than
\* its buffer holds (PseudoTbox.c:469-472, 526-530).
THEOREM TypeSafety == Spec => []TypeOK
<1>1. ObjectsInv /\ SavesInv => TypeOK
  <2> SUFFICES ASSUME ObjectsInv, SavesInv PROVE TypeOK
    OBVIOUS
  <2>1. /\ initialised \in BOOLEAN
        /\ toolbox \in Seq([id : ObjectId, template : Template])
        /\ events \in Seq([kind : {"created", "deleted"}, id : ObjectId])
        /\ objects \in Seq([id : ObjectId, is_showing : BOOLEAN])
        /\ shown \subseteq ObjectId /\ unsure \subseteq ObjectId /\ missed \subseteq ObjectId
    BY DEF ObjectsInv, ListsOK, Object, Event, RecordType
  <2>2. /\ saveas \in [Kinds -> [intercept : BOOLEAN, last : Call \cup {Cleared}]]
        /\ sent \in [Kinds -> Seq(Call)]
        /\ passed \in [Kinds -> 0..MaxSent]
    BY DEF SavesInv, SaveInv, Interceptor
  <2>3. /\ saveas["buffer_filled"].last.data \in 0..BufferSize
        /\ saveas["file_save_completed"].last.data \in 0..NameSize
    BY DEF SavesInv, SaveInv, Kinds
  <2>4. QED
    BY <2>1, <2>2, <2>3 DEF TypeOK, SavesInv
<1>2. QED
  BY ObjectsAlways, SavesAlways, <1>1, PTL

\* Of the SaveAs calls since a reset the first is recorded, whole but for a name
\* too long, and no other; every other one, and without a reset every one, goes
\* through the gate (PseudoTbox.c:465-480, 526-540), for any number of calls.
THEOREM SavesAlwaysAccounted == Spec => []SavesAccounted
<1>1. ASSUME SavesInv, NEW k \in Kinds
      PROVE  LET recorded == k \in armed /\ sent[k] # <<>>
                 first == [sent[k][1] EXCEPT
                             !.data = IF k = "buffer_filled" THEN @ ELSE Least(@, NameSize)]
             IN /\ saveas[k].intercept <=> k \in armed /\ sent[k] = <<>>
                /\ Retrieved(k) = IF recorded THEN first ELSE Cleared
                /\ passed[k] = Len(sent[k]) - (IF recorded THEN 1 ELSE 0)
  <2> DEFINE last == saveas[k].last
  <2>1. SaveInv(k, saveas[k], k \in armed, sent[k], passed[k])
    BY <1>1 DEF SavesInv
  <2>2. last \in Call \cup {Cleared} /\ last.data \in Nat
    BY <2>1, BoundsNat DEF SaveInv, Interceptor
  <2>3. last = [id |-> last.id, data |-> last.data]
    BY <2>2 DEF Call, Cleared
  <2>4. Retrieved(k) = last
    <3>1. CASE k = "buffer_filled"
      BY <2>2, <2>3, <3>1 DEF Retrieved, pseudo_saveas_get_buffer_filled, Least
    <3>2. CASE k = "file_save_completed"
      BY <2>2, <2>3, <3>2 DEF Retrieved, pseudo_saveas_get_file_save_completed, Least
    <3>3. QED
      BY <3>1, <3>2 DEF Kinds
  <2>5. /\ sent[k] \in Seq(Call) /\ passed[k] \in Nat /\ Len(sent[k]) \in Nat
        /\ sent[k] = <<>> <=> Len(sent[k]) = 0
    BY <2>1, BoundsNat, EmptySeq, LenProperties DEF SaveInv
  <2>6. CASE k \in armed /\ Len(sent[k]) > 0
    <3>1. sent[k][1] \in Call
      BY <2>5, <2>6
    <3>2. Kept(k, sent[k][1]) = [sent[k][1] EXCEPT
             !.data = IF k = "buffer_filled" THEN @ ELSE Least(@, NameSize)]
      BY <3>1 DEF Kept, Stored, Call
    <3>3. ~saveas[k].intercept /\ passed[k] + 1 = Len(sent[k]) /\ last = Kept(k, sent[k][1])
      BY <2>1, <2>5, <2>6 DEF SaveInv, KindInv
    <3>4. passed[k] = Len(sent[k]) - 1
      BY <2>5, <3>3
    <3>5. sent[k] # <<>>
      BY <2>5, <2>6
    <3> HIDE DEF last
    <3>6. QED
      BY <2>4, <2>6, <3>2, <3>3, <3>4, <3>5
  <2>7. CASE ~(k \in armed /\ Len(sent[k]) > 0)
    <3>1. /\ saveas[k].intercept <=> k \in armed
          /\ last = Cleared /\ passed[k] = Len(sent[k])
      BY <2>1, <2>5, <2>7 DEF SaveInv, KindInv
    <3>2. k \in armed => sent[k] = <<>>
      BY <2>5, <2>7
    <3>3. passed[k] = Len(sent[k]) - 0
      BY <2>5, <3>1
    <3> HIDE DEF last
    <3>4. QED
      BY <2>4, <3>1, <3>2, <3>3
  <2>8. QED
    BY <2>6, <2>7
<1>2. SavesInv => SavesAccounted
  BY <1>1 DEF SavesAccounted
<1>3. QED
  BY SavesAlways, <1>2, PTL

-----------------------------------------------------------------------------
(* PseudoPoll.  Misprinted events leave more than one record of an object.     *)

Once(s, id) == \A i, j \in DOMAIN s : s[i].id = id /\ s[j].id = id => i = j
Twice(s, id) ==
  \A i, j, k \in DOMAIN s :
    s[i].id = id /\ s[j].id = id /\ s[k].id = id => i = j \/ j = k \/ i = k

LEMMA ConsCopies ==
  ASSUME NEW R, NEW s \in Seq(R), NEW r \in R
  PROVE  LET t == Cons(r, s) IN
         /\ t \in Seq(R)
         /\ Ids(t) = Ids(s) \cup {r.id}
         /\ \A x : x # r.id => (Once(s, x) => Once(t, x)) /\ (Twice(s, x) => Twice(t, x))
         /\ r.id \notin Ids(s) => Once(t, r.id)
         /\ Once(s, r.id) => Twice(t, r.id)
<1> DEFINE t == Cons(r, s)
<1>1. /\ t \in Seq(R) /\ DOMAIN t = 1..(Len(s) + 1) /\ t[1] = r
      /\ \A i \in DOMAIN s : t[i + 1] = s[i]
  BY InsertFacts DEF Cons
<1>2. DOMAIN s = 1..Len(s) /\ Len(s) \in Nat
  BY LenProperties
<1> HIDE DEF t
<1> DEFINE Old(j) == j - 1
<1>3. /\ 1 \in DOMAIN t
      /\ \A j \in DOMAIN t : j # 1 => Old(j) \in DOMAIN s /\ t[j] = s[Old(j)]
      /\ \A i \in DOMAIN s : \E j \in DOMAIN t : t[j] = s[i]
      /\ \A i, j \in DOMAIN t : Old(i) = Old(j) => i = j
  <2>1. \A j \in DOMAIN t : j # 1 => Old(j) \in DOMAIN s /\ t[j] = s[Old(j)]
    <3> TAKE j \in DOMAIN t
    <3>1. j # 1 => j - 1 \in DOMAIN s /\ (j - 1) + 1 = j
      BY <1>1, <1>2
    <3>2. QED
      BY <1>1, <3>1
  <2>2. \A i \in DOMAIN s : i + 1 \in DOMAIN t /\ t[i + 1] = s[i]
    BY <1>1, <1>2
  <2>3. QED
    BY <1>1, <1>2, <2>1, <2>2
<1> HIDE DEF Old
<1>4. Ids(t) = Ids(s) \cup {r.id}
  BY <1>1, <1>3 DEF Ids
<1>5. ASSUME NEW x, x # r.id, Once(s, x) PROVE Once(t, x)
  BY <1>1, <1>3, <1>5 DEF Once
<1>6. ASSUME NEW x, x # r.id, Twice(s, x) PROVE Twice(t, x)
  <2> SUFFICES ASSUME NEW i \in DOMAIN t, NEW j \in DOMAIN t, NEW k \in DOMAIN t,
                      t[i].id = x, t[j].id = x, t[k].id = x
               PROVE  i = j \/ j = k \/ i = k
    BY DEF Twice
  <2>1. /\ Old(i) \in DOMAIN s /\ Old(j) \in DOMAIN s /\ Old(k) \in DOMAIN s
        /\ s[Old(i)].id = x /\ s[Old(j)].id = x /\ s[Old(k)].id = x
    BY <1>1, <1>3, <1>6
  <2>2. Old(i) = Old(j) \/ Old(j) = Old(k) \/ Old(i) = Old(k)
    BY <1>6, <2>1 DEF Twice
  <2>3. QED
    BY <1>3, <2>2
<1>7. ASSUME r.id \notin Ids(s) PROVE Once(t, r.id)
  <2>1. \A j \in DOMAIN t : t[j].id = r.id => j = 1
    BY <1>3, <1>7 DEF Ids
  <2>2. QED
    BY <2>1 DEF Once
<1>8. ASSUME Once(s, r.id) PROVE Twice(t, r.id)
  <2> SUFFICES ASSUME NEW i \in DOMAIN t, NEW j \in DOMAIN t, NEW k \in DOMAIN t,
                      t[i].id = r.id, t[j].id = r.id, t[k].id = r.id
               PROVE  i = j \/ j = k \/ i = k
    BY DEF Twice
  <2>1. ASSUME NEW a \in DOMAIN t, NEW b \in DOMAIN t, a # 1, b # 1,
               t[a].id = r.id, t[b].id = r.id
        PROVE  a = b
    <3>1. /\ Old(a) \in DOMAIN s /\ s[Old(a)].id = r.id
          /\ Old(b) \in DOMAIN s /\ s[Old(b)].id = r.id
      BY <1>3, <2>1
    <3>2. Old(a) = Old(b)
      BY <1>8, <3>1 DEF Once
    <3>3. QED
      BY <1>3, <3>2
  <2>2. QED
    BY <2>1
<1>9. QED
  BY <1>1, <1>4, <1>5, <1>6, <1>7, <1>8 DEF t

LEMMA RemoveCopies ==
  ASSUME NEW R, NEW s \in Seq(R), NEW id \in Ids(s)
  PROVE  LET t == RemoveAt(s, Place(s, id)) IN
         /\ t \in Seq(R)
         /\ Ids(t) \subseteq Ids(s) /\ Ids(s) \ {id} \subseteq Ids(t)
         /\ \A x : (Once(s, x) => Once(t, x)) /\ (Twice(s, x) => Twice(t, x))
         /\ Once(s, id) => id \notin Ids(t)
         /\ Twice(s, id) => Once(t, id)
<1> DEFINE p == Place(s, id)
           t == RemoveAt(s, p)
           Was(j) == OldPlace(p, j)
<1>1. p \in DOMAIN s /\ s[p].id = id
  BY PlaceFacts
<1>2. /\ t \in Seq(R)
      /\ \A j \in DOMAIN t : Was(j) \in DOMAIN s /\ Was(j) # p /\ t[j] = s[Was(j)]
      /\ \A i \in DOMAIN s : i # p => \E j \in DOMAIN t : Was(j) = i
      /\ \A i, j \in DOMAIN t : Was(i) = Was(j) => i = j
      /\ \A i, j \in DOMAIN t : i < j <=> Was(i) < Was(j)
  BY <1>1, RemovedPlaces
<1> HIDE DEF p, t, Was
<1>3. Ids(t) \subseteq Ids(s) /\ Ids(s) \ {id} \subseteq Ids(t)
  <2>1. Ids(t) \subseteq Ids(s)
    BY <1>2 DEF Ids
  <2>2. \A i \in DOMAIN s : s[i].id # id => \E j \in DOMAIN t : t[j].id = s[i].id
    BY <1>1, <1>2
  <2>3. QED
    BY <2>1, <2>2 DEF Ids
<1>4. ASSUME NEW x, Once(s, x) PROVE Once(t, x)
  BY <1>2, <1>4 DEF Once
<1>5. ASSUME NEW x, Twice(s, x) PROVE Twice(t, x)
  <2> SUFFICES ASSUME NEW i \in DOMAIN t, NEW j \in DOMAIN t, NEW k \in DOMAIN t,
                      t[i].id = x, t[j].id = x, t[k].id = x
               PROVE  i = j \/ j = k \/ i = k
    BY DEF Twice
  <2>1. /\ Was(i) \in DOMAIN s /\ Was(j) \in DOMAIN s /\ Was(k) \in DOMAIN s
        /\ s[Was(i)].id = x /\ s[Was(j)].id = x /\ s[Was(k)].id = x
    BY <1>2
  <2>2. Was(i) = Was(j) \/ Was(j) = Was(k) \/ Was(i) = Was(k)
    BY <1>5, <2>1 DEF Twice
  <2>3. QED
    BY <1>2, <2>2
<1>6. ASSUME Once(s, id) PROVE id \notin Ids(t)
  <2>1. \A j \in DOMAIN t : t[j].id # id
    BY <1>1, <1>2, <1>6 DEF Once
  <2>2. QED
    BY <2>1 DEF Ids
<1>7. ASSUME Twice(s, id) PROVE Once(t, id)
  <2> SUFFICES ASSUME NEW i \in DOMAIN t, NEW j \in DOMAIN t, t[i].id = id, t[j].id = id
               PROVE  i = j
    BY DEF Once
  <2>1. /\ Was(i) \in DOMAIN s /\ Was(j) \in DOMAIN s /\ Was(i) # p /\ Was(j) # p
        /\ s[Was(i)].id = id /\ s[Was(j)].id = id
    BY <1>2
  <2>2. Was(i) = Was(j)
    BY <1>1, <1>7, <2>1 DEF Twice
  <2>3. QED
    BY <1>2, <2>2
<1>8. QED
  BY <1>2, <1>3, <1>4, <1>5, <1>6, <1>7 DEF p, t

LEMMA OnceTwice ==
  ASSUME NEW s, NEW id
  PROVE  /\ Once(s, id) => Twice(s, id)
         /\ id \notin Ids(s) => Once(s, id)
<1>1. Once(s, id) => Twice(s, id)
  BY DEF Once, Twice
<1>2. id \notin Ids(s) => Once(s, id)
  BY DEF Once, Ids
<1>3. QED
  BY <1>1, <1>2

-----------------------------------------------------------------------------
(* The inductive invariant of PollSpec. *)

PollRecord == [id : ObjectId \cup {NULL_ObjectId}, is_showing : BOOLEAN]

ListTypes ==
  /\ initialised \in BOOLEAN
  /\ toolbox \in Seq(Object)
  /\ events \in Seq(Event) /\ Len(events) <= MaxEvents
  /\ objects \in Seq(PollRecord)

PollTypes ==
  /\ stack \in Seq(Poll) /\ Len(stack) <= MaxNest
  /\ self_id \in ObjectId \cup {NULL_ObjectId}
  /\ client_block \in BOOLEAN
  /\ mask \in Masks
  /\ messages \in 0..MaxMessages
  /\ lost \subseteq ObjectId /\ surplus \subseteq ObjectId \cup {NULL_ObjectId}

\* What the queue of events tells, whatever was printed of it.
QueueInv ==
  /\ Distinct(toolbox) /\ Ordered(events)
  /\ Told(events, "deleted") \cap Ids(toolbox) = {}
  /\ Told(events, "created") \ Ids(toolbox) \subseteq Told(events, "deleted")

\* The polls in progress: all but the innermost run handlers; a wait for idle has
\* printed its event before that, and counts down as it takes events.
FrameInv(p) ==
  /\ p.at = "poll" \/ p.op = "wait_for_idle" => p.event = ENull
  /\ p.op = "wait_for_idle" =>
       p.taken + p.count = IdleCount + (IF p.at = "handlers" THEN 1 ELSE 0)

\* The ID block is that of an event whose handlers run, unless an inner poll has
\* taken another one.
Fresh(p) == AboutObject(p.event) /\ ~p.disturbed

FramesInv ==
  /\ \A i \in DOMAIN stack : FrameInv(stack[i])
  /\ \A i \in DOMAIN stack : Fresh(stack[i]) =>
       /\ self_id = stack[i].event.id
       /\ \A j \in DOMAIN stack : i < j => stack[j].event = ENull
  /\ ~initialised => stack = <<>>

\* What is missed or lost exists without a record, and a record is surplus as long
\* as it is there.
AmissInv ==
  /\ missed \cup lost \subseteq Ids(toolbox) \ Ids(objects)
  /\ surplus \subseteq Ids(objects)
  /\ NULL_ObjectId \in Ids(objects) => NULL_ObjectId \in surplus

\* What RecordsFollowPolls says of an object; and one whose creation is queued has
\* no record yet.
Sound(id) ==
  /\ id \in Ids(toolbox) \ Ids(objects)
       => id \in Told(events, "created") \cup Handling("created") \cup missed \cup lost
  /\ id \in Ids(objects) \ Ids(toolbox)
       => id \in Told(events, "deleted") \cup Handling("deleted") \cup surplus
  /\ id \notin Handling("deleted") \cup surplus => Once(objects, id)
  /\ id \in Told(events, "created") \cap Ids(objects)
       => id \in Handling("deleted") \cup surplus

\* While the handlers of its creation run an object keeps its identifier and has
\* no record.
CreatedOK(id) ==
  /\ id \notin Told(events, "created")
  /\ id \in Ids(toolbox) \cup Told(events, "deleted")
  /\ id \in Ids(objects) => id \in Handling("deleted") \cup surplus

\* While those of its deletion run there is its record, and at most one more, of a
\* successor that the client made.
DeletedOK(id) ==
  id \notin surplus =>
    /\ Twice(objects, id)
    /\ id \in Told(events, "created") \/ id \notin Ids(toolbox) \cup Told(events, "deleted")
         => Once(objects, id)

HandledOK(id) ==
  \A i \in DOMAIN stack :
    Fresh(stack[i]) /\ stack[i].event.id = id =>
      /\ stack[i].event.kind = "created" => CreatedOK(id)
      /\ /\ stack[i].event.kind = "deleted"
         /\ \A j \in DOMAIN stack : j < i => stack[j].event # stack[i].event
         => DeletedOK(id)

RecordsInv == \A id \in ObjectId : Sound(id) /\ HandledOK(id)

PollInv == ListTypes /\ PollTypes /\ QueueInv /\ FramesInv /\ AmissInv /\ RecordsInv

LEMMA AmissFacts ==
  ASSUME NEW U, NEW S, Amiss(U, S)
  PROVE  /\ \A x : x \in lost' <=>
                    x \in lost \cup U /\ x \in Ids(toolbox') /\ x \notin Ids(objects')
         /\ \A x : x \in surplus' <=> x \in surplus \cup S /\ x \in Ids(objects')
  BY DEF Amiss

\* Nothing more goes amiss than did.
LEMMA NoneAmiss ==
  ASSUME AmissInv, Amiss({}, {}), UNCHANGED <<toolbox, objects>>
  PROVE  UNCHANGED <<lost, surplus>>
  BY DEF Amiss, AmissInv

\* There are not two records of one of which there is none.
LEMMA NoCopies ==
  ASSUME NEW s, NEW id, id \notin Ids(s)
  PROVE  Once(s, id) /\ Twice(s, id)
  BY DEF Once, Twice, Ids

-----------------------------------------------------------------------------
(* The operations on the lists. *)

LEMMA PollNewRecord ==
  ASSUME ListTypes, NEW id \in ObjectId \cup {NULL_ObjectId}, NewRecord(id)
  PROVE  /\ objects' \in Seq(PollRecord)
         /\ Ids(objects') = Ids(objects) \cup {id}
         /\ \A x : x # id => /\ Once(objects, x) => Once(objects', x)
                             /\ Twice(objects, x) => Twice(objects', x)
         /\ id \notin Ids(objects) => Once(objects', id)
         /\ Once(objects, id) => Twice(objects', id)
<1> DEFINE r == [id |-> id, is_showing |-> FALSE]
<1>1. r \in PollRecord /\ r.id = id
  BY DEF PollRecord
<1> HIDE DEF r
<1>2. objects' = Cons(r, objects)
  BY DEF NewRecord, r
<1>3. QED
  BY <1>1, <1>2, ConsCopies DEF ListTypes

LEMMA PollForget ==
  ASSUME ListTypes, NEW id, Forget(id)
  PROVE  /\ objects' \in Seq(PollRecord)
         /\ Ids(objects') \subseteq Ids(objects) /\ Ids(objects) \ {id} \subseteq Ids(objects')
         /\ \A x : /\ Once(objects, x) => Once(objects', x)
                   /\ Twice(objects, x) => Twice(objects', x)
         /\ Once(objects, id) => id \notin Ids(objects')
         /\ Twice(objects, id) => Once(objects', id)
<1>1. Recorded(id) <=> id \in Ids(objects)
  BY DEF Recorded, Ids
<1>2. CASE ~Recorded(id)
  <2>1. objects' = objects
    BY <1>2 DEF Forget
  <2>2. QED
    BY <1>1, <1>2, <2>1, OnceTwice DEF ListTypes
<1>3. CASE Recorded(id)
  <2>1. objects' = RemoveAt(objects, Place(objects, id))
    BY <1>3 DEF Forget, RecordOf, Place, SelectInSeq
  <2>2. QED
    BY <1>1, <1>3, <2>1, RemoveCopies DEF ListTypes
<1>4. QED
  BY <1>2, <1>3

\* What is known of an identifier that the Toolbox may use again.
LEMMA PollFree ==
  ASSUME ListTypes, NEW id, Free(id)
  PROVE  /\ id \notin Ids(toolbox) /\ id \notin Ids(events)
         /\ id \notin Told(events, "created") /\ id \notin Told(events, "deleted")
  BY IdsTold DEF Free, ListTypes

LEMMA PollPosted ==
  ASSUME ListTypes, QueueInv, Len(events) < MaxEvents,
         NEW kind \in {"created", "deleted"}, NEW id \in ObjectId, Posted(kind, id),
         kind = "created" => id \notin Ids(events),
         kind = "deleted" => id \notin Told(events, "deleted")
  PROVE  /\ events' \in Seq(Event) /\ Ordered(events') /\ Len(events') <= MaxEvents
         /\ Told(events', kind) = Told(events, kind) \cup {id}
         /\ \A k : k # kind => Told(events', k) = Told(events, k)
<1>1. /\ events' \in Seq(Event) /\ Ordered(events')
      /\ Told(events', kind) = Told(events, kind) \cup {id}
      /\ \A k : k # kind => Told(events', k) = Told(events, k)
  BY PostedQueue DEF ListTypes, QueueInv
<1>2. Len(events') = Len(events) + 1
  BY DEF Posted, ListTypes
<1>3. Len(events) \in Nat /\ MaxEvents \in Nat
  BY LenProperties, SizesAssumption DEF ListTypes
<1>4. QED
  BY <1>1, <1>2, <1>3

\* An operation keeps what holds of an object, if the polls are where they were.
Keeps ==
  \A id \in ObjectId :
    Sound(id) => /\ Sound(id)'
                 /\ CreatedOK(id) => CreatedOK(id)'
                 /\ DeletedOK(id) => DeletedOK(id)'

TableKept == ListTypes' /\ QueueInv' /\ AmissInv' /\ Keeps

LEMMA SameHandling ==
  ASSUME UNCHANGED stack
  PROVE  \A k : Handling(k)' = Handling(k)
  BY DEF Handling

LEMMA PollAutoCreate ==
  ASSUME ListTypes, QueueInv, AmissInv, NEW id \in ObjectId, NEW t \in Template,
         AutoCreate(id, t), UNCHANGED stack, Amiss({}, {})
  PROVE  TableKept
<1>1. /\ id \notin Ids(toolbox) /\ id \notin Ids(events)
      /\ id \notin Told(events, "created") /\ id \notin Told(events, "deleted")
  BY PollFree DEF AutoCreate
<1>2. /\ toolbox' \in Seq(Object) /\ Distinct(toolbox')
      /\ Ids(toolbox') = Ids(toolbox) \cup {id}
  BY <1>1, CreatedFacts DEF AutoCreate, ListTypes, QueueInv
<1>3. /\ events' \in Seq(Event) /\ Ordered(events') /\ Len(events') <= MaxEvents
      /\ Told(events', "created") = Told(events, "created") \cup {id}
      /\ Told(events', "deleted") = Told(events, "deleted")
  BY <1>1, PollPosted DEF AutoCreate
<1>4. UNCHANGED <<initialised, objects, missed>> /\ initialised = TRUE
  BY DEF AutoCreate, Running, records, ListTypes
<1>a. /\ \A x : x \in lost' <=> x \in lost /\ x \in Ids(toolbox') /\ x \notin Ids(objects')
      /\ \A x : x \in surplus' <=> x \in surplus /\ x \in Ids(objects')
  BY AmissFacts
<1>5. ListTypes' /\ QueueInv' /\ AmissInv'
  BY <1>1, <1>2, <1>3, <1>4, <1>a DEF ListTypes, QueueInv, AmissInv
<1>6. Keeps
  BY <1>1, <1>2, <1>3, <1>4, <1>a, SameHandling, NoCopies
  DEF Keeps, Sound, CreatedOK, DeletedOK
<1>7. QED
  BY <1>5, <1>6 DEF TableKept

LEMMA PollDeleted ==
  ASSUME ListTypes, QueueInv, AmissInv, NEW id \in ObjectId, id \in Ids(toolbox),
         initialised, Len(events) < MaxEvents, Deleted(id), Posted("deleted", id),
         UNCHANGED <<initialised, stack>>, missed' = missed \ {id},
         UNCHANGED objects \/ Forget(id), Amiss({}, {})
  PROVE  TableKept
<1>1. /\ toolbox' \in Seq(Object) /\ Distinct(toolbox')
      /\ Ids(toolbox') = Ids(toolbox) \ {id}
  BY DeletedFacts DEF ListTypes, QueueInv
<1>2. id \notin Told(events, "deleted")
  BY DEF QueueInv
<1>3. /\ events' \in Seq(Event) /\ Ordered(events') /\ Len(events') <= MaxEvents
      /\ Told(events', "deleted") = Told(events, "deleted") \cup {id}
      /\ Told(events', "created") = Told(events, "created")
  BY <1>2, PollPosted
<1>4. /\ objects' \in Seq(PollRecord)
      /\ Ids(objects') \subseteq Ids(objects) /\ Ids(objects) \ {id} \subseteq Ids(objects')
      /\ \A x : /\ Once(objects, x) => Once(objects', x)
                /\ Twice(objects, x) => Twice(objects', x)
  BY PollForget DEF ListTypes
<1>a. /\ \A x : x \in lost' <=> x \in lost /\ x \in Ids(toolbox') /\ x \notin Ids(objects')
      /\ \A x : x \in surplus' <=> x \in surplus /\ x \in Ids(objects')
  BY AmissFacts
<1>5. ListTypes' /\ QueueInv' /\ AmissInv'
  BY <1>1, <1>3, <1>4, <1>a, NullAssumption DEF ListTypes, QueueInv, AmissInv
<1>6. Keeps
  BY <1>1, <1>3, <1>4, <1>a, SameHandling, NoCopies
  DEF Keeps, Sound, CreatedOK, DeletedOK
<1>7. QED
  BY <1>5, <1>6 DEF TableKept

LEMMA PollCreate ==
  ASSUME ListTypes, QueueInv, AmissInv, NEW id \in ObjectId, NEW t \in Template,
         pseudo_toolbox_create_object(id, t), UNCHANGED stack, Amiss({}, {})
  PROVE  TableKept
<1>1. /\ UNCHANGED <<initialised, events, missed>>
      /\ initialised = TRUE
      /\ \/ UNCHANGED <<toolbox, objects>>
         \/ Created(id, t) /\ NewRecord(id)
  BY DEF pseudo_toolbox_create_object, Running, ListTypes
<1>a. /\ \A x : x \in lost' <=> x \in lost /\ x \in Ids(toolbox') /\ x \notin Ids(objects')
      /\ \A x : x \in surplus' <=> x \in surplus /\ x \in Ids(objects')
  BY AmissFacts
<1>2. CASE UNCHANGED <<toolbox, objects>>
  BY <1>1, <1>2, SameHandling, NoneAmiss
  DEF TableKept, Keeps, ListTypes, QueueInv, AmissInv, Sound, CreatedOK, DeletedOK
<1>3. CASE Created(id, t) /\ NewRecord(id)
  <2>1. /\ id \notin Ids(toolbox)
        /\ id \notin Told(events, "created") /\ id \notin Told(events, "deleted")
    BY PollFree DEF pseudo_toolbox_create_object
  <2>2. /\ toolbox' \in Seq(Object) /\ Distinct(toolbox')
        /\ Ids(toolbox') = Ids(toolbox) \cup {id}
    BY <1>3, <2>1, CreatedFacts DEF ListTypes, QueueInv
  <2>3. /\ objects' \in Seq(PollRecord)
        /\ Ids(objects') = Ids(objects) \cup {id}
        /\ \A x : x # id => /\ Once(objects, x) => Once(objects', x)
                            /\ Twice(objects, x) => Twice(objects', x)
        /\ id \notin Ids(objects) => Once(objects', id)
        /\ Once(objects, id) => Twice(objects', id)
    BY <1>3, PollNewRecord
  <2>4. ListTypes' /\ QueueInv' /\ AmissInv'
    BY <1>1, <1>a, <2>1, <2>2, <2>3, NullAssumption DEF ListTypes, QueueInv, AmissInv
  <2>5. Keeps
    BY <1>1, <1>a, <2>1, <2>2, <2>3, SameHandling, NoCopies
    DEF Keeps, Sound, CreatedOK, DeletedOK
  <2>6. QED
    BY <2>4, <2>5 DEF TableKept
<1>4. QED
  BY <1>1, <1>2, <1>3

LEMMA PollDelete ==
  ASSUME ListTypes, QueueInv, AmissInv, NEW id \in ObjectId,
         pseudo_toolbox_delete_object(id), UNCHANGED stack, Amiss({}, {})
  PROVE  TableKept
<1>1. /\ Forget(id) /\ UNCHANGED initialised /\ initialised = TRUE
      /\ \/ /\ id \in Ids(toolbox) /\ Len(events) < MaxEvents /\ Deleted(id)
            /\ Posted("deleted", id) /\ missed' = missed \ {id}
         \/ missed' = missed \cup Unrecorded(id) /\ UNCHANGED <<toolbox, events>>
  BY DEF pseudo_toolbox_delete_object, pseudo_toolbox_object_deleted, Running, ListTypes
<1>2. CASE /\ id \in Ids(toolbox) /\ Len(events) < MaxEvents /\ Deleted(id)
           /\ Posted("deleted", id) /\ missed' = missed \ {id}
  BY <1>1, <1>2, PollDeleted
<1>3. CASE missed' = missed \cup Unrecorded(id) /\ UNCHANGED <<toolbox, events>>
  <2>1. /\ objects' \in Seq(PollRecord)
        /\ Ids(objects') \subseteq Ids(objects) /\ Ids(objects) \ {id} \subseteq Ids(objects')
        /\ \A x : /\ Once(objects, x) => Once(objects', x)
                  /\ Twice(objects, x) => Twice(objects', x)
    BY <1>1, PollForget
  <2>2. /\ \A x : x \in lost' <=> x \in lost /\ x \in Ids(toolbox') /\ x \notin Ids(objects')
        /\ \A x : x \in surplus' <=> x \in surplus /\ x \in Ids(objects')
    BY AmissFacts
  <2>3. missed' = missed \cup (({id} \cap Ids(toolbox)) \ Ids(objects'))
    BY <1>3 DEF Unrecorded
  <2>4. ListTypes' /\ QueueInv' /\ AmissInv'
    BY <1>1, <1>3, <2>1, <2>2, <2>3 DEF ListTypes, QueueInv, AmissInv
  <2>5. Keeps
    BY <1>3, <2>1, <2>2, <2>3, SameHandling, NoCopies DEF Keeps, Sound, CreatedOK, DeletedOK
  <2>6. QED
    BY <2>4, <2>5 DEF TableKept
<1>4. QED
  BY <1>1, <1>2, <1>3

\* The records go, and the objects that are there are missed.
LEMMA PollInitialise ==
  ASSUME ListTypes, QueueInv, AmissInv, pseudo_toolbox_initialise, UNCHANGED stack,
         Amiss({}, {})
  PROVE  TableKept
<1>1. /\ UNCHANGED <<toolbox, events>> /\ initialised' \in BOOLEAN
      /\ \/ UNCHANGED <<objects, missed>>
         \/ objects' = <<>> /\ missed' = missed \cup Ids(toolbox)
  BY DEF pseudo_toolbox_initialise, ListTypes
<1>2. CASE UNCHANGED <<objects, missed>>
  BY <1>1, <1>2, SameHandling, NoneAmiss
  DEF TableKept, Keeps, ListTypes, QueueInv, AmissInv, Sound, CreatedOK, DeletedOK
<1>3. CASE objects' = <<>> /\ missed' = missed \cup Ids(toolbox)
  <2>1. objects' \in Seq(PollRecord) /\ Ids(objects') = {}
    BY <1>3, EmptyFacts
  <2>2. /\ \A x : x \in lost' <=> x \in lost /\ x \in Ids(toolbox') /\ x \notin Ids(objects')
        /\ surplus' = {}
    BY <2>1, AmissFacts
  <2>3. ListTypes' /\ QueueInv' /\ AmissInv'
    BY <1>1, <1>3, <2>1, <2>2 DEF ListTypes, QueueInv, AmissInv
  <2>4. Keeps
    BY <1>1, <1>3, <2>1, <2>2, SameHandling, NoCopies DEF Keeps, Sound, CreatedOK, DeletedOK
  <2>5. QED
    BY <2>3, <2>4 DEF TableKept
<1>4. QED
  BY <1>1, <1>2, <1>3

-----------------------------------------------------------------------------
(* The stack. *)

LEMMA IdsTypes ==
  /\ \A s \in Seq(Object) : Ids(s) \subseteq ObjectId
  /\ \A s \in Seq(PollRecord) : Ids(s) \subseteq ObjectId \cup {NULL_ObjectId}
<1>1. ASSUME NEW R, NEW s \in Seq(R), NEW x \in Ids(s)
      PROVE  \E r \in R : x = r.id
  <2>1. PICK i \in DOMAIN s : x = s[i].id
    BY <1>1 DEF Ids
  <2>2. DOMAIN s = 1..Len(s) /\ s[i] \in R
    BY <1>1, <2>1, ElementOfSeq, LenProperties
  <2>3. QED
    BY <2>1, <2>2
<1>2. (\A r \in Object : r.id \in ObjectId)
      /\ (\A r \in PollRecord : r.id \in ObjectId \cup {NULL_ObjectId})
  BY DEF Object, PollRecord
<1>3. QED
  BY <1>1, <1>2

LEMMA HandlingFacts ==
  ASSUME NEW id, NEW k
  PROVE  /\ id \in Handling(k) <=>
              \E i \in DOMAIN stack : stack[i].event.kind = k /\ stack[i].event.id = id
         /\ id \in Handling(k)' <=>
              \E i \in DOMAIN stack' : stack'[i].event.kind = k /\ stack'[i].event.id = id
  BY DEF Handling, ToSet

LEMMA StackFacts ==
  ASSUME PollTypes
  PROVE  /\ DOMAIN stack = 1..Len(stack) /\ Len(stack) \in Nat
         /\ \A i \in DOMAIN stack : stack[i] \in Poll
  BY ElementOfSeq, LenProperties DEF PollTypes

LEMMA EventFacts ==
  /\ ~AboutObject(ENull) /\ ~AboutObject(UserMessage) /\ ENull # UserMessage
  /\ ENull.id = NULL_ObjectId /\ UserMessage.id = NULL_ObjectId
  /\ ENull.kind # "created" /\ ENull.kind # "deleted"
  /\ \A e \in ToolboxEvent : AboutObject(e) /\ e.id \in ObjectId /\ e # ENull /\ e # UserMessage
  /\ \A p \in Poll : AboutObject(p.event) => p.event \in ToolboxEvent
  /\ \A p \in Poll : ~AboutObject(p.event) => p.event = ENull
  /\ Event = ToolboxEvent
<1>1. /\ ~AboutObject(ENull) /\ ~AboutObject(UserMessage) /\ ENull # UserMessage
      /\ ENull.id = NULL_ObjectId /\ UserMessage.id = NULL_ObjectId
      /\ ENull.kind # "created" /\ ENull.kind # "deleted"
  BY DEF AboutObject, ENull, UserMessage
<1>2. \A e \in ToolboxEvent : AboutObject(e) /\ e.id \in ObjectId /\ e # ENull /\ e # UserMessage
  BY <1>1 DEF AboutObject, ToolboxEvent
<1>3. \A p \in Poll : p.event \in ToolboxEvent \cup {ENull}
  BY DEF Poll
<1>4. Event = ToolboxEvent
  BY DEF Event, ToolboxEvent
<1>5. QED
  BY <1>1, <1>2, <1>3, <1>4

\* An operation of the client or the Toolbox.
LEMMA TableStep ==
  ASSUME PollInv, TableKept, UNCHANGED place, Amiss({}, {}), initialised => initialised'
  PROVE  PollInv'
<1>1. UNCHANGED <<stack, self_id, client_block, mask, messages>>
  BY DEF place
<1>2. PollTypes'
  BY <1>1, AmissFacts DEF PollInv, PollTypes
<1>3. FramesInv'
  BY <1>1 DEF PollInv, FramesInv
<1>4. RecordsInv'
  <2> SUFFICES ASSUME NEW id \in ObjectId
               PROVE  Sound(id)' /\ HandledOK(id)'
    BY DEF RecordsInv
  <2>1. Sound(id) /\ HandledOK(id)
    BY DEF PollInv, RecordsInv
  <2>2. Sound(id)' /\ (CreatedOK(id) => CreatedOK(id)') /\ (DeletedOK(id) => DeletedOK(id)')
    BY <2>1 DEF TableKept, Keeps
  <2>3. HandledOK(id)'
    BY <1>1, <2>1, <2>2 DEF HandledOK
  <2>4. QED
    BY <2>2, <2>3
<1>5. QED
  BY <1>2, <1>3, <1>4 DEF PollInv, TableKept

\* The polls move without an event: one is added or returns that has none to print.
LEMMA QuietStep ==
  ASSUME PollInv, PollTypes',
         UNCHANGED <<initialised, toolbox, events, objects, missed>>,
         UNCHANGED <<client_block, lost, surplus, self_id>>,
         ~initialised => stack' = <<>>,
         \A i \in DOMAIN stack' : FrameInv(stack'[i]),
         \A i \in DOMAIN stack : \/ stack[i].event = ENull
                                 \/ /\ i \in DOMAIN stack'
                                    /\ stack'[i].event = stack[i].event
                                    /\ stack'[i].disturbed = stack[i].disturbed,
         \A i \in DOMAIN stack' : \/ stack'[i].event = ENull
                                  \/ /\ i \in DOMAIN stack
                                     /\ stack'[i].event = stack[i].event
                                     /\ stack'[i].disturbed = stack[i].disturbed
  PROVE  PollInv'
<1>1. ListTypes' /\ QueueInv' /\ AmissInv'
  BY DEF PollInv, ListTypes, QueueInv, AmissInv
<1>2. \A i \in DOMAIN stack' : Fresh(stack'[i]) =>
        i \in DOMAIN stack /\ stack'[i].event = stack[i].event /\ Fresh(stack[i])
  BY EventFacts DEF Fresh
<1>3. \A i \in DOMAIN stack : AboutObject(stack[i].event) => stack[i].event # ENull
  BY EventFacts
<1>4. FramesInv'
  <2>1. ASSUME NEW i \in DOMAIN stack', Fresh(stack'[i])
        PROVE  /\ self_id' = stack'[i].event.id
               /\ \A j \in DOMAIN stack' : i < j => stack'[j].event = ENull
    <3>1. i \in DOMAIN stack /\ stack'[i].event = stack[i].event /\ Fresh(stack[i])
      BY <1>2, <2>1
    <3>2. /\ self_id = stack[i].event.id
          /\ \A j \in DOMAIN stack : i < j => stack[j].event = ENull
      BY <3>1 DEF PollInv, FramesInv
    <3>3. QED
      BY <3>1, <3>2
  <2>2. QED
    BY <2>1 DEF FramesInv
<1>5. ASSUME NEW id \in ObjectId, NEW k \in {"created", "deleted"}
      PROVE  id \in Handling(k)' <=> id \in Handling(k)
  <2>1. ENull.kind # k
    BY EventFacts
  <2>2. (\E i \in DOMAIN stack' : stack'[i].event.kind = k /\ stack'[i].event.id = id)
          <=> (\E i \in DOMAIN stack : stack[i].event.kind = k /\ stack[i].event.id = id)
    BY <2>1
  <2>3. QED
    BY <2>2, HandlingFacts
<1>6. ASSUME NEW id \in ObjectId, Sound(id), HandledOK(id)
      PROVE  Sound(id)' /\ HandledOK(id)'
  <2>1. Sound(id)'
    BY <1>5, <1>6 DEF Sound
  <2>2. CreatedOK(id)' <=> CreatedOK(id)
    BY <1>5 DEF CreatedOK
  <2>3. DeletedOK(id)' <=> DeletedOK(id)
    BY DEF DeletedOK
  <2>4. ASSUME NEW i \in DOMAIN stack', Fresh(stack'[i]), stack'[i].event.id = id
        PROVE  /\ stack'[i].event.kind = "created" => CreatedOK(id)
               /\ /\ stack'[i].event.kind = "deleted"
                  /\ \A j \in DOMAIN stack' : j < i => stack'[j].event # stack'[i].event
                  => DeletedOK(id)
    <3>1. /\ i \in DOMAIN stack /\ stack'[i].event = stack[i].event /\ Fresh(stack[i])
          /\ stack[i].event # ENull
      BY <1>2, <1>3, <2>4 DEF Fresh
    <3>2. ASSUME \A j \in DOMAIN stack' : j < i => stack'[j].event # stack'[i].event
          PROVE  \A j \in DOMAIN stack : j < i => stack[j].event # stack[i].event
      BY <3>1, <3>2
    <3>3. QED
      BY <1>6, <2>4, <3>1, <3>2 DEF HandledOK
  <2>5. HandledOK(id)'
    BY <2>2, <2>3, <2>4 DEF HandledOK
  <2>6. QED
    BY <2>1, <2>5
<1>7. RecordsInv'
  BY <1>6 DEF PollInv, RecordsInv
<1>8. QED
  BY <1>1, <1>4, <1>7 DEF PollInv

\* What a step does to the records of an object, and what it counts as missed, lost
\* or surplus for that.
Accounted(id) ==
  /\ id \in Ids(toolbox') /\ id \notin Ids(objects') =>
       (id \in Ids(objects) \cup missed \cup lost => id \in missed' \cup lost')
  /\ id \in Ids(objects') =>
       /\ id \in Ids(objects) \cup surplus'
       /\ id \in surplus => id \in surplus'
  /\ id \notin surplus' => /\ Once(objects, id) => Once(objects', id)
                           /\ Twice(objects, id) => Twice(objects', id)

\* Polls return, or never will, and what their events leave of an object is counted.
LEMMA OthersKept ==
  ASSUME PollTypes, UNCHANGED <<toolbox, events>>,
         NEW k \in 0..Len(stack), DOMAIN stack' = 1..k,
         \A i \in 1..k : stack'[i] = stack[i],
         NEW id \in ObjectId, Sound(id), HandledOK(id), Accounted(id),
         \A i \in (k + 1)..Len(stack) : stack[i].event.id = id =>
           /\ stack[i].event.kind = "created" =>
                (id \in Ids(toolbox') /\ id \notin Ids(objects') => id \in lost')
           /\ stack[i].event.kind = "deleted" =>
                (id \in Ids(objects') => id \in surplus')
  PROVE  Sound(id)' /\ HandledOK(id)'
<1>1. /\ DOMAIN stack = 1..Len(stack) /\ Len(stack) \in Nat
      /\ \A i \in 1..k : i \in DOMAIN stack
      /\ \A i \in DOMAIN stack : i \in 1..k \/ i \in (k + 1)..Len(stack)
  BY StackFacts
<1>2. \A kind : id \in Handling(kind)' => id \in Handling(kind)
  BY <1>1, HandlingFacts
<1>3. ASSUME id \in Handling("created"), id \in Ids(toolbox'), id \notin Ids(objects')
      PROVE  id \in Handling("created")' \cup lost'
  BY <1>1, <1>3, HandlingFacts
<1>4. ASSUME id \in Handling("deleted"), id \in Ids(objects')
      PROVE  id \in Handling("deleted")' \cup surplus'
  BY <1>1, <1>4, HandlingFacts
<1>5. Sound(id)'
  <2>1. id \in Ids(toolbox') /\ id \notin Ids(objects')
          => id \in Told(events', "created") \cup Handling("created")' \cup missed' \cup lost'
    BY <1>3 DEF Sound, Accounted
  <2>2. id \in Ids(objects') /\ id \notin Ids(toolbox')
          => id \in Told(events', "deleted") \cup Handling("deleted")' \cup surplus'
    BY <1>4 DEF Sound, Accounted
  <2>3. id \notin Handling("deleted")' \cup surplus' => Once(objects', id)
    BY <1>4, NoCopies DEF Sound, Accounted
  <2>4. id \in Told(events', "created") /\ id \in Ids(objects')
          => id \in Handling("deleted")' \cup surplus'
    BY <1>4 DEF Sound, Accounted
  <2>5. QED
    BY <2>1, <2>2, <2>3, <2>4 DEF Sound
<1>6. CreatedOK(id) => CreatedOK(id)'
  BY <1>4 DEF CreatedOK, Accounted
<1>7. DeletedOK(id) => DeletedOK(id)'
  BY NoCopies DEF DeletedOK, Accounted
<1>8. \A i \in 1..k : \A j \in DOMAIN stack : j < i => j \in 1..k
  BY <1>1
<1>9. HandledOK(id)'
  BY <1>1, <1>6, <1>7, <1>8 DEF HandledOK
<1>10. QED
  BY <1>5, <1>9

LEMMA PrefixFrames ==
  ASSUME PollTypes, FramesInv, UNCHANGED <<initialised, self_id>>,
         NEW k \in 0..Len(stack), DOMAIN stack' = 1..k, stack' \in Seq(Poll),
         \A i \in 1..k : stack'[i] = stack[i]
  PROVE  FramesInv'
<1>1. \A i \in 1..k : i \in DOMAIN stack
  BY StackFacts
<1>2. ~initialised => stack' = <<>>
  <2> SUFFICES ASSUME ~initialised
               PROVE  stack' = <<>>
    OBVIOUS
  <2>1. k = 0
    BY DEF FramesInv
  <2>2. Len(stack') = 0
    BY <2>1, LenProperties
  <2>3. QED
    BY <2>2, EmptySeq
<1>3. QED
  BY <1>1, <1>2 DEF FramesInv

-----------------------------------------------------------------------------
(* An event is taken. *)

\* The polls further out keep all but the ID block.
LEMMA OuterFacts ==
  ASSUME PollTypes, stack # <<>>
  PROVE  /\ Len(stack) \in Nat /\ Len(stack) >= 1 /\ Top \in Poll
         /\ Len(stack) \in DOMAIN stack
         /\ Outer \in Seq(Poll) /\ Len(Outer) = Len(stack) - 1
         /\ \A i \in 1..(Len(stack) - 1) :
              /\ i \in DOMAIN stack
              /\ Outer[i] \in Poll /\ Outer[i].event = stack[i].event
              /\ ~Fresh(Outer[i])
              /\ FrameInv(stack[i]) => FrameInv(Outer[i])
<1> DEFINE n == Len(stack)
<1>1. n \in Nat /\ n >= 1 /\ DOMAIN stack = 1..n /\ \A i \in DOMAIN stack : stack[i] \in Poll
  BY StackFacts, EmptySeq DEF PollTypes
<1>2. Top \in Poll /\ n \in DOMAIN stack
  BY <1>1 DEF Top
<1>3. ASSUME NEW p \in Poll
      PROVE  LET q == [p EXCEPT !.disturbed = @ \/ AboutObject(p.event)] IN
             /\ q \in Poll /\ q.event = p.event
             /\ q.op = p.op /\ q.at = p.at /\ q.count = p.count /\ q.taken = p.taken
             /\ AboutObject(p.event) => q.disturbed
  <2> DEFINE d == p.disturbed \/ AboutObject(p.event)
             q == [p EXCEPT !.disturbed = d]
  <2>1. d \in BOOLEAN /\ (AboutObject(p.event) => d)
    BY DEF Poll
  <2> HIDE DEF d
  <2>2. /\ q \in Poll /\ q.event = p.event
        /\ q.op = p.op /\ q.at = p.at /\ q.count = p.count /\ q.taken = p.taken
        /\ q.disturbed = d
    BY <2>1 DEF Poll
  <2>3. QED
    BY <2>1, <2>2 DEF d
<1>4. ASSUME NEW i \in 1..(n - 1)
      PROVE  /\ i \in DOMAIN stack
             /\ Outer[i] \in Poll /\ Outer[i].event = stack[i].event
             /\ ~Fresh(Outer[i])
             /\ FrameInv(stack[i]) => FrameInv(Outer[i])
  <2>1. i \in DOMAIN stack /\ stack[i] \in Poll
    BY <1>1
  <2>2. Outer[i] = [stack[i] EXCEPT !.disturbed = @ \/ AboutObject(stack[i].event)]
    BY DEF Outer
  <2> DEFINE p == stack[i]
             q == Outer[i]
  <2>3. /\ q \in Poll /\ q.event = p.event
        /\ q.op = p.op /\ q.at = p.at /\ q.count = p.count /\ q.taken = p.taken
        /\ AboutObject(p.event) => q.disturbed
    BY <1>3, <2>1, <2>2
  <2> HIDE DEF p, q
  <2>4. ~Fresh(q) /\ (FrameInv(p) => FrameInv(q))
    BY <2>3 DEF Fresh, FrameInv
  <2>5. QED
    BY <2>1, <2>3, <2>4 DEF p, q
<1>5. Outer \in Seq(Poll) /\ Len(Outer) = n - 1
  <2>1. n - 1 \in Nat
    BY <1>1
  <2>2. Outer = [i \in 1..(n - 1) |-> Outer[i]]
    BY DEF Outer
  <2>3. [i \in 1..(n - 1) |-> Outer[i]] \in Seq(Poll)
    BY <1>4, <2>1, IsASeq
  <2>4. Outer \in Seq(Poll)
    BY <2>2, <2>3
  <2>5. DOMAIN Outer = 1..(n - 1)
    BY DEF Outer
  <2>6. QED
    BY <2>1, <2>4, <2>5, LenProperties
<1>6. QED
  BY <1>1, <1>2, <1>4, <1>5

\* The innermost poll runs the handlers of the event: a plain one will print it, a
\* wait for idle has printed it.
LEMMA RunsFacts ==
  ASSUME PollTypes, FramesInv, stack # <<>>, Top.at = "poll",
         NEW event \in ToolboxEvent \cup {ENull, UserMessage}, Runs(event)
  PROVE  LET n == Len(stack)
             last == IF Top.op = "event_poll" /\ AboutObject(event) THEN event ELSE ENull
         IN /\ stack' \in Seq(Poll) /\ Len(stack') = n /\ DOMAIN stack' = 1..n
            /\ n \in Nat /\ n >= 1 /\ DOMAIN stack = 1..n /\ stack[n].event = ENull
            /\ stack'[n].event = last
            /\ \A i \in 1..n : FrameInv(stack'[i])
            /\ \A i \in 1..n : i # n =>
                 stack'[i].event = stack[i].event /\ ~Fresh(stack'[i])
<1> DEFINE n == Len(stack)
           plain == Top.op = "event_poll"
           last == IF plain /\ AboutObject(event) THEN event ELSE Top.event
           more == IF plain \/ Top.taken > IdleCount THEN Top.taken ELSE Top.taken + 1
           q == [Top EXCEPT !.at = "handlers", !.event = last, !.taken = more]
<1>1. /\ n \in Nat /\ n >= 1 /\ Top \in Poll /\ n \in DOMAIN stack /\ DOMAIN stack = 1..n
      /\ Outer \in Seq(Poll) /\ Len(Outer) = n - 1
      /\ \A i \in 1..(n - 1) :
           /\ i \in DOMAIN stack
           /\ Outer[i] \in Poll /\ Outer[i].event = stack[i].event /\ ~Fresh(Outer[i])
           /\ FrameInv(stack[i]) => FrameInv(Outer[i])
  BY OuterFacts, StackFacts
<1>2. stack' = Append(Outer, q)
  BY DEF Runs
<1>3. FrameInv(Top) /\ Top.event = ENull /\ stack[n].event = ENull /\ Top.at = "poll"
  BY <1>1 DEF FramesInv, FrameInv, Top
<1>4. event \in ToolboxEvent \/ ~AboutObject(event)
  BY EventFacts
<1>5. IdleCount \in Nat
  BY CountAssumption
<1>6. more \in 0..(IdleCount + 1) /\ last \in ToolboxEvent \cup {ENull}
  BY <1>1, <1>3, <1>4, <1>5 DEF Poll
<1>7. /\ q \in Poll /\ q.at = "handlers" /\ q.event = last /\ q.taken = more
      /\ q.op = Top.op /\ q.count = Top.count
  <2> HIDE DEF more, last
  <2> QED
    BY <1>1, <1>6 DEF Poll
<1>8. FrameInv(q)
  <2>1. CASE plain
    BY <1>7, <2>1 DEF FrameInv
  <2>2. CASE ~plain
    <3>op. Top.op = "wait_for_idle"
      BY <1>1, <2>2 DEF Poll
    <3>1. Top.op = "wait_for_idle" /\ Top.taken + Top.count = IdleCount + 0
      BY <1>3, <3>op DEF FrameInv
    <3>2. Top.taken \in Nat /\ Top.count \in Nat
      BY <1>1 DEF Poll
    <3>3. more = Top.taken + 1 /\ last = ENull
      BY <1>3, <1>5, <2>2, <3>1, <3>2
    <3>4. QED
      BY <1>5, <1>7, <3>1, <3>2, <3>3 DEF FrameInv
  <2>3. QED
    BY <2>1, <2>2
<1> HIDE DEF q, last
<1>9. /\ stack' \in Seq(Poll) /\ Len(stack') = n /\ DOMAIN stack' = 1..n
      /\ stack'[n] = q
      /\ \A i \in 1..(n - 1) : stack'[i] = Outer[i]
  <2> DEFINE o == Outer
  <2>o. o \in Seq(Poll) /\ q \in Poll /\ stack' = Append(o, q)
    BY <1>1, <1>2, <1>7
  <2> HIDE DEF o
  <2>append. /\ stack' \in Seq(Poll) /\ Len(stack') = Len(o) + 1
             /\ stack'[Len(o) + 1] = q
             /\ \A i \in 1..Len(o) : stack'[i] = o[i]
    BY <2>o, AppendProperties
  <2>1. /\ stack' \in Seq(Poll) /\ Len(stack') = Len(Outer) + 1
        /\ stack'[Len(Outer) + 1] = q
        /\ \A i \in 1..Len(Outer) : stack'[i] = Outer[i]
    BY <2>append DEF o
  <2>2. Len(Outer) + 1 = n
    BY <1>1
  <2>3. QED
    BY <1>1, <2>1, <2>2, LenProperties
<1>10. \A i \in 1..n : i # n => i \in 1..(n - 1)
  <2>1. n \in Nat
    BY <1>1
  <2> HIDE DEF n
  <2>2. QED
    BY <2>1
<1>11. \A i \in 1..(n - 1) : FrameInv(stack'[i])
  BY <1>1, <1>9 DEF FramesInv
<1>12. QED
  BY <1>1, <1>3, <1>7, <1>8, <1>9, <1>10, <1>11 DEF last

\* What a poll may take.
LEMMA TakesFacts ==
  ASSUME PollInv, NEW masked, NEW event \in Available(masked), Takes(event)
  PROVE  /\ event \in ToolboxEvent \cup {ENull, UserMessage}
         /\ self_id' = event.id /\ self_id' \in ObjectId \cup {NULL_ObjectId}
         /\ messages' \in 0..MaxMessages
         /\ events' \in Seq(Event) /\ Len(events') <= MaxEvents /\ Ordered(events')
         /\ ~AboutObject(event) => UNCHANGED events
         /\ AboutObject(event) =>
              /\ event \in ToolboxEvent /\ events # <<>>
              /\ event.id \in Told(events, event.kind)
              /\ Told(events', event.kind) = Told(events, event.kind) \ {event.id}
              /\ \A k : k # event.kind => Told(events', k) = Told(events, k)
              /\ event.kind = "deleted" => event.id \notin Told(events, "created")
<1>1. /\ events \in Seq(Event) /\ Ordered(events) /\ Len(events) \in Nat
      /\ Len(events) <= MaxEvents /\ MaxEvents \in Nat
      /\ messages \in 0..MaxMessages /\ MaxMessages \in Nat
  BY LenProperties, SizesAssumption, NestAssumption
  DEF PollInv, ListTypes, QueueInv, PollTypes
<1>2. \/ events # <<>> /\ event = Head(events)
      \/ event = UserMessage /\ messages > 0
      \/ event = ENull
  BY DEF Available
<1>3. /\ events' = IF AboutObject(event) THEN Tail(events) ELSE events
      /\ messages' = IF event = UserMessage THEN messages - 1 ELSE messages
      /\ self_id' = event.id
  BY DEF Takes
<1>4. CASE events # <<>> /\ event = Head(events)
  <2>1. /\ event \in Event
        /\ Tail(events) \in Seq(Event) /\ Ordered(Tail(events))
        /\ event.id \in Told(events, event.kind)
        /\ Told(Tail(events), event.kind) = Told(events, event.kind) \ {event.id}
        /\ \A k : k # event.kind => Told(Tail(events), k) = Told(events, k)
        /\ event.kind = "deleted" => event.id \notin Told(events, "created")
    BY <1>1, <1>4, DeliveredFacts
  <2>2. /\ event \in ToolboxEvent /\ AboutObject(event) /\ event.id \in ObjectId
        /\ event # UserMessage
    BY <2>1, EventFacts
  <2>3. events' = Tail(events) /\ messages' = messages
    BY <1>3, <2>2
  <2>4. Len(Tail(events)) <= MaxEvents
    BY <1>1, <1>4, HeadTailProperties
  <2>5. QED
    BY <1>1, <1>3, <1>4, <2>1, <2>2, <2>3, <2>4
<1>5. CASE event = UserMessage /\ messages > 0
  BY <1>1, <1>3, <1>5, EventFacts
<1>6. CASE event = ENull
  BY <1>1, <1>3, <1>6, EventFacts
<1>7. QED
  BY <1>2, <1>4, <1>5, <1>6

\* A plain poll: what was told of by the queue is now told of by the handlers.
LEMMA EventPollStep ==
  ASSUME PollInv, event_poll
  PROVE  PollInv'
<1> DEFINE n == Len(stack)
<1>1. PICK event \in Available(mask) : Takes(event) /\ Runs(event)
  BY DEF event_poll
<1>2. /\ UNCHANGED <<initialised, toolbox, objects, missed, client_block, mask>>
      /\ UNCHANGED <<lost, surplus>>
      /\ stack # <<>> /\ Top.op = "event_poll" /\ Top.at = "poll"
  BY DEF event_poll, PollsWith, records, amiss
<1>3. /\ event \in ToolboxEvent \cup {ENull, UserMessage}
      /\ self_id' = event.id /\ self_id' \in ObjectId \cup {NULL_ObjectId}
      /\ messages' \in 0..MaxMessages
      /\ events' \in Seq(Event) /\ Len(events') <= MaxEvents /\ Ordered(events')
      /\ ~AboutObject(event) => UNCHANGED events
      /\ AboutObject(event) =>
           /\ event \in ToolboxEvent /\ events # <<>>
           /\ event.id \in Told(events, event.kind)
           /\ Told(events', event.kind) = Told(events, event.kind) \ {event.id}
           /\ \A k : k # event.kind => Told(events', k) = Told(events, k)
           /\ event.kind = "deleted" => event.id \notin Told(events, "created")
  BY <1>1, TakesFacts
<1>4. /\ stack' \in Seq(Poll) /\ Len(stack') = n /\ DOMAIN stack' = 1..n
      /\ n \in Nat /\ n >= 1 /\ DOMAIN stack = 1..n /\ stack[n].event = ENull
      /\ stack'[n].event = IF AboutObject(event) THEN event ELSE ENull
      /\ \A i \in 1..n : FrameInv(stack'[i])
      /\ \A i \in 1..n : i # n => stack'[i].event = stack[i].event /\ ~Fresh(stack'[i])
  BY <1>1, <1>2, <1>3, RunsFacts DEF PollInv
<1> HIDE DEF n
<1>5. PollTypes'
  BY <1>2, <1>3, <1>4 DEF PollInv, PollTypes, n
<1>6. /\ initialised
      /\ Told(events', "created") \subseteq Told(events, "created")
      /\ Told(events', "deleted") \subseteq Told(events, "deleted")
  BY <1>2, <1>3 DEF PollInv, FramesInv
<1>7. ListTypes' /\ QueueInv'
  <2>1. CASE ~AboutObject(event)
    BY <1>2, <1>3, <2>1 DEF PollInv, ListTypes, QueueInv
  <2>2. CASE AboutObject(event)
    <3>1. event.kind \in {"created", "deleted"}
      BY <2>2 DEF AboutObject
    <3>2. CASE event.kind = "created"
      BY <1>2, <1>3, <1>6, <2>2, <3>2 DEF PollInv, ListTypes, QueueInv
    <3>3. CASE event.kind = "deleted"
      BY <1>2, <1>3, <1>6, <2>2, <3>3 DEF PollInv, ListTypes, QueueInv
    <3>4. QED
      BY <3>1, <3>2, <3>3
  <2>3. QED
    BY <2>1, <2>2
<1>8. \A i \in DOMAIN stack' : Fresh(stack'[i]) =>
        i = n /\ AboutObject(event) /\ stack'[i].event = event
  BY <1>4, EventFacts DEF Fresh
<1>9. FramesInv'
  <2>1. \A j \in DOMAIN stack' : ~(n < j)
    BY <1>4
  <2>2. QED
    BY <1>2, <1>3, <1>4, <1>6, <1>8, <2>1 DEF FramesInv
<1>10. ASSUME NEW id \in ObjectId, NEW k \in {"created", "deleted"}
       PROVE  id \in Handling(k)' <=>
                \/ id \in Handling(k)
                \/ AboutObject(event) /\ event.kind = k /\ event.id = id
  <2>1. ENull.kind # k /\ n \in DOMAIN stack /\ n \in DOMAIN stack'
    BY <1>4, EventFacts
  <2>2. (\E i \in DOMAIN stack' : stack'[i].event.kind = k /\ stack'[i].event.id = id)
          <=> \/ \E i \in DOMAIN stack : stack[i].event.kind = k /\ stack[i].event.id = id
              \/ AboutObject(event) /\ event.kind = k /\ event.id = id
    BY <1>4, <2>1
  <2>3. QED
    BY <2>2, HandlingFacts
<1>11. ASSUME NEW id \in ObjectId, Sound(id), HandledOK(id)
       PROVE  Sound(id)' /\ HandledOK(id)'
  <2>1. CASE ~AboutObject(event)
    <3>1. Sound(id)'
      BY <1>2, <1>3, <1>10, <1>11, <2>1 DEF Sound
    <3>2. HandledOK(id)'
      BY <1>8, <2>1 DEF HandledOK
    <3>3. QED
      BY <3>1, <3>2
  <2>2. CASE AboutObject(event)
    <3>1. event.kind \in {"created", "deleted"} /\ event \in ToolboxEvent
      BY <1>3, <2>2 DEF AboutObject
    <3>2. Sound(id)'
      <4>1. CASE event.kind = "created"
        BY <1>2, <1>3, <1>10, <1>11, <2>2, <4>1 DEF Sound
      <4>2. CASE event.kind = "deleted"
        BY <1>2, <1>3, <1>10, <1>11, <2>2, <4>2 DEF Sound
      <4>3. QED
        BY <3>1, <4>1, <4>2
    <3>3. ASSUME event.id = id, event.kind = "created"
          PROVE  CreatedOK(id)'
      BY <1>2, <1>3, <1>10, <1>11, <2>2, <3>3 DEF CreatedOK, Sound, PollInv, QueueInv
    <3>4. ASSUME event.id = id, event.kind = "deleted",
                 \A j \in DOMAIN stack' : j < n => stack'[j].event # event
          PROVE  DeletedOK(id)'
      <4>1. id \notin Handling("deleted")
        <5> SUFFICES ASSUME id \in Handling("deleted") PROVE FALSE
          OBVIOUS
        <5>1. PICK i \in DOMAIN stack : stack[i].event.kind = "deleted" /\ stack[i].event.id = id
          BY HandlingFacts
        <5>2. stack[i].event \in ToolboxEvent
          BY <5>1, StackFacts, EventFacts DEF PollInv, AboutObject
        <5>3. stack[i].event = event
          BY <3>1, <3>4, <5>1, <5>2 DEF ToolboxEvent
        <5>4. i # n
          BY <1>4, <5>1, EventFacts
        <5>5. i < n /\ i \in DOMAIN stack' /\ stack'[i].event = event
          BY <1>4, <5>3, <5>4
        <5>6. QED
          BY <3>4, <5>5
      <4>2. id \notin surplus => Once(objects, id)
        BY <1>11, <4>1 DEF Sound
      <4>3. QED
        BY <1>2, <4>2, OnceTwice DEF DeletedOK
    <3>5. HandledOK(id)'
      BY <1>8, <3>3, <3>4 DEF HandledOK
    <3>6. QED
      BY <3>2, <3>5
  <2>3. QED
    BY <2>1, <2>2
<1>12. RecordsInv'
  BY <1>11 DEF PollInv, RecordsInv
<1>13. AmissInv'
  BY <1>2 DEF PollInv, AmissInv
<1>14. QED
  BY <1>5, <1>7, <1>9, <1>12, <1>13 DEF PollInv

\* What printing an event does to the records of its own object and of the others.
LEMMA PrintFacts ==
  ASSUME ListTypes, NEW event, NEW id \in ObjectId \cup {NULL_ObjectId},
         print_event(event, id)
  PROVE  /\ objects' \in Seq(PollRecord)
         /\ ~AboutObject(event) \/ ~client_block => UNCHANGED <<objects, missed>>
         /\ client_block /\ event.kind = "created" =>
              \/ UNCHANGED objects /\ missed' = missed \cup Unrecorded(id)
              \/ /\ missed' = missed \ {id}
                 /\ Ids(objects') = Ids(objects) \cup {id}
                 /\ id \notin Ids(objects) => Once(objects', id)
         /\ client_block /\ event.kind = "deleted" =>
              /\ UNCHANGED missed
              /\ Ids(objects') \subseteq Ids(objects)
              /\ \A x : /\ Once(objects, x) => Once(objects', x)
                        /\ Twice(objects, x) => Twice(objects', x)
              /\ Once(objects, id) => id \notin Ids(objects')
              /\ Twice(objects, id) => Once(objects', id)
         /\ \A x : x # id =>
              /\ x \in missed' <=> x \in missed
              /\ x \in Ids(objects') <=> x \in Ids(objects)
              /\ Once(objects, x) => Once(objects', x)
              /\ Twice(objects, x) => Twice(objects', x)
<1>1. CASE /\ client_block /\ event.kind = "created"
           /\ pseudo_toolbox_object_created(id)
  <2>1. CASE NewRecord(id) /\ missed' = missed \ {id}
    BY <1>1, <2>1, PollNewRecord DEF AboutObject
  <2>2. CASE UNCHANGED objects /\ missed' = missed \cup Unrecorded(id)
    BY <1>1, <2>2 DEF AboutObject, ListTypes, Unrecorded
  <2>3. QED
    BY <1>1, <2>1, <2>2 DEF pseudo_toolbox_object_created
<1>2. CASE /\ client_block /\ event.kind = "deleted"
           /\ Forget(id) /\ UNCHANGED missed
  <2>1. /\ objects' \in Seq(PollRecord)
        /\ Ids(objects') \subseteq Ids(objects) /\ Ids(objects) \ {id} \subseteq Ids(objects')
        /\ \A x : /\ Once(objects, x) => Once(objects', x)
                  /\ Twice(objects, x) => Twice(objects', x)
        /\ Once(objects, id) => id \notin Ids(objects')
        /\ Twice(objects, id) => Once(objects', id)
    BY <1>2, PollForget
  <2>2. QED
    BY <1>2, <2>1 DEF AboutObject
<1>3. CASE (~client_block \/ ~AboutObject(event)) /\ UNCHANGED <<objects, missed>>
  BY <1>3 DEF AboutObject, ListTypes
<1>4. QED
  BY <1>1, <1>2, <1>3 DEF print_event, pseudo_toolbox_object_deleted

LEMMA PopFacts ==
  ASSUME PollTypes, stack # <<>>, Pop
  PROVE  LET n == Len(stack) IN
         /\ n \in Nat /\ n >= 1 /\ DOMAIN stack = 1..n /\ n - 1 \in 0..n
         /\ stack' \in Seq(Poll) /\ Len(stack') = n - 1 /\ DOMAIN stack' = 1..(n - 1)
         /\ \A i \in 1..(n - 1) : i \in DOMAIN stack /\ stack'[i] = stack[i]
         /\ \A i \in DOMAIN stack : i = n \/ i \in 1..(n - 1)
         /\ Len(stack') <= MaxNest
<1> DEFINE n == Len(stack)
<1>1. n \in Nat /\ n >= 1 /\ DOMAIN stack = 1..n /\ stack \in Seq(Poll) /\ n <= MaxNest
  BY StackFacts, EmptySeq DEF PollTypes
<1>2. n - 1 \in 0..n /\ stack' = SubSeq(stack, 1, n - 1)
  BY <1>1 DEF Pop, Front
<1>3. MaxNest \in Nat
  BY NestAssumption
<1>4. /\ stack' \in Seq(Poll) /\ Len(stack') = n - 1 /\ DOMAIN stack' = 1..(n - 1)
      /\ \A i \in 1..(n - 1) : i \in DOMAIN stack /\ stack'[i] = stack[i]
  BY <1>1, <1>2, PrefixFacts
<1> HIDE DEF n
<1>5. (\A i \in 1..n : i = n \/ i \in 1..(n - 1)) /\ n - 1 <= MaxNest
  BY <1>1, <1>3
<1>6. QED
  BY <1>1, <1>2, <1>4, <1>5 DEF n

\* A poll returns that has no event to print.
LEMMA QuietReturn ==
  ASSUME PollInv, stack # <<>>, Top.event = ENull, Pop,
         UNCHANGED <<initialised, toolbox, events, objects, missed>>,
         UNCHANGED <<client_block, lost, surplus, self_id, mask, messages>>
  PROVE  PollInv'
<1> DEFINE n == Len(stack)
<1>1. /\ n \in Nat /\ n >= 1 /\ DOMAIN stack = 1..n
      /\ stack' \in Seq(Poll) /\ DOMAIN stack' = 1..(n - 1)
      /\ \A i \in 1..(n - 1) : i \in DOMAIN stack /\ stack'[i] = stack[i]
      /\ \A i \in DOMAIN stack : i = n \/ i \in 1..(n - 1)
      /\ Len(stack') <= MaxNest
  BY PopFacts DEF PollInv
<1>2. stack[n].event = ENull
  BY DEF Top
<1>3. PollTypes'
  BY <1>1 DEF PollInv, PollTypes
<1>4. initialised
  BY DEF PollInv, FramesInv
<1>5. \A i \in DOMAIN stack' : FrameInv(stack'[i])
  BY <1>1 DEF PollInv, FramesInv
<1> HIDE DEF n
<1>6. \A i \in DOMAIN stack : \/ stack[i].event = ENull
                              \/ /\ i \in DOMAIN stack'
                                 /\ stack'[i].event = stack[i].event
                                 /\ stack'[i].disturbed = stack[i].disturbed
  BY <1>1, <1>2
<1>7. \A i \in DOMAIN stack' : /\ i \in DOMAIN stack
                               /\ stack'[i].event = stack[i].event
                               /\ stack'[i].disturbed = stack[i].disturbed
  BY <1>1
<1>8. QED
  BY <1>3, <1>4, <1>5, <1>6, <1>7, QuietStep

\* No poll is left whose event will still be printed with the ID block it had.
LEMMA NoneFresh ==
  ASSUME PollInv, ListTypes', PollTypes', QueueInv', AmissInv', initialised',
         \A i \in DOMAIN stack' : FrameInv(stack'[i]) /\ ~Fresh(stack'[i]),
         \A id \in ObjectId : Sound(id) => Sound(id)'
  PROVE  PollInv'
<1>1. FramesInv'
  BY DEF FramesInv
<1>2. RecordsInv'
  <2>1. \A id \in ObjectId : HandledOK(id)'
    BY DEF HandledOK
  <2>2. QED
    BY <2>1 DEF PollInv, RecordsInv
<1>3. QED
  BY <1>1, <1>2 DEF PollInv

\* A wait for idle prints an event as soon as it has taken it.
LEMMA IdleRuns ==
  ASSUME PollInv, PollsWith("wait_for_idle"), NEW event \in Available(mask \ {"null"}),
         event # ENull, Takes(event), print_event(event, event.id), Runs(event),
         IF client_block THEN Amiss({}, {}) ELSE Unheard(event),
         UNCHANGED <<initialised, toolbox, client_block, mask>>
  PROVE  PollInv'
<1> DEFINE n == Len(stack)
<1>1. stack # <<>> /\ Top.op = "wait_for_idle" /\ Top.at = "poll" /\ initialised
  BY DEF PollsWith, PollInv, FramesInv
<1>2. /\ event \in ToolboxEvent \cup {ENull, UserMessage}
      /\ self_id' = event.id /\ self_id' \in ObjectId \cup {NULL_ObjectId}
      /\ messages' \in 0..MaxMessages
      /\ events' \in Seq(Event) /\ Len(events') <= MaxEvents /\ Ordered(events')
      /\ ~AboutObject(event) => UNCHANGED events
      /\ AboutObject(event) =>
           /\ event \in ToolboxEvent /\ events # <<>>
           /\ event.id \in Told(events, event.kind)
           /\ Told(events', event.kind) = Told(events, event.kind) \ {event.id}
           /\ \A k : k # event.kind => Told(events', k) = Told(events, k)
           /\ event.kind = "deleted" => event.id \notin Told(events, "created")
  BY TakesFacts
<1>3. /\ stack' \in Seq(Poll) /\ Len(stack') = n /\ DOMAIN stack' = 1..n
      /\ n \in Nat /\ n >= 1 /\ DOMAIN stack = 1..n /\ stack[n].event = ENull
      /\ stack'[n].event = ENull
      /\ \A i \in 1..n : FrameInv(stack'[i])
      /\ \A i \in 1..n : i # n => stack'[i].event = stack[i].event /\ ~Fresh(stack'[i])
  <2>1. Top.op # "event_poll"
    BY <1>1
  <2>2. QED
    BY <1>1, <1>2, <2>1, RunsFacts DEF PollInv
<1>4. /\ objects' \in Seq(PollRecord)
      /\ ~AboutObject(event) \/ ~client_block => UNCHANGED <<objects, missed>>
      /\ client_block /\ event.kind = "created" =>
           \/ UNCHANGED objects /\ missed' = missed \cup Unrecorded(event.id)
           \/ /\ missed' = missed \ {event.id}
              /\ Ids(objects') = Ids(objects) \cup {event.id}
              /\ event.id \notin Ids(objects) => Once(objects', event.id)
      /\ client_block /\ event.kind = "deleted" =>
           /\ UNCHANGED missed
           /\ Ids(objects') \subseteq Ids(objects)
           /\ Once(objects, event.id) => event.id \notin Ids(objects')
      /\ \A x : x # event.id =>
           /\ x \in missed' <=> x \in missed
           /\ x \in Ids(objects') <=> x \in Ids(objects)
           /\ Once(objects, x) => Once(objects', x)
           /\ Twice(objects, x) => Twice(objects', x)
  BY <1>2, PrintFacts DEF PollInv
<1> HIDE DEF n
<1>6. AboutObject(event) => event.kind \in {"created", "deleted"} /\ event.id \in ObjectId
  BY <1>2, EventFacts DEF AboutObject
<1>a. /\ \A x : x \in lost' => x \in lost \/ (AboutObject(event) /\ x = event.id)
      /\ \A x : x \in lost' => x \in Ids(toolbox') /\ x \notin Ids(objects')
      /\ \A x : x \in lost /\ x \in Ids(toolbox') /\ x \notin Ids(objects') => x \in lost'
      /\ \A x : x \in surplus' => x \in surplus \/ (AboutObject(event) /\ x = event.id)
      /\ \A x : x \in surplus' => x \in Ids(objects')
      /\ \A x : x \in surplus /\ x \in Ids(objects') => x \in surplus'
      /\ ~client_block /\ event.kind = "created" /\ event.id \in Ids(toolbox')
           /\ event.id \notin Ids(objects') => event.id \in lost'
      /\ ~client_block /\ event.kind = "deleted" /\ event.id \in Ids(objects')
           => event.id \in surplus'
  <2>1. CASE client_block
    BY <2>1, AmissFacts
  <2>2. CASE ~client_block
    <3>1. Amiss(Uncreated(event), Undeleted(event))
      BY <2>2 DEF Unheard
    <3>2. /\ \A x : x \in lost' <=>
               x \in lost \cup Uncreated(event) /\ x \in Ids(toolbox') /\ x \notin Ids(objects')
          /\ \A x : x \in surplus' <=> x \in surplus \cup Undeleted(event) /\ x \in Ids(objects')
      BY <3>1, AmissFacts
    <3>3. QED
      BY <2>2, <3>2 DEF Uncreated, Undeleted, AboutObject
  <2>3. QED
    BY <2>1, <2>2
<1>5. PollTypes'
  BY <1>2, <1>3, <1>6, <1>a DEF PollInv, PollTypes, n
<1>7. ListTypes' /\ QueueInv'
  <2>1. CASE ~AboutObject(event)
    BY <1>1, <1>2, <1>4, <2>1 DEF PollInv, ListTypes, QueueInv
  <2>2. CASE AboutObject(event) /\ event.kind = "created"
    BY <1>1, <1>2, <1>4, <2>2 DEF PollInv, ListTypes, QueueInv
  <2>3. CASE AboutObject(event) /\ event.kind = "deleted"
    BY <1>1, <1>2, <1>4, <2>3 DEF PollInv, ListTypes, QueueInv
  <2>4. QED
    BY <1>6, <2>1, <2>2, <2>3
<1>8. ASSUME NEW id \in ObjectId, NEW k \in {"created", "deleted"}
      PROVE  id \in Handling(k)' <=> id \in Handling(k)
  <2>1. ENull.kind # k
    BY EventFacts
  <2>2. (\E i \in DOMAIN stack' : stack'[i].event.kind = k /\ stack'[i].event.id = id)
          <=> (\E i \in DOMAIN stack : stack[i].event.kind = k /\ stack[i].event.id = id)
    BY <1>3, <2>1
  <2>3. QED
    BY <2>2, HandlingFacts
<1>9. ASSUME NEW id \in ObjectId, Sound(id)
      PROVE  Sound(id)'
  <2>1. CASE id # event.id
    <3>1. \A k \in {"created", "deleted"} :
            id \in Told(events', k) <=> id \in Told(events, k)
      BY <1>2, <1>6, <2>1
    <3>2. /\ id \in missed' <=> id \in missed
          /\ id \in Ids(objects') <=> id \in Ids(objects)
          /\ Once(objects, id) => Once(objects', id)
      BY <1>4, <2>1
    <3>3. id \in surplus <=> id \in surplus'
      BY <1>a, <2>1, <3>2 DEF PollInv, AmissInv
    <3>4. QED
      BY <1>1, <1>8, <1>9, <1>a, <3>1, <3>2, <3>3 DEF Sound
  <2>2. CASE id = event.id
    <3>1. AboutObject(event)
      BY <1>2, <2>2, EventFacts, NullAssumption
    <3>2. CASE client_block /\ event.kind = "created"
      <4>1. /\ id \notin Told(events', "created")
            /\ Told(events', "deleted") = Told(events, "deleted")
        BY <1>2, <2>2, <3>1, <3>2
      <4>2. CASE UNCHANGED objects /\ missed' = missed \cup Unrecorded(id)
        <5>1. id \in Ids(toolbox') /\ id \notin Ids(objects') => id \in missed'
          BY <1>1, <4>2 DEF Unrecorded
        <5>2. id \in surplus => id \in surplus'
          BY <1>a, <4>2 DEF PollInv, AmissInv
        <5>3. QED
          BY <1>1, <1>8, <1>9, <4>1, <4>2, <5>1, <5>2 DEF Sound
      <4>3. CASE Ids(objects') = Ids(objects) \cup {id}
        <5>1. id \in Ids(objects')
          BY <4>3
        <5>2. id \notin Ids(toolbox) => id \in Told(events, "deleted")
          BY <1>2, <2>2, <3>1, <3>2 DEF PollInv, QueueInv
        <5>3. id \notin Handling("deleted") \cup surplus => id \notin Ids(objects)
          BY <1>2, <1>9, <2>2, <3>1, <3>2 DEF Sound
        <5>4. id \notin Ids(objects) => Once(objects', id)
          BY <1>4, <2>2, <3>2, NoCopies
        <5>5. QED
          BY <1>1, <1>8, <1>a, <4>1, <5>1, <5>2, <5>3, <5>4 DEF Sound
      <4>4. QED
        BY <1>4, <2>2, <3>2, <4>2, <4>3
    <3>3. CASE client_block /\ event.kind = "deleted"
      <4>1. /\ id \notin Ids(toolbox) /\ id \notin Told(events', "created")
        BY <1>2, <2>2, <3>1, <3>3 DEF PollInv, QueueInv
      <4>2. id \notin Handling("deleted") \cup surplus => id \notin Ids(objects')
        BY <1>4, <1>9, <2>2, <3>3 DEF Sound
      <4>3. QED
        BY <1>1, <1>8, <1>a, <4>1, <4>2, NoCopies DEF Sound
    <3>4. CASE ~client_block
      <4>1. UNCHANGED <<objects, missed>>
        BY <1>4, <3>4
      <4>2. CASE event.kind = "created"
        <5>1. /\ id \notin Told(events', "created")
              /\ Told(events', "deleted") = Told(events, "deleted")
          BY <1>2, <2>2, <3>1, <4>2
        <5>2. id \in Ids(toolbox') /\ id \notin Ids(objects') => id \in lost'
          BY <1>a, <2>2, <3>4, <4>2
        <5>3. id \in surplus /\ id \in Ids(objects') => id \in surplus'
          BY <1>a
        <5>4. QED
          BY <1>1, <1>8, <1>9, <4>1, <5>1, <5>2, <5>3, NoCopies DEF Sound
      <4>3. CASE event.kind = "deleted"
        <5>1. /\ id \notin Ids(toolbox) /\ id \notin Told(events', "created")
          BY <1>2, <2>2, <3>1, <4>3 DEF PollInv, QueueInv
        <5>2. id \in Ids(objects') => id \in surplus'
          BY <1>a, <2>2, <3>4, <4>3
        <5>3. QED
          BY <1>1, <5>1, <5>2, NoCopies DEF Sound
      <4>4. QED
        BY <1>6, <3>1, <4>2, <4>3
    <3>5. QED
      BY <1>6, <3>1, <3>2, <3>3, <3>4
  <2>3. QED
    BY <2>1, <2>2
<1>b. AmissInv'
  <2>1. missed' \subseteq Ids(toolbox') /\ \A x \in missed' : x \notin Ids(objects')
    BY <1>1, <1>4, <1>6 DEF PollInv, AmissInv, Unrecorded
  <2>2. NULL_ObjectId \in Ids(objects') => NULL_ObjectId \in surplus'
    BY <1>4, <1>6, <1>a, NullAssumption DEF PollInv, AmissInv
  <2>3. QED
    BY <1>a, <2>1, <2>2 DEF AmissInv
<1>10. \A i \in DOMAIN stack' : FrameInv(stack'[i]) /\ ~Fresh(stack'[i])
  BY <1>3, EventFacts DEF Fresh
<1>11. QED
  BY <1>1, <1>5, <1>7, <1>9, <1>b, <1>10, NoneFresh

LEMMA IdlePollStep ==
  ASSUME PollInv, IdlePoll
  PROVE  PollInv'
<1>1. /\ PollsWith("wait_for_idle")
      /\ UNCHANGED <<initialised, toolbox, client_block, mask>>
      /\ \/ Pop /\ UNCHANGED <<events, messages, self_id, objects, missed, lost, surplus>>
         \/ \E event \in Available(mask \ {"null"}) :
              /\ Takes(event)
              /\ \/ /\ event = ENull /\ stack' = Outer
                    /\ UNCHANGED <<objects, missed, lost, surplus>>
                 \/ /\ event # ENull /\ print_event(event, event.id) /\ Runs(event)
                    /\ IF client_block THEN Amiss({}, {}) ELSE Unheard(event)
  BY DEF IdlePoll, amiss
<1>2. /\ stack # <<>> /\ Top.at = "poll" /\ initialised
      /\ Len(stack) \in DOMAIN stack
  BY <1>1, OuterFacts DEF PollsWith, PollInv, FramesInv
<1>3. Top.event = ENull
  BY <1>2 DEF PollInv, FramesInv, FrameInv, Top
<1>4. CASE Pop /\ UNCHANGED <<events, messages, self_id, objects, missed, lost, surplus>>
  BY <1>1, <1>2, <1>3, <1>4, QuietReturn
<1>5. ASSUME NEW event \in Available(mask \ {"null"}), Takes(event),
             event # ENull, print_event(event, event.id), Runs(event),
             IF client_block THEN Amiss({}, {}) ELSE Unheard(event)
      PROVE  PollInv'
  BY <1>1, <1>5, IdleRuns
<1>6. ASSUME NEW event \in Available(mask \ {"null"}), Takes(event),
             event = ENull, stack' = Outer, UNCHANGED <<objects, missed, lost, surplus>>
      PROVE  PollInv'
  <2> DEFINE n == Len(stack)
  <2>1. /\ self_id' \in ObjectId \cup {NULL_ObjectId} /\ messages' \in 0..MaxMessages
        /\ UNCHANGED events
    BY <1>6, TakesFacts, EventFacts
  <2>2. /\ n \in Nat /\ n >= 1 /\ stack' \in Seq(Poll) /\ Len(stack') = n - 1
        /\ \A i \in 1..(n - 1) :
             /\ i \in DOMAIN stack
             /\ stack'[i].event = stack[i].event
             /\ ~Fresh(stack'[i]) /\ FrameInv(stack'[i])
    BY <1>2, <1>6, OuterFacts DEF PollInv, FramesInv
  <2>3. DOMAIN stack = 1..n /\ DOMAIN stack' = 1..(n - 1) /\ stack[n].event = ENull
    BY <1>3, <2>2, StackFacts, LenProperties DEF PollInv, Top
  <2>4. n <= MaxNest /\ MaxNest \in Nat
    BY NestAssumption DEF PollInv, PollTypes
  <2> HIDE DEF n
  <2>5. Len(stack') <= MaxNest /\ \A i \in 1..n : i = n \/ i \in 1..(n - 1)
    BY <2>2, <2>4
  <2>6. ListTypes' /\ PollTypes' /\ QueueInv' /\ AmissInv'
    BY <1>1, <1>6, <2>1, <2>2, <2>5
    DEF PollInv, ListTypes, PollTypes, QueueInv, AmissInv
  <2>7. ASSUME NEW id \in ObjectId, NEW k \in {"created", "deleted"}
        PROVE  id \in Handling(k)' <=> id \in Handling(k)
    <3>1. ENull.kind # k
      BY EventFacts
    <3>2. (\E i \in DOMAIN stack' : stack'[i].event.kind = k /\ stack'[i].event.id = id)
            <=> (\E i \in DOMAIN stack : stack[i].event.kind = k /\ stack[i].event.id = id)
      BY <2>2, <2>3, <2>5, <3>1
    <3>3. QED
      BY <3>2, HandlingFacts
  <2>8. \A id \in ObjectId : Sound(id) => Sound(id)'
    BY <1>1, <1>6, <2>1, <2>7 DEF Sound
  <2>9. QED
    BY <1>1, <1>2, <2>2, <2>3, <2>6, <2>8, NoneFresh
<1>7. QED
  BY <1>1, <1>4, <1>5, <1>6

\* Of an object whose event is printed with the ID block it had there is one record
\* less or one more, as its event says.
LEMMA PrintedSound ==
  ASSUME PollInv, client_block, stack # <<>>, NEW id \in ObjectId,
         Sound(id), HandledOK(id), Pop, Fresh(Top), Top.event.id = id,
         print_event(Top.event, id), Heard(Top.event),
         UNCHANGED <<toolbox, events>>
  PROVE  Sound(id)'
<1> DEFINE n == Len(stack)
           ev == Top.event
<1>1. /\ n \in Nat /\ n >= 1 /\ DOMAIN stack = 1..n
      /\ DOMAIN stack' = 1..(n - 1)
      /\ \A i \in 1..(n - 1) : i \in DOMAIN stack /\ stack'[i] = stack[i]
      /\ \A i \in DOMAIN stack : i = n \/ i \in 1..(n - 1)
  BY PopFacts DEF PollInv
<1>2. n \in DOMAIN stack /\ stack[n] = Top /\ \A j \in DOMAIN stack : j < n => j \in 1..(n - 1)
  BY <1>1 DEF Top
<1>3. ev = stack[n].event /\ ev.id = id /\ ev.kind \in {"created", "deleted"}
  BY <1>2 DEF Fresh, AboutObject
<1>4. /\ ev.kind = "created" =>
           \/ UNCHANGED objects /\ missed' = missed \cup Unrecorded(id)
           \/ /\ Ids(objects') = Ids(objects) \cup {id}
              /\ id \notin Ids(objects) => Once(objects', id)
      /\ ev.kind = "deleted" =>
           /\ UNCHANGED missed
           /\ Ids(objects') \subseteq Ids(objects)
           /\ Once(objects, id) => id \notin Ids(objects')
           /\ Twice(objects, id) => Once(objects', id)
  BY PrintFacts DEF PollInv
<1>a. /\ HasSuccessor(ev) /\ id \in Ids(toolbox') /\ id \notin Ids(objects') => id \in lost'
      /\ id \in lost /\ id \in Ids(toolbox') /\ id \notin Ids(objects') => id \in lost'
      /\ id \in surplus' <=> id \in surplus /\ id \in Ids(objects')
  BY AmissFacts DEF Heard
<1> HIDE DEF n, ev
<1>5. ASSUME NEW k \in {"created", "deleted"}, k # ev.kind
      PROVE  id \in Handling(k)' <=> id \in Handling(k)
  <2>1. (\E i \in DOMAIN stack' : stack'[i].event.kind = k /\ stack'[i].event.id = id)
          <=> (\E i \in DOMAIN stack : stack[i].event.kind = k /\ stack[i].event.id = id)
    BY <1>1, <1>3, <1>5
  <2>2. QED
    BY <2>1, HandlingFacts
<1>6. CASE ev.kind = "created"
  <2>1. CreatedOK(id)
    BY <1>2, <1>3, <1>6 DEF HandledOK
  <2>2. id \in Handling("deleted")' <=> id \in Handling("deleted")
    BY <1>5, <1>6
  <2>3. CASE UNCHANGED objects /\ missed' = missed \cup Unrecorded(id)
    <3>1. id \in Ids(toolbox') /\ id \notin Ids(objects') => id \in missed'
      BY <2>3 DEF Unrecorded
    <3>2. QED
      BY <1>a, <2>1, <2>2, <2>3, <3>1, NoCopies DEF CreatedOK, Sound
  <2>4. CASE /\ Ids(objects') = Ids(objects) \cup {id}
             /\ id \notin Ids(objects) => Once(objects', id)
    BY <1>a, <2>1, <2>2, <2>4 DEF CreatedOK, Sound
  <2>5. QED
    BY <1>4, <1>6, <2>3, <2>4
<1>7. CASE ev.kind = "deleted"
  <2>1. id \in Ids(toolbox) => id \in Told(events, "created") \/ HasSuccessor(ev)
    BY <1>3, <1>7, PendingTold DEF HasSuccessor
  <2>2. CASE \E j \in 1..(n - 1) : stack[j].event = ev
    <3>1. id \in Handling("deleted")'
      BY <1>1, <1>3, <1>7, <2>2, HandlingFacts
    <3>2. QED
      BY <1>a, <2>1, <3>1 DEF Sound
  <2>3. CASE ~(\E j \in 1..(n - 1) : stack[j].event = ev)
    <3>1. DeletedOK(id)
      BY <1>2, <1>3, <1>7, <2>3 DEF HandledOK
    <3>2. id \notin Ids(objects') => Once(objects', id)
      BY NoCopies
    <3>3. QED
      BY <1>4, <1>7, <1>a, <2>1, <3>1, <3>2 DEF DeletedOK, Sound
  <2>4. QED
    BY <2>2, <2>3
<1>8. QED
  BY <1>3, <1>6, <1>7

\* A plain poll returns.  Its event is lost, or printed with the ID block it had
\* there or with another one.
LEMMA ReturnCases ==
  ASSUME PollInv, EventPollReturns
  PROVE  LET ev == Top.event IN
         /\ stack # <<>> /\ Pop
         /\ UNCHANGED <<initialised, toolbox, events, self_id, client_block, mask, messages>>
         /\ \/ Unheard(ev) /\ UNCHANGED <<objects, missed>>
            \/ /\ client_block /\ print_event(ev, self_id)
               /\ ~Top.disturbed /\ Heard(ev)
            \/ /\ client_block /\ print_event(ev, self_id)
               /\ Top.disturbed /\ Misheard(ev, self_id)
<1>1. /\ stack # <<>> /\ Pop
      /\ UNCHANGED <<initialised, toolbox, events, self_id, client_block, mask, messages>>
      /\ \/ Unheard(Top.event) /\ UNCHANGED <<objects, missed>>
         \/ /\ print_event(Top.event, self_id)
            /\ \/ ~client_block /\ Unheard(Top.event)
               \/ client_block /\ ~Top.disturbed /\ Heard(Top.event)
               \/ client_block /\ Top.disturbed /\ Misheard(Top.event, self_id)
  BY DEF EventPollReturns, theirs
<1>2. print_event(Top.event, self_id) /\ ~client_block => UNCHANGED <<objects, missed>>
  BY DEF print_event
<1>3. QED
  BY <1>1, <1>2

\* What that leaves amiss, and where.
LEMMA ReturnAmiss ==
  ASSUME PollInv, NEW event \in ToolboxEvent, NEW block \in ObjectId \cup {NULL_ObjectId},
         UNCHANGED <<toolbox, client_block>>,
         \/ Unheard(event) /\ UNCHANGED <<objects, missed>>
         \/ client_block /\ print_event(event, block) /\ block = event.id /\ Heard(event)
         \/ client_block /\ print_event(event, block) /\ Misheard(event, block)
  PROVE  /\ AmissInv'
         /\ objects' \in Seq(PollRecord)
         /\ lost' \subseteq ObjectId /\ surplus' \subseteq ObjectId \cup {NULL_ObjectId}
<1>1. /\ \A x \in lost' : x \in Ids(toolbox') /\ x \notin Ids(objects')
      /\ \A x \in surplus' : x \in Ids(objects')
      /\ \A x \in surplus : x \in Ids(objects') => x \in surplus'
  BY AmissFacts DEF Unheard, Heard, Misheard
<1>2. ListTypes /\ event.kind \in {"created", "deleted"} /\ event.id \in ObjectId
  BY DEF PollInv, ToolboxEvent
<1>3. CASE UNCHANGED <<objects, missed>>
  <2>1. AmissInv' /\ objects' \in Seq(PollRecord)
    BY <1>1, <1>3 DEF PollInv, AmissInv, ListTypes
  <2>2. QED
    BY <1>1, <2>1, IdsTypes DEF PollInv, ListTypes
<1>4. CASE client_block /\ print_event(event, block)
           /\ (block = event.id \/ Misheard(event, block))
  <2>1. /\ objects' \in Seq(PollRecord)
        /\ event.kind = "created" =>
             \/ UNCHANGED objects /\ missed' = missed \cup Unrecorded(block)
             \/ missed' = missed \ {block} /\ Ids(objects') = Ids(objects) \cup {block}
        /\ event.kind = "deleted" => UNCHANGED missed /\ Ids(objects') \subseteq Ids(objects)
    BY <1>2, <1>4, PrintFacts
  <2>2. missed' \subseteq Ids(toolbox') /\ \A x \in missed' : x \notin Ids(objects')
    BY <1>2, <2>1 DEF PollInv, AmissInv, Unrecorded
  <2>3. event.kind = "created" /\ Misheard(event, block) /\ block \in Ids(objects')
          => block \in surplus'
    BY AmissFacts DEF Misheard
  <2>4. NULL_ObjectId \in Ids(objects') => NULL_ObjectId \in surplus'
    BY <1>1, <1>2, <1>4, <2>1, <2>3, NullAssumption DEF PollInv, AmissInv
  <2>5. AmissInv'
    BY <1>1, <2>2, <2>4 DEF AmissInv
  <2>6. QED
    BY <1>1, <2>1, <2>5, IdsTypes DEF PollInv, ListTypes
<1>5. QED
  BY <1>3, <1>4

\* An event that is not heard of, or in the wrong place, is accounted for.
LEMMA ReturnAccounts ==
  ASSUME PollInv, NEW event \in ToolboxEvent, NEW block \in ObjectId \cup {NULL_ObjectId},
         UNCHANGED <<toolbox, client_block>>, NEW id \in ObjectId,
         \/ Unheard(event) /\ UNCHANGED <<objects, missed>>
         \/ client_block /\ print_event(event, block) /\ Heard(event)
            /\ block = event.id /\ id # block
         \/ client_block /\ print_event(event, block) /\ Misheard(event, block)
  PROVE  /\ Accounted(id)
         /\ event.id = id =>
              /\ event.kind = "created" =>
                   (id \in Ids(toolbox') /\ id \notin Ids(objects') => id \in lost')
              /\ event.kind = "deleted" =>
                   (id \in Ids(objects') => id \in surplus')
<1>1. /\ id \in lost /\ id \in Ids(toolbox') /\ id \notin Ids(objects') => id \in lost'
      /\ id \in surplus /\ id \in Ids(objects') => id \in surplus'
  BY AmissFacts DEF Unheard, Heard, Misheard
<1>2. ListTypes /\ event.kind \in {"created", "deleted"} /\ AboutObject(event)
  BY DEF PollInv, ToolboxEvent, AboutObject
<1>3. ASSUME Unheard(event) \/ Misheard(event, block), event.id = id
      PROVE  /\ event.kind = "created" =>
                  (id \in Ids(toolbox') /\ id \notin Ids(objects') => id \in lost')
             /\ event.kind = "deleted" => (id \in Ids(objects') => id \in surplus')
  <2>1. CASE Unheard(event)
    BY <1>3, <2>1, AmissFacts DEF Unheard, Uncreated, Undeleted
  <2>2. CASE Misheard(event, block)
    BY <1>3, <2>2, AmissFacts DEF Misheard, Uncreated, Undeleted
  <2>3. QED
    BY <1>3, <2>1, <2>2
<1>4. ASSUME UNCHANGED <<objects, missed>>
      PROVE  Accounted(id)
  BY <1>1, <1>4 DEF Accounted
<1>5. ASSUME client_block, print_event(event, block), id # block
      PROVE  Accounted(id)
  <2>1. /\ id \in missed' <=> id \in missed
        /\ id \in Ids(objects') <=> id \in Ids(objects)
        /\ Once(objects, id) => Once(objects', id)
        /\ Twice(objects, id) => Twice(objects', id)
    BY <1>2, <1>5, PrintFacts
  <2>2. QED
    BY <1>1, <2>1 DEF Accounted
<1>6. ASSUME client_block, print_event(event, block), id = block, Misheard(event, block)
      PROVE  Accounted(id)
  <2>1. CASE event.kind = "created"
    <3>1. \/ UNCHANGED objects /\ missed' = missed \cup Unrecorded(id)
          \/ Ids(objects') = Ids(objects) \cup {id}
      BY <1>2, <1>6, <2>1, PrintFacts
    <3>2. id \in Ids(objects') => id \in surplus'
      BY <1>6, <2>1, AmissFacts DEF Misheard
    <3>3. QED
      <4>1. id \in Ids(toolbox') /\ id \notin Ids(objects')
              => id \notin Ids(objects) \/ id \in missed'
        BY <3>1 DEF Unrecorded
      <4>2. id \in Ids(toolbox') /\ id \notin Ids(objects') => id \in missed' \cup lost'
        BY <3>1, <4>1 DEF Unrecorded
      <4>3. id \in Ids(objects') => id \in surplus'
        BY <3>2
      <4>4. QED
        BY <4>2, <4>3, NoCopies DEF Accounted
  <2>2. CASE event.kind = "deleted"
    <3>1. /\ UNCHANGED missed
          /\ Ids(objects') \subseteq Ids(objects)
          /\ Once(objects, id) => Once(objects', id)
          /\ Twice(objects, id) => Twice(objects', id)
      BY <1>2, <1>6, <2>2, PrintFacts
    <3>2. id \in Ids(toolbox') /\ id \notin Ids(objects') => id \in lost'
      BY <1>6, <2>2, AmissFacts DEF Misheard
    <3>3. QED
      BY <1>1, <3>1, <3>2 DEF Accounted
  <2>3. QED
    BY <1>2, <2>1, <2>2
<1>7. Accounted(id)
  BY <1>4, <1>5, <1>6
<1>8. QED
  BY <1>3, <1>7

LEMMA ReturnStep ==
  ASSUME PollInv, EventPollReturns
  PROVE  PollInv'
<1> DEFINE n == Len(stack)
           ev == Top.event
<1>1. /\ stack # <<>> /\ Pop
      /\ UNCHANGED <<initialised, toolbox, events, self_id, client_block, mask, messages>>
      /\ \/ Unheard(ev) /\ UNCHANGED <<objects, missed>>
         \/ client_block /\ print_event(ev, self_id) /\ ~Top.disturbed /\ Heard(ev)
         \/ client_block /\ print_event(ev, self_id) /\ Top.disturbed /\ Misheard(ev, self_id)
  BY ReturnCases
<1>2. /\ n \in Nat /\ n >= 1 /\ DOMAIN stack = 1..n /\ n - 1 \in 0..n
      /\ stack' \in Seq(Poll) /\ Len(stack') = n - 1 /\ DOMAIN stack' = 1..(n - 1)
      /\ \A i \in 1..(n - 1) : i \in DOMAIN stack /\ stack'[i] = stack[i]
      /\ Len(stack') <= MaxNest
  BY <1>1, PopFacts DEF PollInv
<1>3. n \in DOMAIN stack /\ stack[n] = Top /\ Top \in Poll /\ initialised
  BY <1>1, <1>2, StackFacts DEF Top, PollInv, FramesInv
<1>4. self_id \in ObjectId \cup {NULL_ObjectId}
  BY DEF PollInv, PollTypes
<1>5. CASE ~AboutObject(ev)
  <2>1. ev = ENull
    BY <1>3, <1>5, EventFacts
  <2>2. UNCHANGED <<objects, missed>>
    BY <1>1, <1>4, <1>5, PrintFacts DEF PollInv
  <2>3. ENull.kind # "created" /\ ENull.kind # "deleted"
    BY EventFacts
  <2>4. Amiss({}, {})
    BY <1>1, <2>1, <2>3
    DEF Unheard, Heard, Misheard, Uncreated, Undeleted, HasSuccessor
  <2>5. UNCHANGED <<lost, surplus>>
    BY <1>1, <2>2, <2>4, NoneAmiss DEF PollInv
  <2>6. QED
    BY <1>1, <2>1, <2>2, <2>5, QuietReturn
<1>6. CASE AboutObject(ev)
  <2>1. ev \in ToolboxEvent /\ ev.id \in ObjectId /\ ev # ENull
    BY <1>3, <1>6, EventFacts
  <2>2. ~Top.disturbed => Fresh(Top) /\ self_id = ev.id
    BY <1>3, <1>6 DEF Fresh, PollInv, FramesInv
  <2>3. /\ AmissInv'
        /\ objects' \in Seq(PollRecord)
        /\ lost' \subseteq ObjectId /\ surplus' \subseteq ObjectId \cup {NULL_ObjectId}
    BY <1>1, <1>4, <2>1, <2>2, ReturnAmiss
  <2>4. ListTypes' /\ QueueInv'
    BY <1>1, <1>3, <2>3 DEF PollInv, ListTypes, QueueInv
  <2>5. PollTypes'
    BY <1>1, <1>2, <2>3 DEF PollInv, PollTypes
  <2>6. FramesInv'
    BY <1>1, <1>2, PrefixFrames DEF PollInv
  <2>7. \A i \in ((n - 1) + 1)..n : stack[i] = Top
    BY <1>2, <1>3
  <2>8. ASSUME NEW id \in ObjectId,
               \/ Unheard(ev) /\ UNCHANGED <<objects, missed>>
               \/ /\ client_block /\ print_event(ev, self_id)
                  /\ ~Top.disturbed /\ Heard(ev) /\ id # ev.id
               \/ client_block /\ print_event(ev, self_id) /\ Misheard(ev, self_id)
        PROVE  Sound(id)' /\ HandledOK(id)'
    <3>1. Sound(id) /\ HandledOK(id) /\ PollTypes
      BY DEF PollInv, RecordsInv
    <3>2. /\ Accounted(id)
          /\ ev.id = id =>
               /\ ev.kind = "created" =>
                    (id \in Ids(toolbox') /\ id \notin Ids(objects') => id \in lost')
               /\ ev.kind = "deleted" => (id \in Ids(objects') => id \in surplus')
      BY <1>1, <1>4, <2>1, <2>2, <2>8, ReturnAccounts
    <3>3. \A i \in ((n - 1) + 1)..n : stack[i].event.id = id =>
            /\ stack[i].event.kind = "created" =>
                 (id \in Ids(toolbox') /\ id \notin Ids(objects') => id \in lost')
            /\ stack[i].event.kind = "deleted" => (id \in Ids(objects') => id \in surplus')
      BY <2>7, <3>2
    <3>4. QED
      BY <1>1, <1>2, <3>1, <3>2, <3>3, OthersKept
  <2>9. ASSUME NEW id \in ObjectId, id = ev.id, client_block, print_event(ev, self_id),
               ~Top.disturbed, Heard(ev)
        PROVE  Sound(id)' /\ HandledOK(id)'
    <3>1. Sound(id) /\ HandledOK(id)
      BY DEF PollInv, RecordsInv
    <3>2. Sound(id)'
      BY <1>1, <2>2, <2>9, <3>1, PrintedSound
    <3>3. \A i \in 1..(n - 1) : ~Fresh(stack[i])
      <4> SUFFICES ASSUME NEW i \in 1..(n - 1), Fresh(stack[i])
                   PROVE  FALSE
        OBVIOUS
      <4>1. i \in DOMAIN stack /\ i < n
        BY <1>2
      <4>2. stack[n].event = ENull
        BY <1>3, <4>1 DEF PollInv, FramesInv
      <4>3. QED
        BY <1>3, <2>1, <4>2
    <3>4. HandledOK(id)'
      BY <1>2, <3>3 DEF HandledOK
    <3>5. QED
      BY <3>2, <3>4
  <2>10. RecordsInv'
    BY <1>1, <2>8, <2>9 DEF RecordsInv
  <2>11. QED
    BY <2>3, <2>4, <2>5, <2>6, <2>10 DEF PollInv
<1>7. QED
  BY <1>5, <1>6

\* A handler ends the program in the middle of polls that never return.
LEMMA ExitStep ==
  ASSUME PollInv, ExitIntercepted
  PROVE  PollInv'
<1> DEFINE n == Len(stack)
           Gone(k) == {stack[i].event : i \in (k + 1)..n}
<1>1. PICK k \in 0..(n - 1) :
        /\ stack' = SubSeq(stack, 1, k)
        /\ Amiss(UNION {Uncreated(e) : e \in Gone(k)}, UNION {Undeleted(e) : e \in Gone(k)})
  BY DEF ExitIntercepted
<1>2. /\ UNCHANGED <<initialised, toolbox, events, objects, missed>>
      /\ UNCHANGED <<self_id, client_block, mask, messages>>
  BY DEF ExitIntercepted, vars
<1>3. /\ DOMAIN stack = 1..n /\ n \in Nat /\ stack \in Seq(Poll) /\ n <= MaxNest
      /\ \A i \in DOMAIN stack : stack[i] \in Poll
  BY StackFacts DEF PollInv, PollTypes
<1>4. k \in 0..n
  BY <1>3
<1>5. /\ stack' \in Seq(Poll) /\ Len(stack') = k /\ DOMAIN stack' = 1..k
      /\ \A i \in 1..k : i \in DOMAIN stack /\ stack'[i] = stack[i]
  BY <1>1, <1>3, <1>4, PrefixFacts
<1>6. k <= MaxNest
  <2>1. MaxNest \in Nat
    BY NestAssumption
  <2> HIDE DEF n
  <2>2. QED
    BY <1>3, <1>4, <2>1
<1>7. /\ \A x \in lost' : x \in Ids(toolbox') /\ x \notin Ids(objects')
      /\ \A x \in surplus' : x \in Ids(objects')
      /\ \A x \in lost : x \in lost'
      /\ \A x \in surplus : x \in surplus'
      /\ \A e \in Gone(k) : \A x \in Uncreated(e) :
           x \in Ids(toolbox') /\ x \notin Ids(objects') => x \in lost'
      /\ \A e \in Gone(k) : \A x \in Undeleted(e) : x \in Ids(objects') => x \in surplus'
  <2>1. /\ \A x : x \in lost' <=>
             /\ x \in lost \cup UNION {Uncreated(e) : e \in Gone(k)}
             /\ x \in Ids(toolbox') /\ x \notin Ids(objects')
        /\ \A x : x \in surplus' <=>
             /\ x \in surplus \cup UNION {Undeleted(e) : e \in Gone(k)}
             /\ x \in Ids(objects')
    BY <1>1, AmissFacts
  <2> HIDE DEF Gone
  <2>2. QED
    BY <1>2, <2>1 DEF PollInv, AmissInv
<1>8. ListTypes' /\ QueueInv' /\ AmissInv'
  BY <1>2, <1>7 DEF PollInv, ListTypes, QueueInv, AmissInv
<1>9. lost' \subseteq ObjectId /\ surplus' \subseteq ObjectId \cup {NULL_ObjectId}
  BY <1>2, <1>7, IdsTypes DEF PollInv, ListTypes
<1>10. PollTypes'
  BY <1>2, <1>5, <1>6, <1>9 DEF PollInv, PollTypes
<1>11. FramesInv'
  BY <1>2, <1>4, <1>5, PrefixFrames DEF PollInv
<1>12. ASSUME NEW id \in ObjectId
       PROVE  Sound(id)' /\ HandledOK(id)'
  <2>1. Sound(id) /\ HandledOK(id) /\ PollTypes
    BY DEF PollInv, RecordsInv
  <2>2. Accounted(id)
    BY <1>2, <1>7 DEF Accounted
  <2>3. ASSUME NEW i \in (k + 1)..n, stack[i].event.id = id
        PROVE  /\ stack[i].event.kind = "created" =>
                    (id \in Ids(toolbox') /\ id \notin Ids(objects') => id \in lost')
               /\ stack[i].event.kind = "deleted" => (id \in Ids(objects') => id \in surplus')
    <3>1. stack[i].event \in Gone(k)
      OBVIOUS
    <3> HIDE DEF Gone
    <3>2. QED
      BY <1>7, <2>3, <3>1 DEF Uncreated, Undeleted
  <2>4. QED
    BY <1>2, <1>4, <1>5, <2>1, <2>2, <2>3, OthersKept
<1>13. RecordsInv'
  BY <1>12 DEF RecordsInv
<1>14. QED
  BY <1>8, <1>10, <1>11, <1>13 DEF PollInv

\* The client calls a polling function, which has nothing to print yet.
LEMMA EnterStep ==
  ASSUME PollInv, InClient, Len(stack) < MaxNest,
         NEW op \in {"event_poll", "wait_for_idle"}, Enter(op),
         UNCHANGED <<initialised, toolbox, events, objects, missed>>,
         UNCHANGED <<self_id, client_block, mask, messages, lost, surplus>>
  PROVE  PollInv'
<1> DEFINE n == Len(stack)
           count == IF op = "wait_for_idle" THEN IdleCount ELSE 0
           p == [op |-> op, at |-> "poll", event |-> ENull, disturbed |-> FALSE,
                 count |-> count, taken |-> 0]
<1>1. /\ stack \in Seq(Poll) /\ n \in Nat /\ DOMAIN stack = 1..n
  BY StackFacts DEF PollInv, PollTypes
<1>2. IdleCount \in Nat /\ MaxNest \in Nat
  BY CountAssumption, NestAssumption
<1>3. p \in Poll
  <2>1. count \in 0..IdleCount /\ 0 \in 0..(IdleCount + 1)
    BY <1>2
  <2> HIDE DEF count
  <2>2. QED
    BY <2>1 DEF Poll
<1>4. FrameInv(p) /\ p.event = ENull
  BY <1>2 DEF FrameInv
<1>5. stack' = Append(stack, p)
  BY DEF Enter
<1> HIDE DEF p
<1>6. /\ stack' \in Seq(Poll) /\ Len(stack') = n + 1 /\ DOMAIN stack' = 1..(n + 1)
      /\ stack'[n + 1] = p /\ \A i \in 1..n : stack'[i] = stack[i]
  <2> DEFINE s == stack
  <2>1. s \in Seq(Poll) /\ stack' = Append(s, p)
    BY <1>1, <1>5
  <2> HIDE DEF s
  <2>2. /\ stack' \in Seq(Poll) /\ Len(stack') = Len(s) + 1
        /\ stack'[Len(s) + 1] = p /\ \A i \in 1..Len(s) : stack'[i] = s[i]
    BY <1>3, <2>1, AppendProperties
  <2>3. QED
    BY <2>2, LenProperties DEF s
<1>7. initialised
  BY DEF InClient, Running, PollInv, ListTypes
<1>8. Len(stack) < MaxNest
  OBVIOUS
<1> HIDE DEF n
<1>9. /\ \A i \in 1..(n + 1) : i = n + 1 \/ i \in 1..n
      /\ \A i \in 1..n : i \in 1..(n + 1)
      /\ n + 1 <= MaxNest
  BY <1>1, <1>2, <1>8 DEF n
<1>10. PollTypes'
  BY <1>6, <1>9 DEF PollInv, PollTypes
<1>11. \A i \in DOMAIN stack' : FrameInv(stack'[i])
  BY <1>1, <1>4, <1>6, <1>9 DEF PollInv, FramesInv
<1>12. \A i \in DOMAIN stack : /\ i \in DOMAIN stack'
                               /\ stack'[i].event = stack[i].event
                               /\ stack'[i].disturbed = stack[i].disturbed
  BY <1>1, <1>6, <1>9
<1>13. \A i \in DOMAIN stack' : \/ stack'[i].event = ENull
                                \/ /\ i \in DOMAIN stack
                                   /\ stack'[i].event = stack[i].event
                                   /\ stack'[i].disturbed = stack[i].disturbed
  BY <1>1, <1>4, <1>6, <1>9
<1>14. QED
  BY <1>7, <1>10, <1>11, <1>12, <1>13, QuietStep

\* The handlers of a wait for idle have returned, and the loop polls again.
LEMMA LoopFacts ==
  ASSUME PollInv, stack # <<>>, Top.op = "wait_for_idle", Top.at = "handlers", ~Exhausted,
         stack' = [stack EXCEPT ![Len(stack)].at = "poll",
                                ![Len(stack)].count = CountDown(@)]
  PROVE  /\ stack' \in Seq(Poll) /\ Len(stack') = Len(stack) /\ DOMAIN stack' = DOMAIN stack
         /\ \A i \in DOMAIN stack :
              /\ FrameInv(stack'[i])
              /\ stack'[i].event = stack[i].event
              /\ stack'[i].disturbed = stack[i].disturbed
<1> DEFINE n == Len(stack)
           p == stack[n]
           c == p.count - 1
           q == [p EXCEPT !.at = "poll", !.count = c]
<1>1. /\ stack \in Seq(Poll) /\ n \in DOMAIN stack /\ p = Top /\ p \in Poll
  BY OuterFacts DEF PollInv, PollTypes, Top
<1>2. stack' = [stack EXCEPT ![n] = q]
  BY <1>1 DEF CountDown
<1>3. /\ p.op = "wait_for_idle" /\ p.at = "handlers" /\ p.count # 0 /\ FrameInv(p)
  BY <1>1 DEF Exhausted, PollInv, FramesInv
<1>4. IdleCount \in Nat /\ p.count \in 0..IdleCount /\ p.taken \in Nat
  BY <1>1, CountAssumption DEF Poll
<1>5. c \in 0..IdleCount
  BY <1>3, <1>4
<1> HIDE DEF c
<1>6. /\ q \in Poll /\ q.op = p.op /\ q.at = "poll" /\ q.event = p.event
      /\ q.disturbed = p.disturbed /\ q.count = c /\ q.taken = p.taken
  <2> HIDE DEF p
  <2> QED
    BY <1>1, <1>5 DEF Poll
<1> HIDE DEF q
<1>7. p.event = ENull /\ p.taken + p.count = IdleCount + 1 /\ c = p.count - 1
  BY <1>3 DEF FrameInv, c
<1>8. FrameInv(q)
  BY <1>3, <1>4, <1>6, <1>7 DEF FrameInv
<1>9. /\ stack' \in Seq(Poll) /\ Len(stack') = n /\ DOMAIN stack' = DOMAIN stack
      /\ stack'[n] = q /\ \A i \in DOMAIN stack : i # n => stack'[i] = stack[i]
  <2> DEFINE s == stack
             t == [s EXCEPT ![n] = q]
  <2>1. s \in Seq(Poll) /\ n \in DOMAIN s /\ q \in Poll
    BY <1>1, <1>6
  <2> HIDE DEF s, n
  <2>2. /\ t \in Seq(Poll) /\ Len(t) = Len(s) /\ DOMAIN t = DOMAIN s
        /\ t[n] = q /\ \A i \in DOMAIN s : i # n => t[i] = s[i]
    BY <2>1, UpdateFacts
  <2>3. t = stack' /\ Len(s) = n
    BY <1>2 DEF s, n
  <2> HIDE DEF t
  <2>4. QED
    BY <2>2, <2>3 DEF s
<1>10. QED
  BY <1>6, <1>8, <1>9 DEF PollInv, FramesInv

LEMMA IdleDispatchedStep ==
  ASSUME PollInv, IdleDispatched
  PROVE  PollInv'
<1>1. /\ UNCHANGED <<initialised, toolbox, events, objects, missed>>
      /\ UNCHANGED <<self_id, client_block, mask, messages, lost, surplus>>
      /\ stack # <<>> /\ Top.op = "wait_for_idle" /\ Top.at = "handlers"
  BY DEF IdleDispatched, theirs, records, amiss
<1>2. Top.event = ENull /\ initialised
  BY <1>1, OuterFacts DEF Top, PollInv, FramesInv, FrameInv
<1>3. CASE Pop
  BY <1>1, <1>2, <1>3, QuietReturn
<1>4. CASE ~Pop
  <2>1. /\ stack' \in Seq(Poll) /\ Len(stack') = Len(stack) /\ DOMAIN stack' = DOMAIN stack
        /\ \A i \in DOMAIN stack :
             /\ FrameInv(stack'[i])
             /\ stack'[i].event = stack[i].event
             /\ stack'[i].disturbed = stack[i].disturbed
    BY <1>1, <1>4, LoopFacts DEF IdleDispatched
  <2>2. PollTypes'
    BY <1>1, <2>1 DEF PollInv, PollTypes
  <2>3. QED
    BY <1>1, <1>2, <2>1, <2>2, QuietStep
<1>5. QED
  BY <1>3, <1>4

\* The polls stay as they are.
LEMMA SameStack ==
  ASSUME PollInv, PollTypes', UNCHANGED <<stack, self_id, client_block, lost, surplus>>,
         UNCHANGED <<initialised, toolbox, events, objects, missed>>
  PROVE  PollInv'
  BY QuietStep DEF PollInv, FramesInv

LEMMA ClientStep ==
  ASSUME PollInv, ClientCalls \/ ToolboxActs
  PROVE  PollInv'
<1>1. /\ UNCHANGED place /\ UNCHANGED stack /\ Amiss({}, {})
      /\ ListTypes /\ QueueInv /\ AmissInv
  BY DEF ClientCalls, ToolboxActs, place, PollInv
<1>2. CASE pseudo_toolbox_initialise
  <2>1. initialised => initialised'
    BY <1>2 DEF pseudo_toolbox_initialise
  <2>2. TableKept
    BY <1>1, <1>2, PollInitialise
  <2>3. QED
    BY <1>1, <2>1, <2>2, TableStep
<1>3. ASSUME NEW id \in ObjectId, NEW t \in Template, pseudo_toolbox_create_object(id, t)
      PROVE  PollInv'
  BY <1>1, <1>3, PollCreate, TableStep DEF pseudo_toolbox_create_object
<1>4. ASSUME NEW id \in ObjectId, pseudo_toolbox_delete_object(id)
      PROVE  PollInv'
  BY <1>1, <1>4, PollDelete, TableStep DEF pseudo_toolbox_delete_object
<1>5. ASSUME NEW id \in ObjectId, NEW t \in Template, AutoCreate(id, t)
      PROVE  PollInv'
  BY <1>1, <1>5, PollAutoCreate, TableStep DEF AutoCreate
<1>6. ASSUME NEW id \in ObjectId, AutoDelete(id)
      PROVE  PollInv'
  <2>1. TableKept
    BY <1>1, <1>6, PollDeleted DEF AutoDelete, Running, ListTypes
  <2>2. QED
    BY <1>1, <1>6, <2>1, TableStep DEF AutoDelete
<1>7. QED
  BY <1>2, <1>3, <1>4, <1>5, <1>6, MakersAssumption DEF ClientCalls, ToolboxActs

LEMMA PollInitOK ==
  ASSUME PollInit
  PROVE  PollInv
<1>1. /\ initialised = FALSE /\ toolbox = <<>> /\ events = <<>> /\ objects = <<>>
      /\ stack = <<>> /\ self_id = NULL_ObjectId /\ client_block \in BOOLEAN
      /\ mask \in Masks /\ messages = 0 /\ lost = {} /\ surplus = {} /\ missed = {}
  BY DEF PollInit, Init
<1>2. MaxEvents \in Nat /\ MaxNest \in Nat /\ MaxMessages \in Nat
  BY SizesAssumption, NestAssumption
<1>3. /\ \A S : <<>> \in Seq(S)
      /\ DOMAIN stack = {} /\ DOMAIN events = {} /\ DOMAIN toolbox = {} /\ DOMAIN objects = {}
      /\ Len(stack) = 0 /\ Len(events) = 0
  BY <1>1
<1>4. ListTypes /\ PollTypes
  <2>1. toolbox \in Seq(Object) /\ events \in Seq(Event) /\ objects \in Seq(PollRecord)
        /\ stack \in Seq(Poll)
    BY <1>1, <1>3
  <2>3. Len(events) <= MaxEvents /\ Len(stack) <= MaxNest /\ messages \in 0..MaxMessages
    BY <1>1, <1>2, <1>3
  <2>4. /\ self_id \in ObjectId \cup {NULL_ObjectId}
        /\ lost \subseteq ObjectId /\ surplus \subseteq ObjectId \cup {NULL_ObjectId}
    BY <1>1
  <2>5. initialised \in BOOLEAN /\ client_block \in BOOLEAN
    BY <1>1
  <2>6. QED
    BY <1>1, <2>1, <2>3, <2>4, <2>5 DEF ListTypes, PollTypes
<1>5. QueueInv
  BY <1>1, <1>3 DEF QueueInv, Distinct, Ordered, Told
<1>6. FramesInv
  BY <1>1, <1>3 DEF FramesInv
<1>7. RecordsInv
  BY <1>1, <1>3 DEF RecordsInv, Sound, HandledOK, Once, Ids, Told
<1>8. AmissInv
  BY <1>1, <1>3 DEF AmissInv, Ids
<1>9. QED
  BY <1>4, <1>5, <1>6, <1>7, <1>8 DEF PollInv

LEMMA PollStep ==
  ASSUME PollInv, [PollNext]_pollVars
  PROVE  PollInv'
<1>1. CASE ClientCalls \/ ToolboxActs
  BY <1>1, ClientStep
<1>2. CASE MessageSent
  <2>1. messages' \in 0..MaxMessages
    BY <1>2, NestAssumption DEF MessageSent, PollInv, PollTypes
  <2>2. PollTypes' /\ UNCHANGED <<stack, self_id, client_block, lost, surplus>>
        /\ UNCHANGED <<initialised, toolbox, events, objects, missed>>
    BY <1>2, <2>1 DEF MessageSent, PollInv, PollTypes, vars, amiss
  <2>3. QED
    BY <2>2, SameStack
<1>3. ASSUME NEW masked \in Masks, pseudo_event_set_mask(masked)
      PROVE  PollInv'
  <2>1. PollTypes' /\ UNCHANGED <<stack, self_id, client_block, lost, surplus>>
        /\ UNCHANGED <<initialised, toolbox, events, objects, missed>>
    BY <1>3 DEF pseudo_event_set_mask, PollInv, PollTypes, theirs, records, amiss
  <2>2. QED
    BY <2>1, SameStack
<1>4. CASE pseudo_event_poll
  <2>1. /\ UNCHANGED <<initialised, toolbox, events, objects, missed>>
        /\ UNCHANGED <<self_id, client_block, mask, messages, lost, surplus>>
        /\ InClient /\ Len(stack) < MaxNest
        /\ UNCHANGED stack \/ Enter("event_poll")
    BY <1>4 DEF pseudo_event_poll, theirs, records, amiss
  <2>2. CASE UNCHANGED stack
    BY <2>1, <2>2, SameStack DEF PollInv, PollTypes
  <2>3. CASE Enter("event_poll")
    BY <2>1, <2>3, EnterStep
  <2>4. QED
    BY <2>1, <2>2, <2>3
<1>5. CASE pseudo_event_poll_idle
  BY <1>4, <1>5 DEF pseudo_event_poll_idle
<1>6. CASE event_poll
  BY <1>6, EventPollStep
<1>7. CASE PollFails
  <2>1. /\ UNCHANGED <<initialised, toolbox, events, objects, missed>>
        /\ UNCHANGED <<self_id, client_block, mask, messages, lost, surplus>>
        /\ stack # <<>> /\ Top.at = "poll" /\ Pop
    BY <1>7 DEF PollFails, PollsWith, theirs, records, amiss
  <2>2. Top.event = ENull
    BY <2>1, OuterFacts DEF Top, PollInv, FramesInv, FrameInv
  <2>3. QED
    BY <2>1, <2>2, QuietReturn
<1>8. CASE EventPollReturns
  BY <1>8, ReturnStep
<1>9. CASE pseudo_event_wait_for_idle
  BY <1>9, EnterStep DEF pseudo_event_wait_for_idle, theirs, records, amiss
<1>10. CASE IdlePoll
  BY <1>10, IdlePollStep
<1>11. CASE IdleDispatched
  BY <1>11, IdleDispatchedStep
<1>12. CASE ExitIntercepted
  BY <1>12, ExitStep
<1>13. CASE UNCHANGED pollVars
  BY <1>13, SameStack DEF pollVars, vars, polling, place, amiss, PollInv, PollTypes
<1>14. QED
  BY <1>1, <1>2, <1>3, <1>4, <1>5, <1>6, <1>7, <1>8, <1>9, <1>10, <1>11, <1>12, <1>13
  DEF PollNext

LEMMA PollAlways == PollSpec => []PollInv
  BY PollInitOK, PollStep, PTL DEF PollSpec

-----------------------------------------------------------------------------
(* What holds of PollSpec. *)

\* The types of PseudoPoll.  Sequences of polls are no longer than MaxNest, and the
\* counters of a wait for idle stay in their range (PseudoEvnt.c:204-240).
THEOREM PollTypeSafety == PollSpec => []PollTypeOK
<1>1. PollInv => PollTypeOK
  <2>1. Event = ToolboxEvent
    BY EventFacts
  <2>2. QED
    BY <2>1 DEF PollInv, PollTypes, ListTypes, PollTypeOK, PollRecord
<1>2. QED
  BY PollAlways, <1>1, PTL

\* However handlers create, delete and poll, the records of pseudo_toolbox_object_created
\* and pseudo_toolbox_object_deleted are those of the Toolbox's objects, but for what is
\* queued or being handled, and for what an event left that was not printed, or printed
\* for another object: and of an object no such event was about, always.
THEOREM RecordsAlwaysFollowPolls == PollSpec => []RecordsFollowPolls
<1>1. PollInv => RecordsFollowPolls
  <2> SUFFICES ASSUME PollInv
               PROVE  RecordsFollowPolls
    OBVIOUS
  <2>1. /\ missed \cup lost \subseteq Ids(toolbox) \ Ids(objects)
        /\ surplus \subseteq Ids(objects)
    BY DEF PollInv, AmissInv
  <2>2. ASSUME NEW id \in ObjectId \cup {NULL_ObjectId}
        PROVE  /\ id \in Ids(toolbox) \ Ids(objects)
                    => id \in Pending("created") \cup Handling("created") \cup missed \cup lost
               /\ id \in Ids(objects) \ Ids(toolbox)
                    => id \in Pending("deleted") \cup Handling("deleted") \cup surplus
               /\ id \notin Handling("deleted") \cup surplus => Once(objects, id)
    <3>1. CASE id \in ObjectId
      <4>1. Sound(id)
        BY <3>1 DEF PollInv, RecordsInv
      <4>2. QED
        BY <4>1, PendingTold DEF Sound
    <3>2. CASE id = NULL_ObjectId
      <4>1. id \notin Ids(toolbox)
        BY <3>2, IdsTypes, NullAssumption DEF PollInv, ListTypes
      <4>2. id \in Ids(objects) => id \in surplus
        BY <3>2 DEF PollInv, AmissInv
      <4>3. QED
        BY <4>1, <4>2, NoCopies
    <3>3. QED
      BY <2>2, <3>1, <3>2
  <2>3. QED
    BY <2>1, <2>2 DEF RecordsFollowPolls, Once
<1>2. QED
  BY PollAlways, <1>1, PTL

\* A wait for idle that returns without an error has found nothing to take, or has
\* taken as many events as its loop allows and one more (PseudoEvnt.c:213-240).
THEOREM IdleAlwaysDelivers == PollSpec => IdleDelivers
<1>1. ASSUME PollInv, IdleReturns
      PROVE  Top.taken > IdleCount \/ ~Waiting(mask)
  <2>1. Len(stack') < Len(stack) /\ ret' # ToolboxError
    BY <1>1, ToolboxErrorAssumption DEF IdleReturns
  <2>2. CASE IdlePoll
    <3>1. PICK event \in Available(mask \ {"null"}) :
            /\ Takes(event)
            /\ event = ENull \/ Runs(event)
      BY <2>1, <2>2 DEF IdlePoll, Returns
    <3>2. CASE event = ENull
      <4>1. events = <<>> \/ ENull # Head(events)
        <5> SUFFICES ASSUME events # <<>> PROVE ENull # Head(events)
          OBVIOUS
        <5>1. Head(events) \in Event
          BY <1>1, HeadTailProperties DEF PollInv, ListTypes
        <5>2. QED
          BY <5>1, EventFacts
      <4>2. ~Waiting(mask \ {"null"})
        BY <3>1, <3>2, <4>1, EventFacts DEF Available
      <4>3. QED
        BY <4>2 DEF Waiting
    <3>3. CASE Runs(event)
      <4>1. event \in ToolboxEvent \cup {ENull, UserMessage}
        BY <1>1, <3>1, TakesFacts
      <4>2. stack # <<>> /\ Top.at = "poll"
        BY <2>2 DEF IdlePoll, PollsWith
      <4>3. Len(stack') = Len(stack) /\ Len(stack) \in Nat
        BY <1>1, <3>3, <4>1, <4>2, RunsFacts DEF PollInv
      <4>4. QED
        BY <2>1, <4>3
    <3>4. QED
      BY <3>1, <3>2, <3>3
  <2>3. CASE IdleDispatched
    <3>1. stack # <<>> /\ Top.op = "wait_for_idle" /\ Top.at = "handlers"
      BY <2>3 DEF IdleDispatched
    <3>2. Len(stack) \in Nat /\ Top \in Poll /\ FrameInv(Top)
      BY <1>1, <3>1, OuterFacts DEF PollInv, FramesInv, Top
    <3>3. Exhausted
      <4> SUFFICES ASSUME ~Exhausted PROVE FALSE
        OBVIOUS
      <4>1. Len(stack') = Len(stack)
        BY <1>1, <2>1, <2>3, <3>1, LoopFacts DEF IdleDispatched, Returns
      <4>2. QED
        BY <2>1, <3>2, <4>1
    <3>4. Top.taken + 0 = IdleCount + 1 /\ Top.taken \in Nat /\ IdleCount \in Nat
      BY <3>1, <3>2, <3>3, CountAssumption DEF FrameInv, Exhausted, Poll
    <3>5. QED
      BY <3>4
  <2>4. QED
    BY <1>1, <2>2, <2>3 DEF IdleReturns
<1>2. ASSUME PollInv
      PROVE  [IdleReturns => Top.taken > IdleCount \/ ~Waiting(mask)]_pollVars
  BY <1>1, <1>2
<1>3. QED
  BY PollAlways, <1>2, PTL DEF IdleDelivers
=============================================================================
