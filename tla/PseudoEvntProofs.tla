-------------------------- MODULE PseudoEvntProofs --------------------------
(***************************************************************************)
(* What is proved of the handler records of PseudoEvnt, for every set of   *)
(* objects and codes and any number of handlers.                           *)
(***************************************************************************)
EXTENDS PseudoEvnt, ListFacts, FiniteSetTheorems, FunctionTheorems

-----------------------------------------------------------------------------
(* How often an element is in a list.                                        *)

Places(x, s) == {i \in DOMAIN s : s[i] = x}

LEMMA TimesFacts ==
  ASSUME NEW R, NEW s \in Seq(R), NEW x
  PROVE  /\ IsFiniteSet(Places(x, s))
         /\ Times(x, s) = Cardinality(Places(x, s))
         /\ Times(x, s) \in Nat
         /\ Times(x, s) = 0 <=> \A i \in DOMAIN s : s[i] # x
<1>1. DOMAIN s = 1..Len(s) /\ Len(s) \in Nat
  BY LenProperties
<1>2. IsFiniteSet(1..Len(s))
  BY <1>1, FS_Interval
<1>3. IsFiniteSet(Places(x, s))
  BY <1>1, <1>2, FS_Subset DEF Places
<1>4. Times(x, s) = Cardinality(Places(x, s))
  BY DEF Times, Places
<1>5. Cardinality(Places(x, s)) \in Nat
  BY <1>3, FS_CardinalityType
<1>6. Cardinality(Places(x, s)) = 0 <=> Places(x, s) = {}
  BY <1>3, FS_EmptySet
<1>7. Places(x, s) = {} <=> \A i \in DOMAIN s : s[i] # x
  BY DEF Places
<1>8. QED
  BY <1>3, <1>4, <1>5, <1>6, <1>7

\* The list t is s without the record at place k, and perhaps in another order.
Drops(s, t, k) ==
  \E f \in [DOMAIN t -> DOMAIN s \ {k}] :
    /\ \A i, j \in DOMAIN t : f[i] = f[j] => i = j
    /\ \A i \in DOMAIN s \ {k} : \E j \in DOMAIN t : f[j] = i
    /\ \A j \in DOMAIN t : t[j] = s[f[j]]

LEMMA TimesWithout ==
  ASSUME NEW R, NEW s \in Seq(R), NEW t \in Seq(R), NEW k \in DOMAIN s, NEW x,
         Drops(s, t, k)
  PROVE  Times(x, t) = IF s[k] = x THEN Times(x, s) - 1 ELSE Times(x, s)
<1>1. PICK f \in [DOMAIN t -> DOMAIN s \ {k}] :
        /\ \A i, j \in DOMAIN t : f[i] = f[j] => i = j
        /\ \A i \in DOMAIN s \ {k} : \E j \in DOMAIN t : f[j] = i
        /\ \A j \in DOMAIN t : t[j] = s[f[j]]
  BY DEF Drops
<1> DEFINE S == Places(x, s)
           T == Places(x, t)
           g == [j \in T |-> f[j]]
<1>2. /\ g \in [T -> S \ {k}]
      /\ \A i, j \in T : g[i] = g[j] => i = j
      /\ \A i \in S \ {k} : \E j \in T : g[j] = i
  BY <1>1 DEF Places
<1> HIDE DEF g
<1>3. g \in Bijection(T, S \ {k})
  BY <1>2, Fun_IsBij
<1>4. ExistsBijection(T, S \ {k})
  BY <1>3, Fun_ExistsBij
<1>5. IsFiniteSet(S) /\ IsFiniteSet(T)
  BY TimesFacts
<1>6. Cardinality(S \ {k}) = Cardinality(T)
  BY <1>4, <1>5, FS_Bijection
<1>7. Cardinality(S \ {k}) = IF k \in S THEN Cardinality(S) - 1 ELSE Cardinality(S)
  BY <1>5, FS_RemoveElement
<1>8. k \in S <=> s[k] = x
  BY DEF Places
<1>9. Times(x, s) = Cardinality(S) /\ Times(x, t) = Cardinality(T)
  BY TimesFacts
<1>10. QED
  BY <1>6, <1>7, <1>8, <1>9

LEMMA TimesInsert ==
  ASSUME NEW R, NEW s \in Seq(R), NEW h \in R, NEW x
  PROVE  Times(x, Cons(h, s)) = IF x = h THEN Times(x, s) + 1 ELSE Times(x, s)
<1> DEFINE t == Cons(h, s)
           f == [j \in DOMAIN s |-> j + 1]
<1>1. /\ t \in Seq(R) /\ DOMAIN t = 1..(Len(s) + 1) /\ t[1] = h
      /\ \A i \in DOMAIN s : t[i + 1] = s[i]
  BY InsertFacts DEF Cons
<1> HIDE DEF t
<1>2. DOMAIN s = 1..Len(s) /\ Len(s) \in Nat
  BY LenProperties
<1>3. /\ f \in [DOMAIN s -> DOMAIN t \ {1}]
      /\ \A i, j \in DOMAIN s : f[i] = f[j] => i = j
      /\ \A j \in DOMAIN s : s[j] = t[f[j]]
  BY <1>1, <1>2
<1>4. ASSUME NEW i \in DOMAIN t \ {1}
      PROVE  \E j \in DOMAIN s : f[j] = i
  <2>1. i - 1 \in DOMAIN s /\ f[i - 1] = i
    BY <1>1, <1>2
  <2>2. QED
    BY <2>1
<1> HIDE DEF f
<1>5. Drops(t, s, 1)
  BY <1>3, <1>4 DEF Drops
<1>6. 1 \in DOMAIN t
  BY <1>1, <1>2
<1>7. Times(x, s) = IF t[1] = x THEN Times(x, t) - 1 ELSE Times(x, t)
  BY <1>1, <1>5, <1>6, TimesWithout
<1>8. Times(x, s) \in Nat /\ Times(x, t) \in Nat
  BY <1>1, TimesFacts
<1>9. Times(x, t) = IF x = h THEN Times(x, s) + 1 ELSE Times(x, s)
  BY <1>1, <1>7, <1>8
<1>10. QED
  BY <1>9 DEF t

\* Taking out the record at a place.
LEMMA TimesRemoveAt ==
  ASSUME NEW R, NEW s \in Seq(R), NEW k \in DOMAIN s, NEW x
  PROVE  Times(x, RemoveAt(s, k)) = IF s[k] = x THEN Times(x, s) - 1 ELSE Times(x, s)
<1> DEFINE t == RemoveAt(s, k)
           f == [j \in DOMAIN t |-> OldPlace(k, j)]
<1>1. /\ t \in Seq(R) /\ Len(t) = Len(s) - 1
      /\ \A j \in DOMAIN t :
           /\ OldPlace(k, j) \in DOMAIN s /\ OldPlace(k, j) # k
           /\ t[j] = s[OldPlace(k, j)]
      /\ \A i \in DOMAIN s : i # k => \E j \in DOMAIN t : OldPlace(k, j) = i
      /\ \A i, j \in DOMAIN t : OldPlace(k, i) = OldPlace(k, j) => i = j
  BY RemovedPlaces
<1> HIDE DEF t
<1>2. /\ f \in [DOMAIN t -> DOMAIN s \ {k}]
      /\ \A i, j \in DOMAIN t : f[i] = f[j] => i = j
      /\ \A i \in DOMAIN s \ {k} : \E j \in DOMAIN t : f[j] = i
      /\ \A j \in DOMAIN t : t[j] = s[f[j]]
  BY <1>1
<1> HIDE DEF f
<1>3. Drops(s, t, k)
  BY <1>2 DEF Drops
<1>4. Times(x, t) = IF s[k] = x THEN Times(x, s) - 1 ELSE Times(x, s)
  BY <1>1, <1>3, TimesWithout
<1>5. QED
  BY <1>4 DEF t

\* Taking the first of several equal records out.
LEMMA TimesRemove ==
  ASSUME NEW R, NEW s \in Seq(R), NEW h \in ToSet(s), NEW x
  PROVE  /\ RemoveFirst(s, h) \in Seq(R)
         /\ Len(RemoveFirst(s, h)) = Len(s) - 1
         /\ Times(x, RemoveFirst(s, h)) = IF x = h THEN Times(x, s) - 1 ELSE Times(x, s)
<1>1. DOMAIN s = 1..Len(s) /\ Len(s) \in Nat
  BY LenProperties
<1> DEFINE I == {i \in 1..Len(s) : s[i] = h}
<1>2. I # {} /\ I \subseteq Nat
  BY <1>1 DEF ToSet
<1>3. RemoveFirst(s, h) = RemoveAt(s, CHOOSE i \in I : \A j \in I : i <= j)
  BY <1>2 DEF RemoveFirst, SelectInSeq, Min
<1> DEFINE k == CHOOSE i \in I : \A j \in I : i <= j
<1> HIDE DEF I
<1>4. k \in I
  BY <1>2, LeastNatural
<1> HIDE DEF k
<1>5. k \in DOMAIN s /\ s[k] = h
  BY <1>1, <1>4 DEF I
<1> DEFINE t == RemoveAt(s, k)
<1>6. t \in Seq(R) /\ Len(t) = Len(s) - 1
  BY <1>5, RemovedPlaces
<1>7. Times(x, t) = IF x = h THEN Times(x, s) - 1 ELSE Times(x, s)
  BY <1>5, TimesRemoveAt
<1>8. t = RemoveFirst(s, h)
  BY <1>3 DEF t, k
<1> HIDE DEF t
<1>9. QED
  BY <1>6, <1>7, <1>8

-----------------------------------------------------------------------------
(* Bags, by the number of copies of each element.                            *)

Copies(h, bag) == IF h \in DOMAIN bag THEN bag[h] ELSE 0
HandlerBag(bag) == IsABag(bag) /\ DOMAIN bag \subseteq Handler

LEMMA CopiesFacts ==
  ASSUME NEW bag, IsABag(bag), NEW x
  PROVE  /\ Copies(x, bag) \in Nat
         /\ Copies(x, bag) = 0 <=> x \notin DOMAIN bag
<1>1. x \in DOMAIN bag => bag[x] \in Nat /\ bag[x] > 0
  BY DEF IsABag
<1>2. QED
  BY <1>1 DEF Copies

LEMMA EmptyFacts == HandlerBag(EmptyBag) /\ \A x : Copies(x, EmptyBag) = 0
  BY DEF HandlerBag, IsABag, EmptyBag, SetToBag, Copies

\* A bag is determined by the copies that it has.
LEMMA SameBag ==
  ASSUME NEW b, NEW c, IsABag(b), IsABag(c),
         \A x \in DOMAIN b \cup DOMAIN c : Copies(x, b) = Copies(x, c)
  PROVE  b = c
<1>1. DOMAIN b = DOMAIN c
  BY CopiesFacts
<1>2. \A x \in DOMAIN b : b[x] = c[x]
  BY <1>1 DEF Copies
<1>3. b = [x \in DOMAIN b |-> b[x]] /\ c = [x \in DOMAIN c |-> c[x]]
  BY DEF IsABag
<1>4. QED
  BY <1>1, <1>2, <1>3

LEMMA UnionFacts ==
  ASSUME NEW b, NEW c, IsABag(b), IsABag(c)
  PROVE  /\ IsABag(b (+) c) /\ DOMAIN (b (+) c) = DOMAIN b \cup DOMAIN c
         /\ \A x : Copies(x, b (+) c) = Copies(x, b) + Copies(x, c)
<1>1. \A x \in DOMAIN b : b[x] \in Nat /\ b[x] > 0
  BY DEF IsABag
<1>2. \A x \in DOMAIN c : c[x] \in Nat /\ c[x] > 0
  BY DEF IsABag
<1>3. b (+) c = [x \in DOMAIN b \cup DOMAIN c |-> Copies(x, b) + Copies(x, c)]
  BY DEF (+), Copies
<1>4. \A x \in DOMAIN b \cup DOMAIN c :
        Copies(x, b) + Copies(x, c) \in {n \in Nat : n > 0}
  BY <1>1, <1>2 DEF Copies
<1>5. IsABag(b (+) c) /\ DOMAIN (b (+) c) = DOMAIN b \cup DOMAIN c
  BY <1>3, <1>4 DEF IsABag
<1>6. ASSUME NEW x PROVE Copies(x, b (+) c) = Copies(x, b) + Copies(x, c)
  <2>1. CASE x \in DOMAIN b \cup DOMAIN c
    <3>1. (b (+) c)[x] = Copies(x, b) + Copies(x, c)
      BY <1>3, <2>1
    <3>2. Copies(x, b (+) c) = (b (+) c)[x]
      BY <1>5, <2>1 DEF Copies
    <3>3. QED
      BY <3>1, <3>2
  <2>2. CASE x \notin DOMAIN b \cup DOMAIN c
    <3>1. Copies(x, b) = 0 /\ Copies(x, c) = 0
      BY <2>2 DEF Copies
    <3>2. Copies(x, b (+) c) = 0
      BY <1>5, <2>2 DEF Copies
    <3>3. QED
      BY <3>1, <3>2
  <2>3. QED
    BY <2>1, <2>2
<1>7. QED
  BY <1>5, <1>6

LEMMA OnceFacts ==
  ASSUME NEW h
  PROVE  /\ IsABag(Once(h)) /\ DOMAIN Once(h) = {h}
         /\ \A x : Copies(x, Once(h)) = IF x = h THEN 1 ELSE 0
<1>1. Once(h) = [x \in {h} |-> 1]
  BY DEF Once, SetToBag
<1>2. QED
  BY <1>1 DEF IsABag, Copies

LEMMA AddFacts ==
  ASSUME NEW bag, HandlerBag(bag), NEW h \in Handler
  PROVE  /\ HandlerBag(bag (+) Once(h))
         /\ \A x : Copies(x, bag (+) Once(h))
                    = IF x = h THEN Copies(x, bag) + 1 ELSE Copies(x, bag)
<1>1. IsABag(bag) /\ DOMAIN bag \subseteq Handler
  BY DEF HandlerBag
<1>2. \A x : Copies(x, bag) \in Nat
  BY <1>1, CopiesFacts
<1> DEFINE c == Once(h)
<1>3. /\ IsABag(c) /\ DOMAIN c = {h}
      /\ \A x : Copies(x, c) = IF x = h THEN 1 ELSE 0
  BY OnceFacts
<1> HIDE DEF c
<1>4. /\ IsABag(bag (+) c) /\ DOMAIN (bag (+) c) = DOMAIN bag \cup DOMAIN c
      /\ \A x : Copies(x, bag (+) c) = Copies(x, bag) + Copies(x, c)
  BY <1>1, <1>3, UnionFacts
<1>5. HandlerBag(bag (+) c)
  BY <1>1, <1>3, <1>4 DEF HandlerBag
<1>6. \A x : Copies(x, bag (+) c) = IF x = h THEN Copies(x, bag) + 1 ELSE Copies(x, bag)
  BY <1>2, <1>3, <1>4
<1>7. QED
  BY <1>5, <1>6 DEF c

LEMMA TakeFacts ==
  ASSUME NEW bag, HandlerBag(bag), NEW h \in DOMAIN bag
  PROVE  /\ HandlerBag(bag (-) Once(h))
         /\ \A x : Copies(x, bag (-) Once(h))
                    = IF x = h THEN Copies(x, bag) - 1 ELSE Copies(x, bag)
<1> DEFINE rest == [x \in DOMAIN bag |-> IF x \in DOMAIN Once(h) THEN bag[x] - Once(h)[x]
                                                              ELSE bag[x]]
           left == [x \in {y \in DOMAIN rest : rest[y] > 0} |-> rest[x]]
<1>1. bag (-) Once(h) = left
  BY DEF (-)
<1>2. \A x \in DOMAIN bag : bag[x] \in Nat /\ bag[x] > 0
  BY DEF HandlerBag, IsABag
<1>3. /\ DOMAIN rest = DOMAIN bag
      /\ \A x \in DOMAIN bag : rest[x] = IF x = h THEN bag[x] - 1 ELSE bag[x]
  BY OnceFacts DEF Once, SetToBag
<1> HIDE DEF rest
<1>4. \A x \in DOMAIN rest : rest[x] \in Nat
  BY <1>2, <1>3
<1>5. HandlerBag(left)
  BY <1>3, <1>4 DEF HandlerBag, IsABag
<1>6. ASSUME NEW x
      PROVE  Copies(x, left) = IF x = h THEN Copies(x, bag) - 1 ELSE Copies(x, bag)
  <2>1. CASE x \in DOMAIN bag
    <3>1. Copies(x, left) = rest[x]
      BY <1>3, <1>4, <2>1 DEF Copies
    <3>2. QED
      BY <1>3, <2>1, <3>1 DEF Copies
  <2>2. CASE x \notin DOMAIN bag
    BY <1>3, <2>2 DEF Copies
  <2>3. QED
    BY <2>1, <2>2
<1>7. QED
  BY <1>1, <1>5, <1>6

LEMMA JoinFacts ==
  ASSUME NEW b, NEW c, HandlerBag(b), HandlerBag(c)
  PROVE  /\ HandlerBag(b (+) c)
         /\ \A x : Copies(x, b (+) c) = Copies(x, b) + Copies(x, c)
<1>1. IsABag(b) /\ IsABag(c) /\ DOMAIN b \subseteq Handler /\ DOMAIN c \subseteq Handler
  BY DEF HandlerBag
<1>2. /\ IsABag(b (+) c) /\ DOMAIN (b (+) c) = DOMAIN b \cup DOMAIN c
      /\ \A x : Copies(x, b (+) c) = Copies(x, b) + Copies(x, c)
  BY <1>1, UnionFacts
<1>3. QED
  BY <1>1, <1>2 DEF HandlerBag

\* The part of a bag that is in a set, and the rest.
LEMMA PartFacts ==
  ASSUME NEW bag, HandlerBag(bag), NEW hs
  PROVE  /\ HandlerBag(Without(bag, hs)) /\ HandlerBag(Only(bag, hs))
         /\ \A x : Copies(x, Without(bag, hs)) = IF x \in hs THEN 0 ELSE Copies(x, bag)
         /\ \A x : Copies(x, Only(bag, hs)) = IF x \in hs THEN Copies(x, bag) ELSE 0
<1>1. \A x \in DOMAIN bag : bag[x] \in {n \in Nat : n > 0}
  BY DEF HandlerBag, IsABag
<1>2. HandlerBag(Without(bag, hs)) /\ HandlerBag(Only(bag, hs))
  BY <1>1 DEF HandlerBag, IsABag, Without, Only
<1>3. \A x : Copies(x, Without(bag, hs)) = IF x \in hs THEN 0 ELSE Copies(x, bag)
  BY DEF Copies, Without
<1>4. \A x : Copies(x, Only(bag, hs)) = IF x \in hs THEN Copies(x, bag) ELSE 0
  BY DEF Copies, Only
<1>5. QED
  BY <1>2, <1>3, <1>4

-----------------------------------------------------------------------------
(* A list as long as there are copies of its elements.                       *)

Pairs(s) == UNION {{x} \X (1..Times(x, s)) : x \in ToSet(s)}

LEMMA PairsFacts ==
  ASSUME NEW R, NEW s \in Seq(R)
  PROVE  IsFiniteSet(Pairs(s)) /\ Cardinality(Pairs(s)) = Len(s)
<1>1. DOMAIN s = 1..Len(s) /\ Len(s) \in Nat
  BY LenProperties
<1> DEFINE number(x) == CHOOSE f : f \in Bijection(Places(x, s), 1..Times(x, s))
           g == [i \in DOMAIN s |-> <<s[i], number(s[i])[i]>>]
<1>2. ASSUME NEW x
      PROVE  number(x) \in Bijection(Places(x, s), 1..Times(x, s))
  <2>1. IsFiniteSet(Places(x, s)) /\ Times(x, s) = Cardinality(Places(x, s))
    BY TimesFacts
  <2>2. ExistsBijection(1..Times(x, s), Places(x, s))
    BY <2>1, FS_CardinalityType
  <2>3. ExistsBijection(Places(x, s), 1..Times(x, s))
    BY <2>2, Fun_ExistsBijSymmetric
  <2>4. \E f : f \in Bijection(Places(x, s), 1..Times(x, s))
    BY <2>3, Fun_ExistsBij
  <2>5. QED
    BY <2>4
<1> HIDE DEF number
<1>3. ASSUME NEW x
      PROVE  /\ number(x) \in [Places(x, s) -> 1..Times(x, s)]
             /\ \A i, j \in Places(x, s) : number(x)[i] = number(x)[j] => i = j
             /\ \A n \in 1..Times(x, s) : \E i \in Places(x, s) : number(x)[i] = n
  <2> DEFINE f == number(x)
  <2>1. f \in Bijection(Places(x, s), 1..Times(x, s))
    BY <1>2
  <2> HIDE DEF f
  <2>2. /\ f \in [Places(x, s) -> 1..Times(x, s)]
        /\ \A i, j \in Places(x, s) : f[i] = f[j] => i = j
        /\ \A n \in 1..Times(x, s) : \E i \in Places(x, s) : f[i] = n
    <3>1. f \in Injection(Places(x, s), 1..Times(x, s)) /\ f \in Surjection(Places(x, s), 1..Times(x, s))
      BY <2>1 DEF Bijection
    <3>2. QED
      BY <3>1 DEF Injection, Surjection, IsInjective
  <2>3. QED
    BY <2>2 DEF f
<1>4. \A i \in DOMAIN s : i \in Places(s[i], s) /\ s[i] \in ToSet(s)
  BY DEF Places, ToSet
<1>5. ASSUME NEW i \in DOMAIN s
      PROVE  g[i] \in Pairs(s)
  <2>1. number(s[i])[i] \in 1..Times(s[i], s)
    BY <1>3, <1>4
  <2>2. g[i] \in {s[i]} \X (1..Times(s[i], s))
    BY <2>1
  <2>3. QED
    BY <1>4, <2>2 DEF Pairs
<1>6. ASSUME NEW i \in DOMAIN s, NEW j \in DOMAIN s, g[i] = g[j]
      PROVE  i = j
  <2>1. s[i] = s[j] /\ number(s[i])[i] = number(s[j])[j]
    BY <1>6
  <2>2. i \in Places(s[i], s) /\ j \in Places(s[i], s) /\ number(s[i])[i] = number(s[i])[j]
    BY <1>4, <2>1
  <2>3. QED
    BY <1>3, <2>2
<1>7. ASSUME NEW p \in Pairs(s)
      PROVE  \E i \in DOMAIN s : g[i] = p
  <2>1. PICK x \in ToSet(s) : p \in {x} \X (1..Times(x, s))
    BY DEF Pairs
  <2>2. PICK n \in 1..Times(x, s) : p = <<x, n>>
    BY <2>1
  <2>3. PICK i \in Places(x, s) : number(x)[i] = n
    BY <1>3
  <2>4. i \in DOMAIN s /\ s[i] = x
    BY DEF Places
  <2>5. QED
    BY <2>2, <2>3, <2>4
<1>8. g \in [DOMAIN s -> Pairs(s)]
  BY <1>5
<1> HIDE DEF g
<1>9. g \in Bijection(1..Len(s), Pairs(s))
  BY <1>1, <1>6, <1>7, <1>8, Fun_IsBij
<1>10. ExistsBijection(1..Len(s), Pairs(s))
  BY <1>9, Fun_ExistsBij
<1>11. IsFiniteSet(1..Len(s)) /\ Cardinality(1..Len(s)) = Len(s)
  <2> DEFINE n == Len(s)
  <2>1. n \in Nat
    BY <1>1
  <2> HIDE DEF n
  <2>2. IsFiniteSet(1..n) /\ Cardinality(1..n) = IF 1 > n THEN 0 ELSE n - 1 + 1
    BY <2>1, FS_Interval
  <2>3. Cardinality(1..n) = n
    BY <2>1, <2>2
  <2>4. QED
    BY <2>2, <2>3 DEF n
<1>12. QED
  BY <1>10, <1>11, FS_Bijection

-----------------------------------------------------------------------------
(* The inductive invariant.                                                  *)

ListOf(l) == {h \in Handler : h.list = l}

\* The lists, each with records of its own kind; a block for each record, and for
\* each that was in a list when it was cleared.
TableInv ==
  /\ handlers \in [Lists -> Seq(Handler)]
  /\ \A l \in Lists : handlers[l] \in Seq(ListOf(l))
  /\ leaked \in Nat
  /\ blocks = Length + leaked

\* A handler is in its list as often as it is owed, unless a walk takes its records
\* out, and registered that often and once more for each record that is gone.
BooksInv ==
  /\ HandlerBag(owed) /\ HandlerBag(library) /\ HandlerBag(unlisted)
  /\ \A h \in Handler :
       /\ h \notin Walked => Times(h, handlers[h.list]) = Copies(h, owed)
       /\ Copies(h, library) = Copies(h, owed) + Copies(h, unlisted)

\* A walk leaves no record of its object behind.
WalkInv ==
  /\ walk \in [list : Lists, object : Object \cup {NoObject}, at : Nat]
  /\ walk # NoWalk => walk.at > 0
  /\ walk # NoWalk => \A i \in DOMAIN handlers[walk.list] :
                        i < walk.at => handlers[walk.list][i].object # walk.object

\* An assertion that fails stops the program.
RestInv ==
  /\ client_block \in BOOLEAN
  /\ ret \in [op : Op, err : {NoError, SimulatedError, EventError}]
  /\ status \in {"running", "aborted"}
  /\ missing \subseteq Handler
  /\ status = "running" => missing = {}
  /\ status = "aborted" => walk = NoWalk /\ \A h \in missing : h \notin DOMAIN owed

IInv == TableInv /\ BooksInv /\ WalkInv /\ RestInv

LEMMA HandlerFacts == \A h \in Handler : h.list \in Lists /\ h \in ListOf(h.list)
  BY DEF Handler, Lists, ListOf

\* Lists that are empty or have just been cleared.
LEMMA EmptyLength ==
  ASSUME \A l \in Lists : handlers[l] = <<>>
  PROVE  Length = 0
<1>1. \A l \in Lists : Len(handlers[l]) = 0
  OBVIOUS
<1>2. /\ Len(handlers["tb_handlers"]) = 0 /\ Len(handlers["wimp_handlers"]) = 0
      /\ Len(handlers["msg_handlers"]) = 0
  BY <1>1 DEF Lists
<1>3. QED
  BY <1>2 DEF Length

LEMMA EmptyTimes == \A x : Times(x, <<>>) = 0
<1>1. <<>> \in Seq(Handler) /\ DOMAIN <<>> = {}
  OBVIOUS
<1>2. QED
  BY <1>1, TimesFacts

\* No walk is under way.
LEMMA IdleFacts ==
  ASSUME WalkInv, walk = NoWalk, walk' = NoWalk
  PROVE  WalkInv' /\ Walked = {} /\ Walked' = {}
BY DEF WalkInv, Walked

LEMMA InitInv == Init => IInv
<1> SUFFICES ASSUME Init PROVE IInv
  OBVIOUS
<1>1. /\ handlers = [l \in Lists |-> <<>>] /\ blocks = 0 /\ leaked = 0
      /\ library = EmptyBag /\ owed = EmptyBag /\ unlisted = EmptyBag
      /\ walk = NoWalk
  BY DEF Init
<1>2. \A l \in Lists : handlers[l] = <<>>
  BY <1>1
<1>3. TableInv
  <2>1. \A R : <<>> \in Seq(R)
    OBVIOUS
  <2>2. Length = 0
    BY <1>2, EmptyLength
  <2>3. QED
    BY <1>1, <1>2, <2>1, <2>2 DEF TableInv
<1>4. BooksInv
  <2>1. ASSUME NEW h \in Handler
        PROVE  Times(h, handlers[h.list]) = 0
    BY <1>2, EmptyTimes, HandlerFacts
  <2>2. QED
    BY <1>1, <2>1, EmptyFacts DEF BooksInv
<1>5. WalkInv
  BY <1>1, <1>2 DEF WalkInv, NoWalk, Lists
<1>6. RestInv
  BY DEF Init, RestInv, Op
<1>7. QED
  BY <1>3, <1>4, <1>5, <1>6 DEF IInv

LEMMA TableFacts ==
  ASSUME TableInv
  PROVE  /\ \A l \in Lists : handlers[l] \in Seq(ListOf(l)) /\ Len(handlers[l]) \in Nat
         /\ blocks \in Nat /\ Length \in Nat
<1>1. \A l \in Lists : handlers[l] \in Seq(ListOf(l))
  BY DEF TableInv
<1>2. \A l \in Lists : Len(handlers[l]) \in Nat
  BY <1>1, LenProperties
<1>3. /\ Len(handlers["tb_handlers"]) \in Nat /\ Len(handlers["wimp_handlers"]) \in Nat
      /\ Len(handlers["msg_handlers"]) \in Nat
  BY <1>2 DEF Lists
<1> DEFINE a(l) == Len(handlers[l])
<1>4. blocks = a("tb_handlers") + a("wimp_handlers") + a("msg_handlers") + leaked
  BY DEF TableInv, Length
<1>5. /\ a("tb_handlers") \in Nat /\ a("wimp_handlers") \in Nat /\ a("msg_handlers") \in Nat
      /\ leaked \in Nat
  BY <1>3 DEF TableInv
<1>6. blocks \in Nat /\ Length \in Nat
  <2>1. Length = a("tb_handlers") + a("wimp_handlers") + a("msg_handlers")
    BY DEF Length
  <2> HIDE DEF a
  <2>2. QED
    BY <1>4, <1>5, <2>1
<1>7. QED
  BY <1>1, <1>2, <1>6

LEMMA Regroup ==
  ASSUME NEW a \in Int, NEW b \in Int, NEW c \in Int, NEW d \in Int
  PROVE  (a + b) - c + d = (a - c + d) + b
OBVIOUS

\* One list changes.
LEMMA ChangeFacts ==
  ASSUME TableInv, NEW l \in Lists, NEW t \in Seq(ListOf(l)),
         handlers' = [handlers EXCEPT ![l] = t],
         blocks' = blocks - Len(handlers[l]) + Len(t), leaked' = leaked
  PROVE  /\ TableInv'
         /\ handlers'[l] = t
         /\ \A m \in Lists : m # l => handlers'[m] = handlers[m]
<1>1. /\ handlers \in [Lists -> Seq(Handler)]
      /\ \A m \in Lists : handlers[m] \in Seq(ListOf(m))
      /\ blocks = Length + leaked /\ leaked \in Nat
  BY DEF TableInv
<1>2. t \in Seq(Handler)
  <2>1. ListOf(l) \subseteq Handler
    BY DEF ListOf
  <2>2. Len(t) \in Nat /\ \A i \in 1..Len(t) : t[i] \in Handler
    BY <2>1, LenProperties, ElementOfSeq
  <2>3. t = [i \in 1..Len(t) |-> t[i]]
    BY LenProperties
  <2>4. QED
    BY <2>2, <2>3, IsASeq
<1>3. /\ handlers' \in [Lists -> Seq(Handler)]
      /\ handlers'[l] = t
      /\ \A m \in Lists : m # l => handlers'[m] = handlers[m]
  BY <1>1, <1>2
<1>4. \A m \in Lists : handlers'[m] \in Seq(ListOf(m))
  BY <1>1, <1>3
<1>5. /\ \A m \in Lists : Len(handlers[m]) \in Nat
      /\ Len(t) \in Nat
  BY <1>1, LenProperties
<1>6. \A m \in Lists : Len(handlers'[m]) = IF m = l THEN Len(t) ELSE Len(handlers[m])
  BY <1>3
<1>7. Length' = Length - Len(handlers[l]) + Len(t)
  <2> DEFINE a(m) == Len(handlers[m])
             b(m) == Len(handlers'[m])
  <2>1. \A m \in Lists : a(m) \in Nat /\ b(m) = IF m = l THEN Len(t) ELSE a(m)
    BY <1>5, <1>6
  <2>2. /\ Length = a("tb_handlers") + a("wimp_handlers") + a("msg_handlers")
        /\ Length' = b("tb_handlers") + b("wimp_handlers") + b("msg_handlers")
    BY DEF Length
  <2> HIDE DEF a, b
  <2> DEFINE k == Len(t)
  <2>3. k \in Nat
    BY <1>5
  <2>4. \A m \in Lists : a(m) \in Nat /\ b(m) = IF m = l THEN k ELSE a(m)
    BY <2>1
  <2> HIDE DEF k
  <2>5. Length' = Length - a(l) + k
    <3>1. /\ a("tb_handlers") \in Nat /\ a("wimp_handlers") \in Nat /\ a("msg_handlers") \in Nat
          /\ b("tb_handlers") = IF l = "tb_handlers" THEN k ELSE a("tb_handlers")
          /\ b("wimp_handlers") = IF l = "wimp_handlers" THEN k ELSE a("wimp_handlers")
          /\ b("msg_handlers") = IF l = "msg_handlers" THEN k ELSE a("msg_handlers")
      BY <2>4 DEF Lists
    <3>2. CASE l = "tb_handlers"
      BY <2>2, <2>3, <3>1, <3>2
    <3>3. CASE l = "wimp_handlers"
      BY <2>2, <2>3, <3>1, <3>3
    <3>4. CASE l = "msg_handlers"
      BY <2>2, <2>3, <3>1, <3>4
    <3>5. QED
      BY <3>2, <3>3, <3>4 DEF Lists
  <2>6. QED
    BY <2>5 DEF a, k
<1>8. blocks' = Length' + leaked
  <2> DEFINE n == Len(handlers[l])
             k == Len(t)
  <2>1. n \in Nat /\ k \in Nat /\ Length \in Nat /\ blocks = Length + leaked /\ leaked \in Nat
    BY <1>1, <1>5, TableFacts
  <2>2. Length' = Length - n + k /\ blocks' = blocks - n + k
    BY <1>7
  <2>3. (Length + leaked) - n + k = (Length - n + k) + leaked
    <3> HIDE DEF n, k
    <3> DEFINE m == Length
    <3>1. m \in Int /\ n \in Int /\ k \in Int /\ leaked \in Int
      BY <2>1
    <3> HIDE DEF m
    <3>2. (m + leaked) - n + k = (m - n + k) + leaked
      BY <3>1, Regroup
    <3>3. QED
      BY <3>2 DEF m
  <2>4. QED
    BY <2>1, <2>2, <2>3
<1>9. QED
  BY <1>1, <1>3, <1>4, <1>8 DEF TableInv

-----------------------------------------------------------------------------
(* The steps.                                                                *)

LEMMA RegisterInv ==
  ASSUME IInv, NEW h \in Handler, Register(h)
  PROVE  IInv'
<1>1. TableInv /\ BooksInv /\ WalkInv /\ RestInv
  BY DEF IInv
<1>2. /\ UNCHANGED <<client_block, unlisted, leaked, missing, status>>
      /\ status = "running" /\ walk = NoWalk /\ walk' = NoWalk
  BY DEF Register, Returns, Idle, Running
<1>3. WalkInv' /\ Walked = {} /\ Walked' = {}
  BY <1>1, <1>2, IdleFacts
<1>4. CASE /\ library' = library (+) Once(h)
           /\ handlers' = [handlers EXCEPT ![h.list] = Cons(h, @)]
           /\ blocks' = blocks + 1
           /\ owed' = owed (+) Once(h)
           /\ Returns("register", NoError)
  <2> DEFINE l == h.list
             s == handlers[l]
             t == Cons(h, s)
  <2>1. l \in Lists /\ h \in ListOf(l) /\ s \in Seq(ListOf(l)) /\ Len(s) \in Nat /\ blocks \in Nat
    <3>1. l \in Lists /\ h \in ListOf(l)
      BY HandlerFacts
    <3>2. QED
      BY <1>1, <3>1, TableFacts
  <2>2. t \in Seq(ListOf(l)) /\ Len(t) = Len(s) + 1
    BY <2>1, InsertFacts DEF Cons
  <2>3. handlers' = [handlers EXCEPT ![l] = t]
    BY <1>4
  <2> HIDE DEF l
  <2>4. blocks' = blocks - Len(s) + Len(t)
    <3> DEFINE n == Len(s)
    <3>1. n \in Nat /\ Len(t) = n + 1 /\ blocks' = blocks + 1 /\ blocks \in Int
      BY <1>4, <2>1, <2>2
    <3> HIDE DEF n, t
    <3>2. blocks' = blocks - n + Len(t)
      BY <3>1
    <3>3. QED
      BY <3>2 DEF n
  <2>5. /\ TableInv'
        /\ handlers'[l] = t
        /\ \A m \in Lists : m # l => handlers'[m] = handlers[m]
    BY <1>1, <1>2, <2>1, <2>2, <2>3, <2>4, ChangeFacts
  <2>6. /\ HandlerBag(owed) /\ HandlerBag(library) /\ HandlerBag(unlisted)
        /\ \A x \in Handler :
             /\ Times(x, handlers[x.list]) = Copies(x, owed)
             /\ Copies(x, library) = Copies(x, owed) + Copies(x, unlisted)
    BY <1>1, <1>3 DEF BooksInv
  <2>7. /\ HandlerBag(owed') /\ HandlerBag(library')
        /\ \A x : Copies(x, owed') = IF x = h THEN Copies(x, owed) + 1 ELSE Copies(x, owed)
        /\ \A x : Copies(x, library') = IF x = h THEN Copies(x, library) + 1 ELSE Copies(x, library)
    BY <1>4, <2>6, AddFacts
  <2>8. ASSUME NEW x \in Handler
        PROVE  Times(x, handlers'[x.list]) = Copies(x, owed')
    <3>1. CASE x.list = l
      <4>1. Times(x, t) = IF x = h THEN Times(x, s) + 1 ELSE Times(x, s)
        BY <2>1, TimesInsert
      <4>2. QED
        BY <2>5, <2>6, <2>7, <3>1, <4>1
    <3>2. CASE x.list # l
      <4>1. x # h /\ x.list \in Lists
        BY <3>2, HandlerFacts DEF l
      <4>2. QED
        BY <2>5, <2>6, <2>7, <3>2, <4>1
    <3>3. QED
      BY <3>1, <3>2
  <2>9. ASSUME NEW x \in Handler
        PROVE  Copies(x, library') = Copies(x, owed') + Copies(x, unlisted')
    <3>1. Copies(x, owed) \in Nat /\ Copies(x, unlisted) \in Nat
      BY <2>6, CopiesFacts DEF HandlerBag
    <3>2. QED
      BY <1>2, <2>6, <2>7, <3>1
  <2>10. BooksInv'
    BY <1>2, <1>3, <2>6, <2>7, <2>8, <2>9 DEF BooksInv
  <2>11. RestInv'
    BY <1>1, <1>2, <1>4 DEF RestInv, Returns, Op
  <2>12. QED
    BY <1>3, <2>5, <2>10, <2>11 DEF IInv
<1>5. CASE /\ \E e \in {EventError, SimulatedError} : Returns("register", e)
           /\ UNCHANGED <<library, handlers, blocks, owed>>
  <2>1. TableInv'
    BY <1>1, <1>2, <1>5 DEF TableInv, Length
  <2>2. BooksInv'
    BY <1>1, <1>2, <1>5, <1>3 DEF BooksInv
  <2>3. RestInv'
    BY <1>1, <1>2, <1>5 DEF RestInv, Returns, Op
  <2>4. QED
    BY <1>3, <2>1, <2>2, <2>3 DEF IInv
<1>6. QED
  BY <1>4, <1>5 DEF Register

LEMMA DeregisterInv ==
  ASSUME IInv, NEW h \in Handler, Deregister(h)
  PROVE  IInv'
<1>1. TableInv /\ BooksInv /\ WalkInv /\ RestInv
  BY DEF IInv
<1>2. /\ UNCHANGED <<client_block, leaked>>
      /\ status = "running" /\ walk = NoWalk /\ walk' = NoWalk
  BY DEF Deregister, Idle, Running, books
<1>3. WalkInv' /\ Walked = {} /\ Walked' = {}
  BY <1>1, <1>2, IdleFacts
<1> DEFINE l == h.list
           s == handlers[l]
           t == RemoveFirst(s, h)
<1>4. l \in Lists /\ s \in Seq(ListOf(l)) /\ Len(s) \in Nat /\ blocks \in Nat
  BY <1>1, HandlerFacts, TableFacts
<1>5. /\ HandlerBag(owed) /\ HandlerBag(library) /\ HandlerBag(unlisted)
      /\ \A x \in Handler :
           /\ Times(x, handlers[x.list]) = Copies(x, owed)
           /\ Copies(x, library) = Copies(x, owed) + Copies(x, unlisted)
  BY <1>1, <1>3 DEF BooksInv
<1>6. \A x : Copies(x, owed) \in Nat /\ Copies(x, library) \in Nat /\ Copies(x, unlisted) \in Nat
  BY <1>5, CopiesFacts DEF HandlerBag
<1>7. h \in DOMAIN owed <=> h \in ToSet(s)
  <2>1. Times(h, s) = 0 <=> h \notin DOMAIN owed
    BY <1>5, CopiesFacts DEF HandlerBag
  <2>2. Times(h, s) = 0 <=> h \notin ToSet(s)
    <3>1. Times(h, s) = 0 <=> \A i \in DOMAIN s : s[i] # h
      BY <1>4, TimesFacts
    <3>2. QED
      BY <3>1 DEF ToSet
  <2>3. QED
    BY <2>1, <2>2
\* The assertion that the record is found fails.
<1>8. CASE h \notin ToSet(s)
  <2>1. status' = "aborted" /\ missing' = {h} /\ UNCHANGED <<books, ret>>
    BY <1>8 DEF Deregister
  <2>2. TableInv' /\ BooksInv'
    <3>1. TableInv'
      BY <1>1, <2>1 DEF TableInv, Length, books
    <3>2. BooksInv'
      BY <1>5, <1>3, <2>1 DEF BooksInv, books
    <3>3. QED
      BY <3>1, <3>2
  <2>3. RestInv'
    BY <1>1, <1>7, <1>2, <1>8, <2>1 DEF RestInv, books
  <2>4. QED
    BY <1>3, <2>2, <2>3 DEF IInv
<1>9. CASE h \in ToSet(s)
  <2>1. /\ handlers' = [handlers EXCEPT ![l] = t]
        /\ blocks' = blocks - 1
        /\ owed' = owed (-) Once(h)
        /\ client_block' = client_block
        /\ \/ /\ BagIn(h, library)
              /\ library' = library (-) Once(h)
              /\ Returns("deregister", NoError)
              /\ UNCHANGED unlisted
           \/ /\ unlisted' = unlisted (+) Once(h)
              /\ Returns("deregister", EventError)
              /\ UNCHANGED library
    BY <1>9 DEF Deregister
  <2>2. t \in Seq(ListOf(l)) /\ Len(t) = Len(s) - 1
    BY <1>4, <1>9, TimesRemove
  <2>3. \A x : Times(x, t) = IF x = h THEN Times(x, s) - 1 ELSE Times(x, s)
    BY <1>4, <1>9, TimesRemove
  <2> HIDE DEF l
  <2>4. blocks' = blocks - Len(s) + Len(t)
    BY <1>4, <2>1, <2>2
  <2>5. /\ TableInv'
        /\ handlers'[l] = t
        /\ \A m \in Lists : m # l => handlers'[m] = handlers[m]
    BY <1>1, <1>2, <1>4, <2>1, <2>2, <2>4, ChangeFacts
  <2>6. /\ HandlerBag(owed')
        /\ \A x : Copies(x, owed') = IF x = h THEN Copies(x, owed) - 1 ELSE Copies(x, owed)
    BY <1>5, <1>7, <1>9, <2>1, TakeFacts
  <2>7. ASSUME NEW x \in Handler
        PROVE  Times(x, handlers'[x.list]) = Copies(x, owed')
    <3>1. CASE x.list = l
      BY <1>5, <2>3, <2>5, <2>6, <3>1
    <3>2. CASE x.list # l
      <4>1. x # h /\ x.list \in Lists
        BY <3>2, HandlerFacts DEF l
      <4>2. QED
        BY <1>5, <2>5, <2>6, <3>2, <4>1
    <3>3. QED
      BY <3>1, <3>2
  <2>8. /\ HandlerBag(library') /\ HandlerBag(unlisted')
        /\ \A x \in Handler : Copies(x, library') = Copies(x, owed') + Copies(x, unlisted')
    <3>1. CASE BagIn(h, library) /\ library' = library (-) Once(h) /\ UNCHANGED unlisted
      <4>1. /\ HandlerBag(library')
            /\ \A x : Copies(x, library') = IF x = h THEN Copies(x, library) - 1 ELSE Copies(x, library)
        BY <1>5, <3>1, TakeFacts DEF BagIn, BagToSet
      <4>2. QED
        BY <1>5, <1>6, <2>6, <3>1, <4>1
    <3>2. CASE unlisted' = unlisted (+) Once(h) /\ UNCHANGED library
      <4>1. /\ HandlerBag(unlisted')
            /\ \A x : Copies(x, unlisted') = IF x = h THEN Copies(x, unlisted) + 1 ELSE Copies(x, unlisted)
        BY <1>5, <3>2, AddFacts
      <4>2. QED
        BY <1>5, <1>6, <2>6, <3>2, <4>1
    <3>3. QED
      BY <2>1, <3>1, <3>2
  <2>9. BooksInv'
    BY <1>3, <2>6, <2>7, <2>8 DEF BooksInv
  <2>10. RestInv'
    BY <1>1, <1>2, <2>1 DEF RestInv, Returns, Op
  <2>11. QED
    BY <1>3, <2>5, <2>9, <2>10 DEF IInv
<1>10. QED
  BY <1>8, <1>9

LEMMA ForObjectInv ==
  ASSUME IInv, NEW l \in Lists, NEW object \in Object, DeregisterForObject(l, object)
  PROVE  IInv'
<1>1. TableInv /\ BooksInv /\ WalkInv /\ RestInv
  BY DEF IInv
<1>2. /\ UNCHANGED <<books, client_block, missing, ret, status>>
      /\ walk' = [list |-> l, object |-> object, at |-> 1]
      /\ status = "running" /\ walk = NoWalk
  BY DEF DeregisterForObject, Idle, Running
<1>3. TableInv'
  BY <1>1, <1>2 DEF TableInv, Length, books
<1>4. Walked = {}
  BY <1>2 DEF Walked
<1>5. BooksInv'
  BY <1>1, <1>2, <1>4 DEF BooksInv, books
<1>6. WalkInv'
  <2> DEFINE s == handlers[l]
  <2>1. DOMAIN s = 1..Len(s) /\ Len(s) \in Nat
    BY <1>1, TableFacts, LenProperties
  <2>2. \A i \in DOMAIN s : ~(i < 1)
    <3> HIDE DEF s
    <3>1. QED
      BY <2>1
  <2>3. walk' \in [list : Lists, object : Object \cup {NoObject}, at : Nat]
    BY <1>2
  <2>4. QED
    BY <1>2, <2>2, <2>3 DEF WalkInv, books
<1>7. RestInv'
  BY <1>1, <1>2 DEF RestInv, books
<1>8. QED
  BY <1>3, <1>5, <1>6, <1>7 DEF IInv

\* A record of the walk's object goes, or the walk leaves one of another behind.
LEMMA VisitInv ==
  ASSUME IInv, Visit
  PROVE  IInv'
<1>1. TableInv /\ BooksInv /\ WalkInv /\ RestInv
  BY DEF IInv
<1> DEFINE l == walk.list
           s == handlers[l]
           k == walk.at
<1>2. /\ UNCHANGED <<client_block, library, owed, unlisted, leaked, missing, ret, status>>
      /\ status = "running" /\ k \in DOMAIN s
  BY DEF Visit, Running
<1>3. l \in Lists /\ s \in Seq(ListOf(l)) /\ Len(s) \in Nat /\ blocks \in Nat /\ k \in Nat
  BY <1>1, TableFacts DEF WalkInv
<1>4. DOMAIN s = 1..Len(s)
  BY <1>3, LenProperties
<1>5. walk # NoWalk
  BY <1>2, <1>4 DEF NoWalk
<1>6. s[k] \in Handler /\ s[k].list = l
  <2>1. s[k] \in ListOf(l)
    BY <1>2, <1>3, <1>4, ElementOfSeq
  <2>2. QED
    BY <2>1 DEF ListOf
<1>7. \A i \in DOMAIN s : i < k => s[i].object # walk.object
  BY <1>1, <1>5 DEF WalkInv
<1>8. RestInv'
  BY <1>1, <1>2 DEF RestInv
<1>9. CASE /\ s[k].object = walk.object
           /\ handlers' = [handlers EXCEPT ![l] = RemoveAt(@, k)]
           /\ blocks' = blocks - 1
           /\ UNCHANGED walk
  <2> DEFINE t == RemoveAt(s, k)
  <2>1. /\ t \in Seq(ListOf(l)) /\ Len(t) = Len(s) - 1 /\ DOMAIN t = 1..(Len(s) - 1)
        /\ \A j \in DOMAIN t : t[j] = IF j < k THEN s[j] ELSE s[j + 1]
    BY <1>2, <1>3, RemoveFacts
  <2>2. \A x : Times(x, t) = IF s[k] = x THEN Times(x, s) - 1 ELSE Times(x, s)
    BY <1>2, <1>3, TimesRemoveAt
  <2>3. handlers' = [handlers EXCEPT ![l] = t]
    BY <1>9
  <2> HIDE DEF t, l, k
  <2>4. blocks' = blocks - Len(s) + Len(t)
    BY <1>3, <1>9, <2>1
  <2>5. /\ TableInv'
        /\ handlers'[l] = t
        /\ \A m \in Lists : m # l => handlers'[m] = handlers[m]
    BY <1>1, <1>2, <1>3, <2>1, <2>3, <2>4, ChangeFacts
  <2>6. s[k] \in Walked /\ Walked' = Walked
    BY <1>5, <1>6, <1>9 DEF Walked, Of, l
  <2>7. ASSUME NEW x \in Handler, x \notin Walked
        PROVE  Times(x, handlers'[x.list]) = Copies(x, owed)
    <3>1. Times(x, handlers[x.list]) = Copies(x, owed) /\ x # s[k] /\ x.list \in Lists
      BY <1>1, <2>6, <2>7, HandlerFacts DEF BooksInv
    <3>2. QED
      BY <2>2, <2>5, <3>1
  <2>8. BooksInv'
    BY <1>1, <1>2, <2>6, <2>7 DEF BooksInv
  <2>9. ASSUME NEW i \in DOMAIN t, i < k
        PROVE  t[i].object # walk.object
    <3>1. i \in DOMAIN s
      <4> DEFINE n == Len(s)
      <4>1. n \in Nat /\ DOMAIN s = 1..n /\ DOMAIN t = 1..(n - 1)
        BY <1>3, <1>4, <2>1
      <4> HIDE DEF n
      <4>2. QED
        BY <4>1
    <3>2. QED
      BY <1>7, <2>1, <2>9, <3>1
  <2>10. WalkInv'
    BY <1>1, <1>9, <2>5, <2>9 DEF WalkInv, l, k
  <2>11. QED
    BY <1>8, <2>5, <2>8, <2>10 DEF IInv
<1>10. CASE /\ s[k].object # walk.object
            /\ walk' = [walk EXCEPT !.at = @ + 1]
            /\ UNCHANGED <<handlers, blocks>>
  <2>1. /\ walk'.list = l /\ walk'.object = walk.object /\ walk'.at = k + 1
        /\ walk' \in [list : Lists, object : Object \cup {NoObject}, at : Nat]
    BY <1>1, <1>10 DEF WalkInv
  <2>2. walk' # NoWalk
    BY <1>3, <2>1 DEF NoWalk
  <2>3. TableInv'
    BY <1>1, <1>2, <1>10 DEF TableInv, Length
  <2>4. BooksInv'
    <3>1. Walked' = Walked
      BY <1>5, <2>1, <2>2 DEF Walked
    <3>2. QED
      BY <1>1, <1>2, <1>10, <3>1 DEF BooksInv
  <2>5. ASSUME NEW i \in DOMAIN s, i < k + 1
        PROVE  s[i].object # walk.object
    <3> HIDE DEF s
    <3>1. i < k \/ i = k
      BY <1>3, <1>4, <2>5
    <3>2. QED
      BY <1>7, <1>10, <3>1
  <2>6. WalkInv'
    BY <1>3, <1>10, <2>1, <2>5 DEF WalkInv
  <2>7. QED
    BY <1>8, <2>3, <2>4, <2>6 DEF IInv
<1>11. QED
  BY <1>9, <1>10 DEF Visit

\* At the end of a walk the list holds no record of its object.
LEMMA DoneInv ==
  ASSUME IInv, ForObjectDone
  PROVE  IInv'
<1>1. TableInv /\ BooksInv /\ WalkInv /\ RestInv
  BY DEF IInv
<1> DEFINE l == walk.list
           s == handlers[l]
           hs == Of(l, walk.object)
<1>2. /\ UNCHANGED <<handlers, blocks, client_block, leaked, missing, status>>
      /\ status = "running" /\ walk # NoWalk /\ walk' = NoWalk /\ walk.at > Len(s)
      /\ owed' = Without(owed, hs)
      /\ \/ /\ library' = Without(library, hs)
            /\ unlisted' = Without(unlisted, hs)
            /\ Returns("deregister_for_object", NoError)
         \/ /\ unlisted' = unlisted (+) Only(owed, hs)
            /\ Returns("deregister_for_object", EventError)
            /\ UNCHANGED library
  BY DEF ForObjectDone, Returns, Running
<1>3. /\ l \in Lists /\ s \in Seq(ListOf(l)) /\ DOMAIN s = 1..Len(s) /\ Len(s) \in Nat
      /\ walk.at \in Nat
  BY <1>1, TableFacts, LenProperties DEF WalkInv
<1>4. \A i \in DOMAIN s : s[i].object # walk.object
  <2> DEFINE n == Len(s)
  <2>1. /\ n \in Nat /\ DOMAIN s = 1..n /\ walk.at > n /\ walk.at \in Nat
        /\ \A i \in DOMAIN s : i < walk.at => s[i].object # walk.object
    BY <1>1, <1>2, <1>3 DEF WalkInv
  <2> HIDE DEF n, s
  <2>2. QED
    BY <2>1
<1>5. /\ HandlerBag(owed) /\ HandlerBag(library) /\ HandlerBag(unlisted)
      /\ \A x \in Handler :
           /\ x \notin hs => Times(x, handlers[x.list]) = Copies(x, owed)
           /\ Copies(x, library) = Copies(x, owed) + Copies(x, unlisted)
  BY <1>1, <1>2 DEF BooksInv, Walked
<1>6. \A x : Copies(x, owed) \in Nat /\ Copies(x, library) \in Nat /\ Copies(x, unlisted) \in Nat
  BY <1>5, CopiesFacts DEF HandlerBag
<1>7. \A x \in hs : Times(x, handlers[x.list]) = 0
  <2>1. ASSUME NEW x \in hs PROVE Times(x, s) = 0 /\ x.list = l
    <3>1. x.list = l /\ x.object = walk.object
      BY DEF Of
    <3>2. \A i \in DOMAIN s : s[i] # x
      BY <1>4, <3>1
    <3>3. QED
      BY <1>3, <3>1, <3>2, TimesFacts
  <2>2. QED
    BY <2>1
<1> HIDE DEF hs
<1>8. /\ HandlerBag(owed')
      /\ \A x : Copies(x, owed') = IF x \in hs THEN 0 ELSE Copies(x, owed)
  BY <1>2, <1>5, PartFacts
<1>9. \A x \in Handler : Times(x, handlers'[x.list]) = Copies(x, owed')
  BY <1>2, <1>5, <1>7, <1>8
<1>10. /\ HandlerBag(library') /\ HandlerBag(unlisted')
       /\ \A x \in Handler : Copies(x, library') = Copies(x, owed') + Copies(x, unlisted')
  <2>1. CASE library' = Without(library, hs) /\ unlisted' = Without(unlisted, hs)
    <3>1. /\ HandlerBag(library')
          /\ \A x : Copies(x, library') = IF x \in hs THEN 0 ELSE Copies(x, library)
      BY <1>5, <2>1, PartFacts
    <3>2. /\ HandlerBag(unlisted')
          /\ \A x : Copies(x, unlisted') = IF x \in hs THEN 0 ELSE Copies(x, unlisted)
      BY <1>5, <2>1, PartFacts
    <3>3. QED
      BY <1>5, <1>6, <1>8, <3>1, <3>2
  <2>2. CASE unlisted' = unlisted (+) Only(owed, hs) /\ UNCHANGED library
    <3> DEFINE part == Only(owed, hs)
    <3>1. /\ HandlerBag(part)
          /\ \A x : Copies(x, part) = IF x \in hs THEN Copies(x, owed) ELSE 0
      BY <1>5, PartFacts
    <3> HIDE DEF part
    <3>2. unlisted' = unlisted (+) part
      BY <2>2 DEF part
    <3>3. /\ HandlerBag(unlisted')
          /\ \A x : Copies(x, unlisted') = Copies(x, unlisted) + Copies(x, part)
      BY <1>5, <3>1, <3>2, JoinFacts
    <3>4. ASSUME NEW x \in Handler
          PROVE  Copies(x, library') = Copies(x, owed') + Copies(x, unlisted')
      <4>1. Copies(x, library') = Copies(x, owed) + Copies(x, unlisted)
        BY <1>5, <2>2
      <4>2. Copies(x, unlisted') = Copies(x, unlisted) + (IF x \in hs THEN Copies(x, owed) ELSE 0)
        BY <3>1, <3>3
      <4>3. Copies(x, owed') = IF x \in hs THEN 0 ELSE Copies(x, owed)
        BY <1>8
      <4>4. Copies(x, owed) \in Nat /\ Copies(x, unlisted) \in Nat
        BY <1>6
      <4>5. QED
        BY <4>1, <4>2, <4>3, <4>4
    <3>5. QED
      BY <1>5, <2>2, <3>3, <3>4
  <2>3. QED
    BY <1>2, <2>1, <2>2 DEF hs
<1>11. TableInv'
  BY <1>1, <1>2 DEF TableInv, Length
<1>12. BooksInv'
  BY <1>8, <1>9, <1>10 DEF BooksInv
<1>13. WalkInv'
  BY <1>2 DEF WalkInv, NoWalk, Lists
<1>14. RestInv'
  BY <1>1, <1>2 DEF RestInv, Returns, Op
<1>15. QED
  BY <1>11, <1>12, <1>13, <1>14 DEF IInv

\* The records in the lists are lost, and their handlers are owed no longer.
LEMMA InitialiseInv ==
  ASSUME IInv, pseudo_event_initialise
  PROVE  IInv'
<1>1. TableInv /\ BooksInv /\ WalkInv /\ RestInv
  BY DEF IInv
<1>2. /\ UNCHANGED <<blocks, library, missing, status>>
      /\ status = "running" /\ walk = NoWalk /\ walk' = NoWalk
  BY DEF pseudo_event_initialise, Returns, Idle, Running
<1>3. WalkInv' /\ Walked = {} /\ Walked' = {}
  BY <1>1, <1>2, IdleFacts
<1>4. RestInv'
  <2>1. \E w \in {NoError, SimulatedError, EventError} : Returns("initialise", w)
    BY DEF pseudo_event_initialise, pseudokern_fail, event
  <2>2. client_block' \in BOOLEAN
    BY <1>1 DEF RestInv, pseudo_event_initialise
  <2>3. QED
    BY <1>1, <1>2, <2>1, <2>2 DEF RestInv, Returns, Op
<1>5. CASE UNCHANGED <<handlers, client_block, owed, unlisted, leaked>>
  <2>1. TableInv'
    BY <1>1, <1>2, <1>5 DEF TableInv, Length
  <2>2. BooksInv'
    BY <1>1, <1>2, <1>3, <1>5 DEF BooksInv
  <2>3. QED
    BY <1>3, <1>4, <2>1, <2>2 DEF IInv
<1>6. CASE /\ handlers' = [l \in Lists |-> <<>>]
           /\ leaked' = leaked + Length
           /\ unlisted' = unlisted (+) owed
           /\ owed' = EmptyBag
  <2>1. \A l \in Lists : handlers'[l] = <<>>
    BY <1>6
  <2>2. Length' = 0
    <3>1. \A l \in Lists : Len(handlers'[l]) = 0
      BY <2>1
    <3>2. /\ Len(handlers'["tb_handlers"]) = 0 /\ Len(handlers'["wimp_handlers"]) = 0
          /\ Len(handlers'["msg_handlers"]) = 0
      BY <3>1 DEF Lists
    <3>3. QED
      BY <3>2 DEF Length
  <2>3. \A R : <<>> \in Seq(R)
    OBVIOUS
  <2>4. blocks' = Length' + leaked' /\ leaked' \in Nat
    <3>1. Length \in Nat /\ leaked \in Nat /\ blocks = Length + leaked
      BY <1>1, TableFacts DEF TableInv
    <3>2. QED
      BY <1>2, <1>6, <2>2, <3>1
  <2>5. TableInv'
    BY <1>6, <2>1, <2>3, <2>4 DEF TableInv
  <2>6. /\ HandlerBag(owed) /\ HandlerBag(library) /\ HandlerBag(unlisted)
        /\ \A x \in Handler : Copies(x, library) = Copies(x, owed) + Copies(x, unlisted)
    BY <1>1 DEF BooksInv
  <2>7. /\ HandlerBag(unlisted')
        /\ \A x : Copies(x, unlisted') = Copies(x, unlisted) + Copies(x, owed)
    BY <1>6, <2>6, JoinFacts
  <2>8. HandlerBag(owed') /\ \A x : Copies(x, owed') = 0
    BY <1>6, EmptyFacts
  <2>9. ASSUME NEW x \in Handler
        PROVE  /\ Times(x, handlers'[x.list]) = Copies(x, owed')
               /\ Copies(x, library') = Copies(x, owed') + Copies(x, unlisted')
    <3>1. Times(x, handlers'[x.list]) = 0
      BY <2>1, EmptyTimes, HandlerFacts
    <3>2. Copies(x, owed) \in Nat /\ Copies(x, unlisted) \in Nat
      BY <2>6, CopiesFacts DEF HandlerBag
    <3>3. QED
      BY <1>2, <2>6, <2>7, <2>8, <3>1, <3>2
  <2>10. BooksInv'
    BY <1>2, <2>6, <2>7, <2>8, <2>9 DEF BooksInv
  <2>11. QED
    BY <1>3, <1>4, <2>5, <2>10 DEF IInv
<1>7. QED
  BY <1>5, <1>6 DEF pseudo_event_initialise

LEMMA NextInv == IInv /\ [Next]_vars => IInv'
<1> SUFFICES ASSUME IInv, [Next]_vars PROVE IInv'
  OBVIOUS
<1>1. CASE pseudo_event_initialise
  BY <1>1, InitialiseInv
<1>2. CASE Veneer
  <2>1. TableInv /\ BooksInv /\ WalkInv /\ RestInv
    BY DEF IInv
  <2>2. UNCHANGED <<books, client_block, walk, missing, status>>
    BY <1>2 DEF Veneer, Returns
  <2>3. TableInv' /\ BooksInv' /\ WalkInv'
    BY <2>1, <2>2 DEF TableInv, Length, BooksInv, WalkInv, Walked, books
  <2>4. RestInv'
    BY <1>2, <2>1, <2>2 DEF RestInv, Veneer, pseudokern_fail, event, Returns, Op, books
  <2>5. QED
    BY <2>3, <2>4 DEF IInv
<1>3. ASSUME NEW h \in Handler, Register(h)
      PROVE  IInv'
  BY <1>3, RegisterInv
<1>4. ASSUME NEW h \in Handler, Deregister(h)
      PROVE  IInv'
  BY <1>4, DeregisterInv
<1>5. ASSUME NEW l \in Lists, NEW object \in Object, DeregisterForObject(l, object)
      PROVE  IInv'
  BY <1>5, ForObjectInv
<1>6. CASE UNCHANGED vars
  BY <1>6 DEF vars, IInv, TableInv, Length, BooksInv, WalkInv, Walked, RestInv
<1>7. ASSUME NEW h \in Handler,
             \/ pseudo_event_register_toolbox_handler(h)
             \/ pseudo_event_register_message_handler(h)
             \/ pseudo_event_register_wimp_handler(h)
             \/ pseudo_event_deregister_toolbox_handler(h)
             \/ pseudo_event_deregister_message_handler(h)
             \/ pseudo_event_deregister_wimp_handler(h)
      PROVE  Register(h) \/ Deregister(h)
  BY <1>7 DEF pseudo_event_register_toolbox_handler, pseudo_event_register_message_handler,
              pseudo_event_register_wimp_handler, pseudo_event_deregister_toolbox_handler,
              pseudo_event_deregister_message_handler, pseudo_event_deregister_wimp_handler
<1>8. ASSUME NEW object \in Object,
             \/ pseudo_event_deregister_toolbox_handlers_for_object(object)
             \/ pseudo_event_deregister_wimp_handlers_for_object(object)
      PROVE  \E l \in Lists : DeregisterForObject(l, object)
  BY <1>8 DEF Lists, pseudo_event_deregister_toolbox_handlers_for_object,
              pseudo_event_deregister_wimp_handlers_for_object
<1>9. CASE Visit
  BY <1>9, VisitInv
<1>10. CASE ForObjectDone
  BY <1>10, DoneInv
<1>11. QED
  BY <1>1, <1>2, <1>3, <1>4, <1>5, <1>6, <1>7, <1>8, <1>9, <1>10 DEF Next

LEMMA SpecInv == Spec => []IInv
  BY InitInv, NextInv, PTL DEF Spec

-----------------------------------------------------------------------------
(* What follows.                                                             *)

LEMMA ListedFacts ==
  ASSUME IInv
  PROVE  /\ IsABag(Listed)
         /\ \A x \in Handler : x \notin Walked => Copies(x, Listed) = Copies(x, owed)
         /\ DOMAIN Listed \subseteq Handler
<1>1. TableInv /\ BooksInv
  BY DEF IInv
<1>2. \A l \in Lists : handlers[l] \in Seq(ListOf(l))
  BY <1>1, TableFacts
<1> DEFINE D == UNION {ToSet(handlers[l]) : l \in Lists}
           sum(x) == Times(x, handlers["tb_handlers"]) + Times(x, handlers["wimp_handlers"])
                       + Times(x, handlers["msg_handlers"])
<1>3. Listed = [x \in D |-> sum(x)]
  BY DEF Listed
<1>4. ASSUME NEW l \in Lists, NEW x \in ToSet(handlers[l])
      PROVE  x \in Handler /\ x.list = l
  <2>1. x \in ListOf(l)
    BY <1>2, LenProperties, ElementOfSeq DEF ToSet
  <2>2. QED
    BY <2>1 DEF ListOf
<1>5. D \subseteq Handler
  BY <1>4
<1>6. ASSUME NEW x \in Handler, NEW l \in Lists, l # x.list
      PROVE  Times(x, handlers[l]) = 0
  <2>1. \A i \in DOMAIN handlers[l] : handlers[l][i] # x
    BY <1>4, <1>6 DEF ToSet
  <2>2. QED
    BY <1>2, <2>1, TimesFacts
<1>7. ASSUME NEW x \in Handler
      PROVE  /\ sum(x) = Times(x, handlers[x.list])
             /\ sum(x) \in Nat
             /\ sum(x) = 0 <=> x \notin D
  <2> DEFINE n(l) == Times(x, handlers[l])
  <2>1. \A l \in Lists : n(l) \in Nat /\ (l # x.list => n(l) = 0)
    BY <1>2, <1>6, TimesFacts
  <2>2. x.list \in Lists
    BY HandlerFacts
  <2>3. sum(x) = n("tb_handlers") + n("wimp_handlers") + n("msg_handlers")
    OBVIOUS
  <2> HIDE DEF n, sum
  <2>4. sum(x) = n(x.list) /\ sum(x) \in Nat
    BY <2>1, <2>2, <2>3 DEF Lists
  <2>5. n(x.list) = 0 <=> x \notin ToSet(handlers[x.list])
    <3>1. n(x.list) = 0 <=> \A i \in DOMAIN handlers[x.list] : handlers[x.list][i] # x
      BY <1>2, <2>2, TimesFacts DEF n
    <3>2. QED
      BY <3>1 DEF ToSet
  <2>6. x \in D <=> x \in ToSet(handlers[x.list])
    BY <1>4, <2>2
  <2>7. QED
    BY <2>4, <2>5, <2>6 DEF n
<1> HIDE DEF sum
<1>8. \A x \in D : sum(x) \in {n \in Nat : n > 0}
  BY <1>5, <1>7
<1> HIDE DEF D
<1>9. IsABag(Listed) /\ DOMAIN Listed = D
  BY <1>3, <1>8 DEF IsABag
<1>10. ASSUME NEW x \in Handler, x \notin Walked
       PROVE  Copies(x, Listed) = Copies(x, owed)
  <2>1. Copies(x, Listed) = sum(x)
    BY <1>3, <1>7, <1>9 DEF Copies
  <2>2. QED
    BY <1>1, <1>7, <1>10, <2>1 DEF BooksInv
<1>11. QED
  BY <1>5, <1>9, <1>10

\* Two bags without some handlers are equal if they agree on the others.
LEMMA SamePart ==
  ASSUME NEW b, NEW c, NEW hs, HandlerBag(b), HandlerBag(c),
         \A x \in Handler : x \notin hs => Copies(x, b) = Copies(x, c)
  PROVE  Without(b, hs) = Without(c, hs)
<1> DEFINE p == Without(b, hs)
           q == Without(c, hs)
<1>1. /\ HandlerBag(p) /\ HandlerBag(q)
      /\ \A x : Copies(x, p) = IF x \in hs THEN 0 ELSE Copies(x, b)
      /\ \A x : Copies(x, q) = IF x \in hs THEN 0 ELSE Copies(x, c)
  BY PartFacts
<1> HIDE DEF p, q
<1>2. IsABag(p) /\ IsABag(q) /\ DOMAIN p \subseteq Handler /\ DOMAIN q \subseteq Handler
  BY <1>1 DEF HandlerBag
<1>3. \A x \in DOMAIN p \cup DOMAIN q : Copies(x, p) = Copies(x, q)
  BY <1>1, <1>2
<1>4. p = q
  BY <1>2, <1>3, SameBag
<1>5. QED
  BY <1>4 DEF p, q

\* The lists hold exactly the handlers registered since the last initialisation
\* and not deregistered, each as often as it was registered (PseudoEvnt.c:61),
\* whatever the heap and the event library refuse; a walk for an object takes out
\* records of that object only.
THEOREM ListsAlwaysOwed == Spec => []ListsAreOwed
<1>1. ASSUME IInv PROVE ListsAreOwed
  <2>1. HandlerBag(owed) /\ HandlerBag(Listed)
    BY <1>1, ListedFacts DEF IInv, BooksInv, HandlerBag
  <2>2. \A x \in Handler : x \notin Walked => Copies(x, Listed) = Copies(x, owed)
    BY <1>1, ListedFacts
  <2>3. QED
    BY <2>1, <2>2, SamePart DEF ListsAreOwed
<1>2. QED
  BY SpecInv, <1>1, PTL

\* The library has exactly those registered, and those whose record went when it
\* refused to deregister them or when the lists were cleared.
THEOREM LibraryAlwaysAgrees == Spec => []LibraryAgrees
<1>1. ASSUME IInv PROVE LibraryAgrees
  <2>1. /\ HandlerBag(owed) /\ HandlerBag(library) /\ HandlerBag(unlisted)
        /\ \A x \in Handler : Copies(x, library) = Copies(x, owed) + Copies(x, unlisted)
    BY <1>1 DEF IInv, BooksInv
  <2>2. HandlerBag(Listed)
    BY <1>1, ListedFacts DEF HandlerBag
  <2>3. \A x \in Handler : x \notin Walked => Copies(x, Listed) = Copies(x, owed)
    BY <1>1, ListedFacts
  <2> DEFINE all == Listed (+) unlisted
  <2>4. HandlerBag(all) /\ \A x : Copies(x, all) = Copies(x, Listed) + Copies(x, unlisted)
    BY <2>1, <2>2, JoinFacts
  <2> HIDE DEF all
  <2>5. \A x \in Handler : x \notin Walked => Copies(x, library) = Copies(x, all)
    BY <2>1, <2>3, <2>4
  <2>6. Without(library, Walked) = Without(all, Walked)
    BY <2>1, <2>4, <2>5, SamePart
  <2>7. QED
    BY <2>6 DEF all, LibraryAgrees
<1>2. QED
  BY SpecInv, <1>1, PTL

\* The assertion that a record is found (PseudoEvnt.c:334, 428, 496) fails only for
\* a handler that is not owed; and the state keeps its types.
THEOREM AlwaysFoundRecord == Spec => [](TypeOK /\ AlwaysFound)
<1>1. ASSUME IInv PROVE TypeOK /\ AlwaysFound
  <2>1. TableInv /\ BooksInv /\ WalkInv /\ RestInv
    BY <1>1 DEF IInv
  <2>2. ASSUME NEW l \in Lists, NEW h \in ToSet(handlers[l])
        PROVE  h.list = l
    <3>1. h \in ListOf(l)
      BY <2>1, TableFacts, LenProperties, ElementOfSeq DEF ToSet
    <3>2. QED
      BY <3>1 DEF ListOf
  <2>3. blocks \in Nat /\ leaked \in Nat /\ handlers \in [Lists -> Seq(Handler)]
    BY <2>1, TableFacts DEF TableInv
  <2>4. \A b \in {library, owed, unlisted} : IsABag(b) /\ BagToSet(b) \subseteq Handler
    BY <2>1 DEF BooksInv, HandlerBag, BagToSet
  <2>5. TypeOK
    BY <2>1, <2>2, <2>3, <2>4 DEF RestInv, WalkInv, TypeOK
  <2>6. AlwaysFound
    BY <2>1 DEF RestInv, AlwaysFound, BagIn, BagToSet
  <2>7. QED
    BY <2>5, <2>6
<1>2. QED
  BY SpecInv, <1>1, PTL

\* A block is allocated for each handler owed, as often as it is owed, and else
\* only for those in the lists when these were cleared: an error path leaks none
\* and frees none twice.
THEOREM BlocksAlwaysOwed == Spec => []BlocksAreOwed
<1>1. ASSUME IInv, walk = NoWalk PROVE blocks = Cardinality(Debts) + leaked
  <2> DEFINE part(l) == Pairs(handlers[l])
  <2>1. TableInv /\ BooksInv /\ Walked = {}
    BY <1>1 DEF IInv, Walked
  <2>2. \A l \in Lists : handlers[l] \in Seq(ListOf(l)) /\ Len(handlers[l]) \in Nat
    BY <2>1, TableFacts
  <2>3. \A l \in Lists : IsFiniteSet(part(l)) /\ Cardinality(part(l)) = Len(handlers[l])
    BY <2>2, PairsFacts
  <2>4. ASSUME NEW l \in Lists, NEW p
        PROVE  p \in part(l) <=> p \in Debts /\ p[1].list = l
    <3>1. ASSUME NEW h \in ToSet(handlers[l])
          PROVE  h \in Handler /\ h.list = l
      <4>1. h \in ListOf(l)
        BY <2>2, LenProperties, ElementOfSeq DEF ToSet
      <4>2. QED
        BY <4>1 DEF ListOf
    <3>2. ASSUME NEW h \in Handler, h.list = l
          PROVE  /\ h \in ToSet(handlers[l]) <=> h \in DOMAIN owed
                 /\ h \in DOMAIN owed => Times(h, handlers[l]) = owed[h]
      <4>1. Times(h, handlers[l]) = Copies(h, owed)
        BY <2>1, <3>2 DEF BooksInv
      <4>2. Times(h, handlers[l]) = 0 <=> h \notin ToSet(handlers[l])
        <5>1. Times(h, handlers[l]) = 0 <=> \A i \in DOMAIN handlers[l] : handlers[l][i] # h
          BY <2>2, TimesFacts
        <5>2. QED
          BY <5>1 DEF ToSet
      <4>3. Copies(h, owed) = 0 <=> h \notin DOMAIN owed
        BY <2>1, CopiesFacts DEF BooksInv, HandlerBag
      <4>4. QED
        BY <4>1, <4>2, <4>3 DEF Copies
    <3>3. ASSUME p \in part(l) PROVE p \in Debts /\ p[1].list = l
      <4>1. PICK h \in ToSet(handlers[l]) : p \in {h} \X (1..Times(h, handlers[l]))
        BY <3>3 DEF Pairs
      <4>2. h \in Handler /\ h.list = l /\ h \in DOMAIN owed /\ p \in {h} \X (1..owed[h])
        BY <3>1, <3>2, <4>1
      <4>3. p[1] = h
        BY <4>2
      <4>4. QED
        BY <4>2, <4>3 DEF Debts
    <3>4. ASSUME p \in Debts, p[1].list = l PROVE p \in part(l)
      <4>1. PICK h \in DOMAIN owed : p \in {h} \X (1..owed[h])
        BY <3>4 DEF Debts
      <4>2. p[1] = h /\ h \in Handler /\ h.list = l
        BY <2>1, <3>4, <4>1 DEF BooksInv, HandlerBag
      <4>3. h \in ToSet(handlers[l]) /\ p \in {h} \X (1..Times(h, handlers[l]))
        BY <3>2, <4>1, <4>2
      <4>4. QED
        BY <4>3 DEF Pairs
    <3>5. QED
      BY <3>3, <3>4
  <2>5. \A p \in Debts : p[1].list \in Lists
    <3>1. ASSUME NEW p \in Debts PROVE p[1] \in Handler
      <4>1. PICK h \in DOMAIN owed : p \in {h} \X (1..owed[h])
        BY DEF Debts
      <4>2. p[1] = h
        BY <4>1
      <4>3. QED
        BY <2>1, <4>1, <4>2 DEF BooksInv, HandlerBag
    <3>2. QED
      BY <3>1, HandlerFacts
  <2>6. Length = Len(handlers["tb_handlers"]) + Len(handlers["wimp_handlers"])
                   + Len(handlers["msg_handlers"])
    BY DEF Length
  <2> DEFINE len(l) == Len(handlers[l])
             tb == part("tb_handlers")
             wimp == part("wimp_handlers")
             msg == part("msg_handlers")
  <2>7. /\ IsFiniteSet(tb) /\ IsFiniteSet(wimp) /\ IsFiniteSet(msg)
        /\ Cardinality(tb) = len("tb_handlers") /\ Cardinality(wimp) = len("wimp_handlers")
        /\ Cardinality(msg) = len("msg_handlers")
        /\ len("tb_handlers") \in Nat /\ len("wimp_handlers") \in Nat /\ len("msg_handlers") \in Nat
    BY <2>2, <2>3 DEF Lists
  <2>8. /\ Debts = (tb \cup wimp) \cup msg
        /\ tb \cap wimp = {} /\ (tb \cup wimp) \cap msg = {}
    <3> HIDE DEF part
    <3>1. QED
      BY <2>4, <2>5 DEF Lists
  <2> HIDE DEF len, tb, wimp, msg
  <2>9. IsFiniteSet(tb \cup wimp) /\ Cardinality(tb \cup wimp) = len("tb_handlers") + len("wimp_handlers")
    BY <2>7, <2>8, FS_Union, FS_EmptySet
  <2>10. Cardinality(Debts) = len("tb_handlers") + len("wimp_handlers") + len("msg_handlers")
    <3> DEFINE both == tb \cup wimp
    <3>1. /\ IsFiniteSet(both) /\ Debts = both \cup msg /\ both \cap msg = {}
          /\ Cardinality(both) = len("tb_handlers") + len("wimp_handlers")
      BY <2>8, <2>9
    <3> HIDE DEF both
    <3>2. Cardinality(both \cup msg) = Cardinality(both) + Cardinality(msg) - Cardinality({})
      BY <2>7, <3>1, FS_Union
    <3>3. QED
      BY <2>7, <3>1, <3>2, FS_EmptySet
  <2>11. blocks = len("tb_handlers") + len("wimp_handlers") + len("msg_handlers") + leaked
    BY <2>1, <2>6 DEF TableInv, len
  <2>12. QED
    BY <2>10, <2>11
<1>2. IInv => BlocksAreOwed
  BY <1>1 DEF BlocksAreOwed
<1>3. QED
  BY SpecInv, <1>2, PTL
=============================================================================
