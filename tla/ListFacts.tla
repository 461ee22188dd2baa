----------------------------- MODULE ListFacts -----------------------------
(***************************************************************************)
(* What the proofs rest on that is not about this library: every set of    *)
(* naturals that is not empty has a least element, which searches from the *)
(* front of a list or string end at, and what inserting, removing and      *)
(* changing an element does to a sequence.                                 *)
(***************************************************************************)
EXTENDS Naturals, Sequences, SequencesExt, SequenceTheorems, WellFoundedInduction, TLAPS

LEMMA LessThan ==
  \E R : IsWellFoundedOn(R, Nat) /\ \A m, n \in Nat : m < n => <<m, n>> \in R
<1>1. \A m, n \in Nat : m < n => <<m, n>> \in OpToRel(<, Nat)
  BY DEF OpToRel
<1>2. QED
  BY NatLessThanWellFounded, <1>1

\* The well-ordering of the naturals, over sets.
LEMMA LeastNatural ==
  ASSUME NEW S, S \subseteq Nat, S # {}
  PROVE  \E m \in S : \A n \in S : m <= n
<1>1. PICK R : IsWellFoundedOn(R, Nat) /\ \A m, n \in Nat : m < n => <<m, n>> \in R
  BY LessThan
<1>2. IsWellFoundedOn(R, Nat)
  BY <1>1
<1>3. \E m \in S : \A n \in S : ~(<<n, m>> \in R)
  BY <1>2, WFMin, Zenon
<1>4. PICK m \in S : \A n \in S : ~(<<n, m>> \in R)
  BY <1>3
<1>5. ASSUME NEW n \in S PROVE m <= n
  <2>1. ~(<<n, m>> \in R)
    BY <1>4
  <2>2. m \in Nat /\ n \in Nat
    OBVIOUS
  <2>3. ~(n < m)
    BY <1>1, <2>1, <2>2
  <2>4. QED
    BY <2>2, <2>3
<1>6. QED
  BY <1>5

\* The same of the places of a sequence that belong to a set.
LEMMA FirstPlace ==
  ASSUME NEW n \in Nat, NEW S, S \subseteq 1..n, S # {}
  PROVE  \E i \in S : \A j \in 1..(i - 1) : j \notin S
<1>1. S \subseteq Nat
  OBVIOUS
<1>2. PICK i \in S : \A j \in S : i <= j
  BY <1>1, LeastNatural
<1>3. ASSUME NEW j \in 1..(i - 1)
      PROVE  j \notin S
  BY <1>1, <1>2
<1>4. QED
  BY <1>3
-----------------------------------------------------------------------------

\* Inserting at the head shifts every record by one place.
LEMMA InsertFacts ==
  ASSUME NEW R, NEW s \in Seq(R), NEW r \in R
  PROVE  LET t == <<r>> \o s IN
         /\ t \in Seq(R)
         /\ Len(t) = Len(s) + 1
         /\ DOMAIN t = 1..(Len(s) + 1)
         /\ t[1] = r
         /\ \A i \in DOMAIN s : t[i + 1] = s[i]
  OBVIOUS

\* Removing at place i moves the records after it down by one.
LEMMA RemoveFacts ==
  ASSUME NEW R, NEW s \in Seq(R), NEW i \in DOMAIN s
  PROVE  LET t == RemoveAt(s, i) IN
         /\ t \in Seq(R)
         /\ Len(t) = Len(s) - 1
         /\ DOMAIN t = 1..(Len(s) - 1)
         /\ \A j \in DOMAIN t : t[j] = IF j < i THEN s[j] ELSE s[j + 1]
<1> DEFINE lo == SubSeq(s, 1, i - 1)
           hi == SubSeq(s, i + 1, Len(s))
<1>1. /\ Len(s) \in Nat /\ i \in 1..Len(s)
      /\ \A j \in 1..Len(s) : s[j] \in R
  BY LenProperties, ElementOfSeq
<1>2. /\ lo \in Seq(R) /\ Len(lo) = i - 1
      /\ \A j \in 1..(i - 1) : lo[j] = s[j]
  BY <1>1, SubSeqProperties
<1>3. /\ hi \in Seq(R) /\ Len(hi) = Len(s) - i
      /\ \A j \in 1..(Len(s) - i) : hi[j] = s[i + j]
  BY <1>1, SubSeqProperties
<1> HIDE DEF lo, hi
<1>4. /\ lo \o hi \in Seq(R)
      /\ Len(lo \o hi) = Len(s) - 1
      /\ \A j \in 1..(Len(s) - 1) :
           (lo \o hi)[j] = IF j < i THEN s[j] ELSE s[j + 1]
  <2>1. /\ lo \o hi \in Seq(R) /\ Len(lo \o hi) = Len(lo) + Len(hi)
        /\ \A j \in 1..(Len(lo) + Len(hi)) :
             (lo \o hi)[j] = IF j <= Len(lo) THEN lo[j] ELSE hi[j - Len(lo)]
    BY <1>2, <1>3, ConcatProperties
  <2>2. Len(lo) + Len(hi) = Len(s) - 1
    BY <1>1, <1>2, <1>3
  <2>3. ASSUME NEW j \in 1..(Len(s) - 1), j < i
        PROVE  (lo \o hi)[j] = s[j]
    <3>1. j <= Len(lo) /\ j \in 1..(i - 1)
      BY <1>1, <1>2, <2>3
    <3>2. QED
      BY <1>2, <2>1, <2>2, <3>1
  <2>4. ASSUME NEW j \in 1..(Len(s) - 1), ~(j < i)
        PROVE  (lo \o hi)[j] = s[j + 1]
    <3>1. ~(j <= Len(lo)) /\ j - Len(lo) \in 1..(Len(s) - i) /\ i + (j - Len(lo)) = j + 1
      BY <1>1, <1>2, <2>4
    <3>2. (lo \o hi)[j] = hi[j - Len(lo)]
      BY <2>1, <2>2, <3>1
    <3>3. hi[j - Len(lo)] = s[i + (j - Len(lo))]
      BY <1>3, <3>1
    <3>4. QED
      BY <3>1, <3>2, <3>3
  <2>5. QED
    BY <2>1, <2>2, <2>3, <2>4
<1>5. RemoveAt(s, i) = lo \o hi
  BY DEF RemoveAt, lo, hi
<1>6. QED
  BY <1>1, <1>4, <1>5, LenProperties

\* Where an element was before the one at place i was removed.
OldPlace(i, j) == IF j < i THEN j ELSE j + 1

LEMMA RemovedPlaces ==
  ASSUME NEW R, NEW s \in Seq(R), NEW i \in DOMAIN s
  PROVE  LET t == RemoveAt(s, i) IN
         /\ t \in Seq(R) /\ Len(t) = Len(s) - 1
         /\ \A j \in DOMAIN t :
              /\ OldPlace(i, j) \in DOMAIN s /\ OldPlace(i, j) # i
              /\ t[j] = s[OldPlace(i, j)]
         /\ \A k \in DOMAIN s : k # i => \E j \in DOMAIN t : OldPlace(i, j) = k
         /\ \A j, k \in DOMAIN t : OldPlace(i, j) = OldPlace(i, k) => j = k
         /\ \A j, k \in DOMAIN t : j < k <=> OldPlace(i, j) < OldPlace(i, k)
<1> DEFINE t == RemoveAt(s, i)
<1>1. DOMAIN s = 1..Len(s) /\ Len(s) \in Nat /\ i \in Nat
  BY LenProperties
<1>2. /\ t \in Seq(R) /\ Len(t) = Len(s) - 1 /\ DOMAIN t = 1..(Len(s) - 1)
      /\ \A j \in DOMAIN t : t[j] = IF j < i THEN s[j] ELSE s[j + 1]
  BY RemoveFacts
<1> HIDE DEF t
<1>3. \A j \in DOMAIN t :
        /\ OldPlace(i, j) \in DOMAIN s /\ OldPlace(i, j) # i
        /\ t[j] = s[OldPlace(i, j)]
  BY <1>1, <1>2 DEF OldPlace
<1>4. \A k \in DOMAIN s : k # i => \E j \in DOMAIN t : OldPlace(i, j) = k
  <2> SUFFICES ASSUME NEW k \in DOMAIN s, k # i
               PROVE  \E j \in DOMAIN t : OldPlace(i, j) = k
    OBVIOUS
  <2>1. CASE k < i
    BY <1>1, <1>2, <2>1 DEF OldPlace
  <2>2. CASE k > i
    <3>1. k - 1 \in DOMAIN t /\ OldPlace(i, k - 1) = k
      BY <1>1, <1>2, <2>2 DEF OldPlace
    <3>2. QED
      BY <3>1
  <2>3. QED
    BY <1>1, <2>1, <2>2
<1>5. /\ \A j, k \in DOMAIN t : OldPlace(i, j) = OldPlace(i, k) => j = k
      /\ \A j, k \in DOMAIN t : j < k <=> OldPlace(i, j) < OldPlace(i, k)
  BY <1>1, <1>2 DEF OldPlace
<1>6. QED
  BY <1>2, <1>3, <1>4, <1>5 DEF t

\* The first elements of a list.
LEMMA PrefixFacts ==
  ASSUME NEW R, NEW s \in Seq(R), NEW k \in 0..Len(s)
  PROVE  LET t == SubSeq(s, 1, k) IN
         /\ t \in Seq(R) /\ Len(t) = k /\ DOMAIN t = 1..k
         /\ \A i \in 1..k : i \in DOMAIN s /\ t[i] = s[i]
<1> DEFINE t == SubSeq(s, 1, k)
<1>1. /\ Len(s) \in Nat /\ DOMAIN s = 1..Len(s) /\ k \in Nat
      /\ \A i \in 1..Len(s) : s[i] \in R
  BY LenProperties, ElementOfSeq
<1>2. /\ t \in Seq(R) /\ Len(t) = k
      /\ \A i \in 1..k : t[i] = s[i]
  BY <1>1, SubSeqProperties
<1>3. \A i \in 1..k : i \in DOMAIN s
  BY <1>1
<1> HIDE DEF t
<1>4. DOMAIN t = 1..k
  BY <1>2, LenProperties
<1>5. QED
  BY <1>2, <1>3, <1>4 DEF t

\* Changing a record leaves the others where they are.
LEMMA UpdateFacts ==
  ASSUME NEW R, NEW s \in Seq(R), NEW i \in DOMAIN s, NEW r \in R
  PROVE  LET t == [s EXCEPT ![i] = r] IN
         /\ t \in Seq(R)
         /\ Len(t) = Len(s)
         /\ DOMAIN t = DOMAIN s
         /\ t[i] = r
         /\ \A j \in DOMAIN s : j # i => t[j] = s[j]
  BY ExceptSeq, LenProperties
=============================================================================
