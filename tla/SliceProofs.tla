------------------------- MODULE SliceProofs ---------------------------
(***************************************************************************)
(* What Picked and Keeping return, for every sequence.                     *)
(*                                                                         *)
(* Induction is by a least number: WFMin speaks of a set of naturals, not  *)
(* of a predicate, and so its instances can be cited.                      *)
(***************************************************************************)
EXTENDS Slices, FiniteSetTheorems, SequenceTheorems, WellFoundedInduction, TLAPS

\* A set of naturals that is not empty has a least element.
LEMMA LeastNumber ==
  ASSUME NEW T, T \subseteq Nat, T # {}
  PROVE  \E x \in T : \A y \in T : x <= y
<1> DEFINE Below == OpToRel(<, Nat)
<1>1. IsWellFoundedOn(Below, Nat)
  BY NatLessThanWellFounded
<1>2. \A x, y \in Nat : y < x => <<y, x>> \in Below
  BY DEF OpToRel
<1> HIDE DEF Below
<1>3. PICK x \in T : \A y \in T : ~(<<y, x>> \in Below)
  BY <1>1, WFMin
<1>4. ASSUME NEW y \in T
      PROVE  x <= y
  <2>1. ~(y < x)
    BY <1>2, <1>3
  <2> QED
    BY <2>1
<1> QED
  BY <1>4

\* A bounded set of numbers has a greatest one.
LEMMA GreatestNumber ==
  ASSUME NEW T, T \subseteq Nat, T # {}, NEW b \in Nat, \A y \in T : y <= b
  PROVE  Max(T) \in T /\ \A y \in T : y <= Max(T)
<1> DEFINE U == {u \in Nat : \A y \in T : y <= u}
<1>1. PICK u \in U : \A v \in U : u <= v
  <2>1. U \subseteq Nat /\ U # {}
    OBVIOUS
  <2> HIDE DEF U
  <2> QED
    BY <2>1, LeastNumber
<1>2. u \in T
  <2> SUFFICES ASSUME u \notin T
               PROVE  FALSE
    OBVIOUS
  <2>1. u \in Nat /\ \A y \in T : y \in Nat /\ y <= u /\ y # u
    OBVIOUS
  <2>2. u # 0
    <3>1. PICK y \in T : TRUE
      OBVIOUS
    <3> QED
      BY <2>1, <3>1
  <2>3. u - 1 \in U
    BY <2>1, <2>2
  <2> QED
    BY <1>1, <2>1, <2>3
<1>3. \A y \in T : u >= y
  OBVIOUS
<1>4. Max(T) \in T /\ \A y \in T : Max(T) >= y
  BY <1>2, <1>3 DEF Max
<1> QED
  BY <1>4

\* Places in a finite set of numbers: from 1 to its size, growing with the number.
LEMMA PlaceRange ==
  ASSUME NEW I, I \subseteq Int, IsFiniteSet(I), NEW i \in I
  PROVE  Place(I, i) \in 1..Cardinality(I)
<1> DEFINE J == {j \in I : j <= i}
<1>1. IsFiniteSet(J) /\ Cardinality(J) <= Cardinality(I)
  BY FS_Subset
<1>2. Cardinality(J) \in Nat /\ Cardinality(I) \in Nat
  BY <1>1, FS_CardinalityType
<1>3. i \in J
  OBVIOUS
<1>4. Cardinality(J) # 0
  BY <1>1, <1>3, FS_EmptySet
<1> HIDE DEF J
<1> QED
  BY <1>1, <1>2, <1>4 DEF Place, J

LEMMA PlaceGrows ==
  ASSUME NEW I, I \subseteq Int, IsFiniteSet(I), NEW i \in I, NEW k \in I, i < k
  PROVE  Place(I, i) < Place(I, k)
<1> DEFINE J == {j \in I : j <= i}
           K == {j \in I : j <= k}
<1>1. IsFiniteSet(J) /\ IsFiniteSet(K)
  BY FS_Subset
<1>2. J \subseteq K \ {k}
  <2> SUFFICES ASSUME NEW j \in I, j <= i
               PROVE  j <= k /\ j # k
    OBVIOUS
  <2>1. i \in Int /\ j \in Int /\ k \in Int
    OBVIOUS
  <2> QED
    BY <2>1
<1>3. k \in K
  OBVIOUS
<1> HIDE DEF J, K
<1>4. IsFiniteSet(K \ {k}) /\ Cardinality(K \ {k}) = Cardinality(K) - 1
  BY <1>1, <1>3, FS_RemoveElement
<1>5. Cardinality(J) <= Cardinality(K \ {k})
  BY <1>2, <1>4, FS_Subset
<1>6. Cardinality(J) \in Nat /\ Cardinality(K) \in Nat
  BY <1>1, FS_CardinalityType
<1> QED
  BY <1>4, <1>5, <1>6 DEF Place, J, K

\* No two numbers have the same place.
LEMMA PlaceInjective ==
  ASSUME NEW I, I \subseteq Int, IsFiniteSet(I), NEW i \in I, NEW k \in I,
         Place(I, i) = Place(I, k)
  PROVE  i = k
<1>1. Place(I, i) \in 1..Cardinality(I) /\ Cardinality(I) \in Nat
  BY PlaceRange, FS_CardinalityType
<1>2. Place(I, i) \in Int /\ ~(Place(I, i) < Place(I, i))
  BY <1>1
<1>3. ~(i < k)
  <2>1. i < k => Place(I, i) < Place(I, k)
    BY PlaceGrows
  <2> QED
    BY <1>2, <2>1
<1>4. ~(k < i)
  <2>1. k < i => Place(I, k) < Place(I, i)
    BY PlaceGrows
  <2> QED
    BY <1>2, <2>1
<1>5. i \in Int /\ k \in Int
  OBVIOUS
<1> QED
  BY <1>3, <1>4, <1>5

\* Every place up to the size of the set is taken.
LEMMA PlaceTaken ==
  ASSUME NEW m \in Nat, NEW I, I \subseteq 1..m, NEW n \in 1..Cardinality(I)
  PROVE  \E i \in I : Place(I, i) = n
<1> DEFINE Upto(k) == {j \in I : j <= k}
           T == {k \in Nat : Cardinality(Upto(k)) >= n}
<1>0. IsFiniteSet(I) /\ Cardinality(I) \in Nat
  <2>1. IsFiniteSet(1..m)
    BY FS_Interval
  <2> QED
    BY <2>1, FS_Subset, FS_CardinalityType
<1>a. \A j \in I : j \in Nat /\ 1 <= j /\ j <= m
  OBVIOUS
<1>1. \A k : IsFiniteSet(Upto(k)) /\ Cardinality(Upto(k)) \in Nat
  <2> SUFFICES ASSUME NEW k
               PROVE  IsFiniteSet(Upto(k)) /\ Cardinality(Upto(k)) \in Nat
    OBVIOUS
  <2>1. Upto(k) \subseteq I
    OBVIOUS
  <2> HIDE DEF Upto
  <2> QED
    BY <1>0, <2>1, FS_Subset, FS_CardinalityType
<1>2. Upto(m) = I
  BY <1>a
<1>3. Upto(0) = {}
  <2>1. \A j \in I : ~(j <= 0)
    BY <1>a
  <2> QED
    BY <2>1, Zenon
<1>b. \A j \in I, k \in Nat : j <= k - 1 <=> j <= k /\ j # k
  BY <1>a
<1>4. ASSUME NEW k \in Nat, k \in I
      PROVE  k \in Upto(k) /\ Upto(k) \ {k} = Upto(k - 1)
  <2>1. k <= k
    OBVIOUS
  <2> QED
    BY <1>4, <1>b, <2>1, Zenon
<1>5. ASSUME NEW k \in Nat, k \notin I
      PROVE  Upto(k) = Upto(k - 1)
  BY <1>5, <1>b
<1>6. \A k : Place(I, k) = Cardinality(Upto(k))
  BY DEF Place
<1> HIDE DEF Upto
<1>7. m \in T
  BY <1>0, <1>2
<1>8. PICK k \in T : \A l \in T : k <= l
  <2>1. T \subseteq Nat /\ T # {}
    BY <1>7
  <2> HIDE DEF T
  <2> QED
    BY <2>1, LeastNumber
<1>9. k \in Nat /\ Cardinality(Upto(k)) >= n
  OBVIOUS
<1>10. k # 0
  <2>1. Cardinality(Upto(0)) = 0
    BY <1>3, FS_EmptySet
  <2> QED
    BY <1>0, <1>9, <2>1
<1>11. ~(Cardinality(Upto(k - 1)) >= n)
  <2>1. k - 1 \in Nat /\ ~(k <= k - 1)
    BY <1>9, <1>10
  <2> QED
    BY <1>8, <2>1
<1>12. k \in I
  BY <1>5, <1>9, <1>11
<1>13. Cardinality(Upto(k - 1)) = Cardinality(Upto(k)) - 1
  BY <1>1, <1>4, <1>9, <1>12, FS_RemoveElement
<1>14. Cardinality(Upto(k)) = n
  <2>1. Cardinality(Upto(k)) \in Nat /\ n \in Nat
    BY <1>0, <1>1
  <2> QED
    BY <1>9, <1>11, <1>13, <2>1
<1> QED
  BY <1>6, <1>12, <1>14

\* Picked lists the elements at the places of I, each once.
LEMMA PickedPlaces ==
  ASSUME NEW S, NEW seq \in Seq(S), NEW I, I \subseteq DOMAIN seq
  PROVE  /\ IsFiniteSet(I) /\ Cardinality(I) \in Nat /\ Cardinality(I) <= Len(seq)
         /\ Picked(seq, I) \in Seq(S)
         /\ Len(Picked(seq, I)) = Cardinality(I)
         /\ DOMAIN Picked(seq, I) = 1..Cardinality(I)
         /\ \A n \in 1..Cardinality(I) :
              \E i \in I : Place(I, i) = n /\ Picked(seq, I)[n] = seq[i]
         /\ \A i \in I : /\ Place(I, i) \in 1..Cardinality(I)
                         /\ Picked(seq, I)[Place(I, i)] = seq[i]
<1> DEFINE pos(n) == CHOOSE i \in I : Place(I, i) = n
           p == Picked(seq, I)
<1>0. Len(seq) \in Nat /\ DOMAIN seq = 1..Len(seq) /\ \A i \in DOMAIN seq : seq[i] \in S
  BY LenProperties, ElementOfSeq
<1>1. IsFiniteSet(I) /\ Cardinality(I) \in Nat /\ Cardinality(I) <= Len(seq)
  <2>1. IsFiniteSet(1..Len(seq)) /\ Cardinality(1..Len(seq)) = Len(seq)
    <3>1. 1 \in Int /\ Len(seq) \in Int
      BY <1>0
    <3>2. /\ IsFiniteSet(1..Len(seq))
          /\ Cardinality(1..Len(seq)) = IF 1 > Len(seq) THEN 0 ELSE Len(seq) - 1 + 1
      BY <3>1, FS_Interval
    <3> QED
      BY <1>0, <3>2
  <2>2. IsFiniteSet(I) /\ Cardinality(I) <= Cardinality(1..Len(seq))
    BY <1>0, <2>1, FS_Subset
  <2> QED
    BY <2>1, <2>2, FS_CardinalityType
<1>2. I \subseteq Int
  BY <1>0
<1>3. ASSUME NEW n \in 1..Cardinality(I)
      PROVE  pos(n) \in I /\ Place(I, pos(n)) = n
  BY <1>0, PlaceTaken
<1>4. ASSUME NEW i \in I
      PROVE  Place(I, i) \in 1..Cardinality(I) /\ pos(Place(I, i)) = i
  <2>1. Place(I, i) \in 1..Cardinality(I)
    BY <1>1, <1>2, PlaceRange
  <2>2. pos(Place(I, i)) \in I /\ Place(I, pos(Place(I, i))) = Place(I, i)
    BY <1>3, <2>1
  <2> HIDE DEF pos
  <2>3. pos(Place(I, i)) = i
    BY <1>1, <1>2, <2>2, PlaceInjective
  <2> QED
    BY <2>1, <2>3
<1>5. /\ DOMAIN p = 1..Cardinality(I)
      /\ \A n \in 1..Cardinality(I) : p[n] = seq[pos(n)]
      /\ p = [n \in 1..Cardinality(I) |-> p[n]]
  BY DEF Picked
<1> HIDE DEF pos, p
<1>6. p \in Seq(S) /\ Len(p) = Cardinality(I)
  <2>1. \A n \in 1..Cardinality(I) : p[n] \in S
    BY <1>0, <1>3, <1>5
  <2>2. [n \in 1..Cardinality(I) |-> p[n]] \in Seq(S)
    BY <1>1, <2>1, IsASeq
  <2>3. p \in Seq(S)
    BY <1>5, <2>2
  <2>4. Len(p) \in Nat /\ DOMAIN p = 1..Len(p)
    BY <2>3, LenProperties
  <2> QED
    BY <1>1, <1>5, <2>3, <2>4
<1> QED
  BY <1>1, <1>3, <1>4, <1>5, <1>6 DEF p

\* Keeping leaves exactly the elements that are not to go, no more often than
\* they were there.
LEMMA KeepingElements ==
  ASSUME NEW S, NEW seq \in Seq(S), NEW gone
  PROVE  LET k == Keeping(seq, gone)
         IN  /\ k \in Seq(S)
             /\ Len(k) \in Nat /\ Len(k) <= Len(seq)
             /\ ToSet(k) = ToSet(seq) \ gone
             /\ IsInjective(seq) => IsInjective(k)
<1> DEFINE I == {i \in DOMAIN seq : seq[i] \notin gone}
           k == Picked(seq, I)
<1>1. Keeping(seq, gone) = k
  BY DEF Keeping
<1>2. I \subseteq DOMAIN seq /\ \A i \in DOMAIN seq : i \in I <=> seq[i] \notin gone
  OBVIOUS
<1> HIDE DEF I
<1>3. /\ IsFiniteSet(I) /\ Cardinality(I) \in Nat /\ Cardinality(I) <= Len(seq)
      /\ k \in Seq(S) /\ Len(k) = Cardinality(I) /\ DOMAIN k = 1..Cardinality(I)
  BY <1>2, PickedPlaces
<1>4. \A n \in DOMAIN k : \E i \in I : Place(I, i) = n /\ k[n] = seq[i]
  BY <1>2, <1>3, PickedPlaces
<1>5. \A i \in I : Place(I, i) \in DOMAIN k /\ k[Place(I, i)] = seq[i]
  BY <1>2, <1>3, PickedPlaces
<1> HIDE DEF k
<1>6. ToSet(k) = ToSet(seq) \ gone
  <2>1. ASSUME NEW e \in ToSet(k)
        PROVE  e \in ToSet(seq) /\ e \notin gone
    BY <1>2, <1>4 DEF ToSet
  <2>2. ASSUME NEW e \in ToSet(seq), e \notin gone
        PROVE  e \in ToSet(k)
    <3>1. PICK i \in DOMAIN seq : e = seq[i]
      BY DEF ToSet
    <3>2. Place(I, i) \in DOMAIN k /\ k[Place(I, i)] = e
      BY <1>2, <1>5, <2>2, <3>1
    <3> QED
      BY <3>2 DEF ToSet
  <2> QED
    BY <2>1, <2>2
<1>7. ASSUME IsInjective(seq)
      PROVE  IsInjective(k)
  <2> SUFFICES ASSUME NEW a \in DOMAIN k, NEW b \in DOMAIN k, k[a] = k[b]
               PROVE  a = b
    BY DEF IsInjective
  <2>1. PICK i \in I : Place(I, i) = a /\ k[a] = seq[i]
    BY <1>4
  <2>2. PICK j \in I : Place(I, j) = b /\ k[b] = seq[j]
    BY <1>4
  <2>3. i = j
    BY <1>2, <1>7, <2>1, <2>2 DEF IsInjective
  <2> QED
    BY <2>1, <2>2, <2>3
<1> QED
  BY <1>1, <1>3, <1>6, <1>7

\* A new element at the end.
LEMMA AppendElements ==
  ASSUME NEW S, NEW seq \in Seq(S), NEW e \in S, e \notin ToSet(seq), IsInjective(seq)
  PROVE  LET a == Append(seq, e)
         IN  /\ a \in Seq(S) /\ Len(a) = Len(seq) + 1 /\ Len(seq) \in Nat
             /\ ToSet(a) = ToSet(seq) \cup {e}
             /\ IsInjective(a)
             /\ a[Len(a)] = e
<1> DEFINE a == Append(seq, e)
<1>1. Len(seq) \in Nat /\ DOMAIN seq = 1..Len(seq)
  BY LenProperties
<1>2. /\ a \in Seq(S) /\ Len(a) = Len(seq) + 1
      /\ \A i \in 1..Len(seq) : a[i] = seq[i]
      /\ a[Len(seq) + 1] = e
  BY AppendProperties
<1>3. DOMAIN a = 1..(Len(seq) + 1)
  BY <1>2, LenProperties
<1> HIDE DEF a
<1>4. DOMAIN a = DOMAIN seq \cup {Len(seq) + 1}
  BY <1>1, <1>3
<1>5. \A i \in DOMAIN seq : a[i] = seq[i] /\ seq[i] # e
  BY <1>1, <1>2 DEF ToSet
<1>6. ToSet(a) = ToSet(seq) \cup {e}
  BY <1>2, <1>4, <1>5 DEF ToSet
<1>7. IsInjective(a)
  BY <1>2, <1>4, <1>5 DEF IsInjective
<1> QED
  BY <1>1, <1>2, <1>6, <1>7 DEF a

\* The first k elements go.
LEMMA SuffixElements ==
  ASSUME NEW S, NEW seq \in Seq(S), IsInjective(seq), NEW k \in 0..Len(seq)
  PROVE  LET r == SubSeq(seq, k + 1, Len(seq))
         IN  /\ r \in Seq(S) /\ Len(r) = Len(seq) - k
             /\ ToSet(r) = ToSet(seq) \ {seq[i] : i \in 1..k}
             /\ IsInjective(r)
<1> DEFINE r == SubSeq(seq, k + 1, Len(seq))
<1>1. Len(seq) \in Nat /\ DOMAIN seq = 1..Len(seq) /\ k \in Nat /\ k <= Len(seq)
  BY LenProperties
<1>2. /\ r \in Seq(S) /\ Len(r) = Len(seq) - k
      /\ \A i \in 1..(Len(seq) - k) : r[i] = seq[k + i]
  <2>1. k + 1 \in Int /\ Len(seq) \in Int /\ \A i \in (k + 1)..Len(seq) : seq[i] \in S
    BY <1>1, ElementOfSeq
  <2>2. /\ r \in Seq(S)
        /\ Len(r) = IF k + 1 <= Len(seq) THEN Len(seq) - (k + 1) + 1 ELSE 0
        /\ \A i \in 1..(Len(seq) - (k + 1) + 1) : r[i] = seq[k + 1 + i - 1]
    BY <1>1, <2>1, SubSeqProperties
  <2>3. \A i \in 1..(Len(seq) - k) : /\ i \in 1..(Len(seq) - (k + 1) + 1)
                                     /\ k + 1 + i - 1 = k + i
    BY <1>1
  <2> HIDE DEF r
  <2>6. Len(seq) \in Nat /\ k \in Nat /\ k <= Len(seq)
    BY <1>1
  <2>4. Len(r) = Len(seq) - k
    <3>1. CASE k + 1 <= Len(seq)
      <4>1. Len(r) = Len(seq) - (k + 1) + 1
        BY <2>2, <3>1
      <4> QED
        BY <1>1, <4>1
    <3>2. CASE ~(k + 1 <= Len(seq))
      <4>1. Len(r) = 0
        BY <2>2, <3>2
      <4>2. Len(seq) - k = 0
        BY <2>6, <3>2
      <4> QED
        BY <4>1, <4>2
    <3> QED
      BY <3>1, <3>2
  <2>5. ASSUME NEW i \in 1..(Len(seq) - k)
        PROVE  r[i] = seq[k + i]
    <3>1. i \in 1..(Len(seq) - (k + 1) + 1) /\ k + 1 + i - 1 = k + i
      BY <2>3
    <3>2. r[i] = seq[k + 1 + i - 1]
      BY <2>2, <3>1
    <3> QED
      BY <3>1, <3>2
  <2> QED
    BY <2>2, <2>4, <2>5
<1>3. DOMAIN r = 1..(Len(seq) - k)
  BY <1>2, LenProperties
<1> HIDE DEF r
<1>4. \A i \in DOMAIN r : /\ k + i \in DOMAIN seq /\ k + i \notin 1..k
                           /\ r[i] = seq[k + i]
  BY <1>1, <1>2, <1>3
<1>5. \A j \in DOMAIN seq \ (1..k) : j - k \in DOMAIN r /\ r[j - k] = seq[j]
  BY <1>1, <1>2, <1>3
<1>6. \A i \in 1..k : i \in DOMAIN seq
  BY <1>1
<1>7. ToSet(r) = ToSet(seq) \ {seq[i] : i \in 1..k}
  <2>1. ASSUME NEW e \in ToSet(r)
        PROVE  e \in ToSet(seq) /\ e \notin {seq[i] : i \in 1..k}
    <3>1. PICK i \in DOMAIN r : e = r[i]
      BY DEF ToSet
    <3>2. k + i \in DOMAIN seq /\ k + i \notin 1..k /\ e = seq[k + i]
      BY <1>4, <3>1
    <3> QED
      BY <1>6, <3>2 DEF ToSet, IsInjective
  <2>2. ASSUME NEW e \in ToSet(seq), e \notin {seq[i] : i \in 1..k}
        PROVE  e \in ToSet(r)
    <3>1. PICK j \in DOMAIN seq : e = seq[j]
      BY DEF ToSet
    <3>2. j \notin 1..k
      BY <2>2, <3>1
    <3>3. j - k \in DOMAIN r /\ r[j - k] = e
      BY <1>5, <3>1, <3>2
    <3> QED
      BY <3>3 DEF ToSet
  <2> QED
    BY <2>1, <2>2
<1>8. IsInjective(r)
  <2> SUFFICES ASSUME NEW a \in DOMAIN r, NEW b \in DOMAIN r, r[a] = r[b]
               PROVE  a = b
    BY DEF IsInjective
  <2>1. k + a = k + b
    BY <1>4 DEF IsInjective
  <2> QED
    BY <1>1, <1>3, <2>1
<1> QED
  BY <1>2, <1>7, <1>8 DEF r

-----------------------------------------------------------------------------
(***************************************************************************)
(* Sums.  Running(seq, m, r) says that r holds the sums of seq up to each  *)
(* of 0..m.                                                                *)
(***************************************************************************)
Running(seq, m, r) ==
  r = [n \in 0..m |-> IF n = 0 THEN 0 ELSE r[n - 1] + seq[n]]

\* There is such an r: the least m without one would have a predecessor with one.
LEMMA RunningExists ==
  ASSUME NEW seq \in Seq(Nat), NEW m \in 0..Len(seq)
  PROVE  \E r : Running(seq, m, r)
<1> DEFINE Bad == {n \in Nat : n <= Len(seq) /\ ~\E r : Running(seq, n, r)}
<1>0. Len(seq) \in Nat /\ m \in Nat /\ m <= Len(seq)
  BY LenProperties
<1> SUFFICES ASSUME m \in Bad
             PROVE  FALSE
  BY <1>0
<1>1. PICK n \in Bad : \A k \in Bad : n <= k
  <2>1. Bad \subseteq Nat /\ Bad # {}
    OBVIOUS
  <2> HIDE DEF Bad
  <2> QED
    BY <2>1, LeastNumber
<1>2. n \in Nat /\ n <= Len(seq) /\ ~\E r : Running(seq, n, r)
  OBVIOUS
<1>3. n # 0
  <2> DEFINE r == [k \in 0..0 |-> 0]
  <2>1. Running(seq, 0, r)
    <3>1. \A k \in 0..0 : k = 0
      OBVIOUS
    <3> QED
      BY <3>1 DEF Running
  <2> QED
    BY <1>2, <2>1
<1>4. n - 1 \in Nat /\ n - 1 <= Len(seq) /\ n - 1 \notin Bad
  <2>1. n - 1 \in Nat /\ n - 1 <= Len(seq) /\ ~(n <= n - 1)
    BY <1>0, <1>2, <1>3
  <2> QED
    BY <1>1, <2>1
<1>5. PICK q : Running(seq, n - 1, q)
  BY <1>4
<1> DEFINE r == [k \in 0..n |-> IF k = n THEN q[n - 1] + seq[n] ELSE q[k]]
<1>6. Running(seq, n, r)
  <2>1. ASSUME NEW k \in 0..n
        PROVE  r[k] = IF k = 0 THEN 0 ELSE r[k - 1] + seq[k]
    <3>1. CASE k = n
      <4>1. r[k] = q[n - 1] + seq[n] /\ k - 1 \in 0..n /\ k - 1 # n
        BY <1>2, <1>3, <3>1
      <4> QED
        BY <1>3, <3>1, <4>1
    <3>2. CASE k # n
      <4>1. k \in 0..(n - 1)
        BY <1>2, <3>2
      <4>2. q[k] = IF k = 0 THEN 0 ELSE q[k - 1] + seq[k]
        BY <1>5, <4>1 DEF Running
      <4>3. r[k] = q[k] /\ (k # 0 => r[k - 1] = q[k - 1])
        BY <1>2, <3>2
      <4> QED
        BY <4>2, <4>3
    <3> QED
      BY <3>1, <3>2
  <2> QED
    BY <2>1 DEF Running
<1> QED
  BY <1>2, <1>6

\* The function Sum chooses holds the running sums.
LEMMA SumRuns ==
  ASSUME NEW seq \in Seq(Nat)
  PROVE  \E r : Running(seq, Len(seq), r) /\ Sum(seq) = r[Len(seq)]
<1>1. Len(seq) \in 0..Len(seq)
  BY LenProperties
<1>2. \E r : Running(seq, Len(seq), r)
  BY <1>1, RunningExists
<1> QED
  BY <1>2 DEF Running, Sum

\* Running sums are numbers, and as large as every element before them.
LEMMA RunningType ==
  ASSUME NEW seq \in Seq(Nat), NEW m \in 0..Len(seq), NEW r, Running(seq, m, r),
         NEW n \in 0..m
  PROVE  r[n] \in Nat /\ \A k \in 1..n : seq[k] <= r[n]
<1> DEFINE Good(j) == r[j] \in Nat /\ \A k \in 1..j : seq[k] <= r[j]
           Bad == {j \in Nat : j <= m /\ ~Good(j)}
<1>0. Len(seq) \in Nat /\ m \in Nat /\ m <= Len(seq) /\ \A k \in 1..Len(seq) : seq[k] \in Nat
  BY LenProperties, ElementOfSeq
<1>a. \A k \in 0..m : r[k] = IF k = 0 THEN 0 ELSE r[k - 1] + seq[k]
  BY DEF Running
<1> SUFFICES ASSUME n \in Bad
             PROVE  FALSE
  BY <1>0
<1>1. PICK j \in Bad : \A k \in Bad : j <= k
  <2>1. Bad \subseteq Nat /\ Bad # {}
    OBVIOUS
  <2> HIDE DEF Bad
  <2> QED
    BY <2>1, LeastNumber
<1>2. j \in Nat /\ j <= m /\ ~Good(j)
  OBVIOUS
<1>3. j # 0
  <2>1. r[0] = 0
    BY <1>0, <1>a
  <2> QED
    BY <1>2, <2>1
<1>4. Good(j - 1)
  <2>1. j - 1 \in Nat /\ j - 1 <= m /\ ~(j <= j - 1)
    BY <1>0, <1>2, <1>3
  <2> QED
    BY <1>1, <2>1
<1>5. r[j] = r[j - 1] + seq[j] /\ seq[j] \in Nat
  BY <1>0, <1>2, <1>3, <1>a
<1>6. r[j - 1] \in Nat /\ \A k \in 1..(j - 1) : seq[k] <= r[j - 1]
  BY <1>4
<1>7. ASSUME NEW k \in 1..j
      PROVE  seq[k] <= r[j]
  <2>1. seq[k] \in Nat
    BY <1>0, <1>2
  <2>2. k = j \/ k \in 1..(j - 1)
    BY <1>2
  <2> QED
    BY <1>5, <1>6, <2>1, <2>2
<1> QED
  BY <1>2, <1>5, <1>6, <1>7

\* Two running sums agree as far as the sequences do.
LEMMA RunningAgree ==
  ASSUME NEW s \in Seq(Nat), NEW t \in Seq(Nat), NEW m \in Nat,
         m <= Len(s), m <= Len(t), \A k \in 1..m : s[k] = t[k],
         NEW p, Running(s, Len(s), p), NEW q, Running(t, Len(t), q)
  PROVE  p[m] = q[m]
<1> DEFINE Bad == {j \in Nat : j <= m /\ p[j] # q[j]}
<1>0. Len(s) \in Nat /\ Len(t) \in Nat
  BY LenProperties
<1>a. \A k \in 0..m : /\ p[k] = IF k = 0 THEN 0 ELSE p[k - 1] + s[k]
                      /\ q[k] = IF k = 0 THEN 0 ELSE q[k - 1] + t[k]
  <2>1. \A k \in 0..m : k \in 0..Len(s) /\ k \in 0..Len(t)
    BY <1>0
  <2> QED
    BY <2>1 DEF Running
<1> SUFFICES ASSUME m \in Bad
             PROVE  FALSE
  OBVIOUS
<1>1. PICK j \in Bad : \A k \in Bad : j <= k
  <2>1. Bad \subseteq Nat /\ Bad # {}
    OBVIOUS
  <2> HIDE DEF Bad
  <2> QED
    BY <2>1, LeastNumber
<1>2. j \in Nat /\ j <= m /\ p[j] # q[j]
  OBVIOUS
<1>3. j # 0
  BY <1>2, <1>a
<1>4. p[j - 1] = q[j - 1]
  <2>1. j - 1 \in Nat /\ j - 1 <= m /\ ~(j <= j - 1)
    BY <1>2, <1>3
  <2> QED
    BY <1>1, <2>1
<1>5. j \in 1..m /\ j \in 0..m
  BY <1>2, <1>3
<1> QED
  BY <1>2, <1>3, <1>4, <1>5, <1>a

\* A sum is a number, at least each of its terms.
LEMMA SumType ==
  ASSUME NEW seq \in Seq(Nat)
  PROVE  Sum(seq) \in Nat /\ \A k \in 1..Len(seq) : seq[k] <= Sum(seq)
<1>1. Len(seq) \in 0..Len(seq)
  BY LenProperties
<1>2. PICK r : Running(seq, Len(seq), r) /\ Sum(seq) = r[Len(seq)]
  BY SumRuns
<1> QED
  BY <1>1, <1>2, RunningType

LEMMA SumEmpty ==
  ASSUME NEW seq \in Seq(Nat), Len(seq) = 0
  PROVE  Sum(seq) = 0
<1>1. PICK r : Running(seq, Len(seq), r) /\ Sum(seq) = r[Len(seq)]
  BY SumRuns
<1> QED
  BY <1>1 DEF Running

\* One more term.
LEMMA SumAppend ==
  ASSUME NEW seq \in Seq(Nat), NEW e \in Nat
  PROVE  Sum(Append(seq, e)) = Sum(seq) + e
<1> DEFINE a == Append(seq, e)
<1>0. Len(seq) \in Nat
  BY LenProperties
<1>1. /\ a \in Seq(Nat) /\ Len(a) = Len(seq) + 1
      /\ \A k \in 1..Len(seq) : a[k] = seq[k]
      /\ a[Len(seq) + 1] = e
  BY AppendProperties
<1> HIDE DEF a
<1>2. PICK r : Running(seq, Len(seq), r) /\ Sum(seq) = r[Len(seq)]
  BY SumRuns
<1>3. PICK q : Running(a, Len(a), q) /\ Sum(a) = q[Len(a)]
  BY <1>1, SumRuns
<1>4. r[Len(seq)] = q[Len(seq)]
  <2>1. Len(seq) <= Len(seq) /\ Len(seq) <= Len(a)
    BY <1>0, <1>1
  <2>2. \A k \in 1..Len(seq) : seq[k] = a[k]
    BY <1>1
  <2>3. a \in Seq(Nat) /\ Running(seq, Len(seq), r) /\ Running(a, Len(a), q)
    BY <1>1, <1>2, <1>3
  <2>4. ASSUME NEW m \in Nat, m <= Len(seq), m <= Len(a), \A k \in 1..m : seq[k] = a[k]
        PROVE  r[m] = q[m]
    BY <2>3, <2>4, RunningAgree, SMTT(60)
  <2> QED
    BY <1>0, <2>1, <2>2, <2>4
<1>5. q[Len(a)] = q[Len(seq)] + a[Len(a)]
  <2>1. Len(a) \in 0..Len(a) /\ Len(a) # 0 /\ Len(a) - 1 = Len(seq)
    BY <1>0, <1>1
  <2> QED
    BY <1>3, <2>1 DEF Running
<1> QED
  BY <1>1, <1>2, <1>3, <1>4, <1>5 DEF a

\* A sum of zeros.
LEMMA SumZeros ==
  ASSUME NEW seq \in Seq(Nat), \A k \in 1..Len(seq) : seq[k] = 0
  PROVE  Sum(seq) = 0
<1>0. Len(seq) \in Nat
  BY LenProperties
<1>1. PICK r : Running(seq, Len(seq), r) /\ Sum(seq) = r[Len(seq)]
  BY SumRuns
<1> DEFINE Bad == {j \in Nat : j <= Len(seq) /\ r[j] # 0}
<1>a. \A k \in 0..Len(seq) : r[k] = IF k = 0 THEN 0 ELSE r[k - 1] + seq[k]
  BY <1>1 DEF Running
<1> SUFFICES ASSUME Len(seq) \in Bad
             PROVE  FALSE
  BY <1>0, <1>1
<1>2. PICK j \in Bad : \A k \in Bad : j <= k
  <2>1. Bad \subseteq Nat /\ Bad # {}
    OBVIOUS
  <2> HIDE DEF Bad
  <2> QED
    BY <2>1, LeastNumber
<1>3. j \in Nat /\ j <= Len(seq) /\ r[j] # 0
  OBVIOUS
<1>4. j # 0
  BY <1>0, <1>3, <1>a
<1>5. r[j - 1] = 0
  <2>1. j - 1 \in Nat /\ j - 1 <= Len(seq) /\ ~(j <= j - 1)
    BY <1>0, <1>3, <1>4
  <2> QED
    BY <1>2, <2>1
<1>6. j \in 1..Len(seq) /\ j \in 0..Len(seq)
  BY <1>0, <1>3, <1>4
<1>7. seq[j] = 0
  BY <1>6
<1> QED
  BY <1>3, <1>4, <1>5, <1>6, <1>7, <1>a
=============================================================================
