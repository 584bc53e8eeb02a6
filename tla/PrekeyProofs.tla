---------------------------- MODULE PrekeyProofs ----------------------------
(***************************************************************************)
(* Proofs about PrekeyStore: pools and limiter state are bounded, every    *)
(* admitted entry has one holder, and claims drain a pool no faster than   *)
(* its token bucket refills.                                               *)
(***************************************************************************)
EXTENDS PrekeyStore, SliceProofs

(***************************************************************************)
(* The parts of the inductive invariant about a record p of the store's    *)
(* maps.                                                                   *)
(***************************************************************************)
Entry == [id : OpkIDs, publishedAt : 1..Horizon]

Full == ClaimBurst * ClaimRefill

IsPool(q) ==
  /\ q \in Seq(Entry) /\ Len(q) <= MaxPerRecipient
  /\ \A i, j \in DOMAIN q : q[i].id = q[j].id => i = j

Has(q, id) == \E i \in DOMAIN q : q[i].id = id

IsStore(p) ==
  /\ p = [queues |-> p.queues, lastResort |-> p.lastResort, tokens |-> p.tokens]
  /\ \A k \in DOMAIN p.queues : IsPool(p.queues[k]) /\ p.queues[k] # <<>>
  /\ \A k \in DOMAIN p.lastResort : p.lastResort[k] \in 1..Horizon
  /\ \A k \in DOMAIN p.tokens : p.tokens[k] \in [credit : 0..Full, lastRefill : Nat]
  /\ Buckets(p) \cup DOMAIN p.tokens \subseteq BucketKeys
  /\ IsFiniteSet(Buckets(p)) /\ Cardinality(Buckets(p)) <= MaxBuckets

-----------------------------------------------------------------------------
(***************************************************************************)
(* What the methods do to one pool.                                        *)
(***************************************************************************)
\* An element of a pool.
LEMMA PoolParts ==
  ASSUME NEW q, IsPool(q)
  PROVE  /\ Len(q) \in Nat /\ DOMAIN q = 1..Len(q)
         /\ \A i \in DOMAIN q : q[i] \in Entry /\ q[i].id \in OpkIDs /\ q[i].publishedAt \in 1..Horizon
<1>1. q \in Seq(Entry)
  BY DEF IsPool
<1>2. /\ Len(q) \in Nat /\ DOMAIN q = 1..Len(q)
      /\ \A i \in DOMAIN q : q[i] \in Entry
  BY <1>1, LenProperties, ElementOfSeq
<1> QED
  BY <1>2 DEF Entry

LEMMA EmptyPool == IsPool(<<>>) /\ \A id : ~Has(<<>>, id)
<1>1. <<>> \in Seq(Entry) /\ Len(<<>>) = 0 /\ DOMAIN <<>> = {}
  OBVIOUS
<1> QED
  BY <1>1, PrekeyConstants DEF IsPool, Has

\* A sweep of one pool keeps the entries whose time is not up.
LEMMA FreshPool ==
  ASSUME NEW q, IsPool(q), NEW t
  PROVE  LET f == FreshOf(q, t)
         IN  /\ IsPool(f)
             /\ \A id : Has(f, id) <=>
                  \E i \in DOMAIN q : q[i].id = id /\ Fresh(q[i].publishedAt, t)
<1> DEFINE I == {i \in DOMAIN q : Fresh(q[i].publishedAt, t)}
           f == Picked(q, I)
<1>0. Len(q) \in Nat /\ q \in Seq(Entry) /\ I \subseteq DOMAIN q /\ Len(q) <= MaxPerRecipient
  BY PoolParts DEF IsPool
<1>1. f = FreshOf(q, t) /\ \A i \in DOMAIN q : i \in I <=> Fresh(q[i].publishedAt, t)
  BY DEF FreshOf
<1> HIDE DEF I
<1>2. /\ Cardinality(I) \in Nat /\ Cardinality(I) <= Len(q)
      /\ f \in Seq(Entry) /\ Len(f) = Cardinality(I) /\ DOMAIN f = 1..Cardinality(I)
      /\ \A n \in 1..Cardinality(I) : \E i \in I : Place(I, i) = n /\ f[n] = q[i]
      /\ \A i \in I : Place(I, i) \in 1..Cardinality(I) /\ f[Place(I, i)] = q[i]
  BY <1>0, PickedPlaces
<1> HIDE DEF f
<1>3. Len(f) <= MaxPerRecipient
  <2>1. Cardinality(I) <= MaxPerRecipient
    BY <1>0, <1>2, PrekeyConstants
  <2> QED
    BY <1>2, <2>1
<1>4. ASSUME NEW m \in DOMAIN f, NEW n \in DOMAIN f, f[m].id = f[n].id
      PROVE  m = n
  <2>1. PICK a \in I : Place(I, a) = m /\ f[m] = q[a]
    BY <1>2
  <2>2. PICK b \in I : Place(I, b) = n /\ f[n] = q[b]
    BY <1>2
  <2>3. a = b
    BY <1>0, <1>4, <2>1, <2>2 DEF IsPool
  <2> QED
    BY <2>1, <2>2, <2>3
<1>5. ASSUME NEW id
      PROVE  Has(f, id) <=> \E i \in DOMAIN q : q[i].id = id /\ Fresh(q[i].publishedAt, t)
  BY <1>0, <1>1, <1>2 DEF Has
<1> QED
  BY <1>1, <1>2, <1>3, <1>4, <1>5 DEF IsPool

\* Popping the head of a pool takes that id and no other.
LEMMA TailPool ==
  ASSUME NEW q, IsPool(q), q # <<>>
  PROVE  /\ IsPool(Tail(q)) /\ Head(q).id \in OpkIDs /\ Has(q, Head(q).id)
         /\ \A id : Has(Tail(q), id) <=> Has(q, id) /\ id # Head(q).id
<1>0. Len(q) \in Nat /\ DOMAIN q = 1..Len(q) /\ q \in Seq(Entry) /\ Len(q) <= MaxPerRecipient
  BY PoolParts DEF IsPool
<1> DEFINE r == Tail(q)
<1>1. Len(q) # 0
  BY <1>0, EmptySeq
<1>2. /\ r \in Seq(Entry) /\ Len(r) = Len(q) - 1 /\ Head(q) = q[1]
      /\ \A i \in 1..Len(r) : r[i] = q[i + 1]
  BY <1>0, <1>1, HeadTailProperties
<1>3. DOMAIN r = 1..Len(r) /\ Len(r) \in Nat
  BY <1>2, LenProperties
<1> HIDE DEF r
<1>4. /\ 1 \in 1..Len(q) /\ \A i \in 1..Len(r) : i + 1 \in 1..Len(q) /\ i + 1 # 1 /\ i \in Nat
      /\ \A i \in 1..Len(q) : i # 1 => i - 1 \in 1..Len(r) /\ (i - 1) + 1 = i
  BY <1>0, <1>1, <1>2
<1>5. 1 \in DOMAIN q /\ Head(q).id \in OpkIDs /\ Has(q, Head(q).id)
  BY <1>0, <1>2, <1>4, PoolParts DEF Has
<1>6. Len(r) <= MaxPerRecipient
  BY <1>0, <1>2, PrekeyConstants
<1>7. ASSUME NEW i \in DOMAIN r, NEW j \in DOMAIN r, r[i].id = r[j].id
      PROVE  i = j
  <2>1. i + 1 = j + 1
    BY <1>0, <1>2, <1>3, <1>4, <1>7 DEF IsPool
  <2>2. i \in Nat /\ j \in Nat
    BY <1>3, <1>4
  <2> QED
    BY <2>1, <2>2
<1>8. ASSUME NEW id
      PROVE  Has(r, id) <=> Has(q, id) /\ id # Head(q).id
  <2>1. ASSUME Has(r, id)
        PROVE  Has(q, id) /\ id # Head(q).id
    <3>1. PICK i \in 1..Len(r) : r[i].id = id
      BY <1>3, <2>1 DEF Has
    <3>2. i + 1 \in DOMAIN q /\ q[i + 1].id = id /\ i + 1 # 1
      BY <1>0, <1>2, <1>4, <3>1
    <3> QED
      BY <1>2, <1>5, <3>2 DEF Has, IsPool
  <2>2. ASSUME Has(q, id), id # Head(q).id
        PROVE  Has(r, id)
    <3>1. PICK i \in 1..Len(q) : q[i].id = id
      BY <1>0, <2>2 DEF Has
    <3>2. i # 1
      BY <1>2, <2>2, <3>1
    <3>3. i - 1 \in DOMAIN r /\ r[i - 1] = q[i]
      BY <1>2, <1>3, <1>4, <3>2
    <3> QED
      BY <3>1, <3>3 DEF Has
  <2> QED
    BY <2>1, <2>2
<1>9. IsPool(r)
  BY <1>2, <1>6, <1>7 DEF IsPool
<1> QED
  BY <1>5, <1>8, <1>9 DEF r
\* No more than `room` numbers of a set come first.
LEMMA FirstFew ==
  ASSUME NEW m \in Nat, NEW I, I \subseteq 1..m, NEW room \in Nat
  PROVE  Cardinality({i \in I : Place(I, i) <= room}) <= room
<1> DEFINE T == {i \in I : Place(I, i) <= room}
<1>1. IsFiniteSet(1..m) /\ T \subseteq I
  BY FS_Interval
<1>2. IsFiniteSet(I) /\ IsFiniteSet(T)
  BY <1>1, FS_Subset
<1>3. Cardinality(T) \in Nat
  BY <1>2, FS_CardinalityType
<1>4. CASE Cardinality(T) = 0
  BY <1>4
<1>5. CASE Cardinality(T) # 0
  <2>0. T \subseteq 1..m
    BY <1>1
  <2> HIDE DEF T
  <2>1. Cardinality(T) \in 1..Cardinality(T)
    BY <1>3, <1>5
  <2>2. PICK i \in T : Place(T, i) = Cardinality(T)
    BY <2>0, <2>1, PlaceTaken
  <2> DEFINE J == {j \in T : j <= i}
             K == {j \in I : j <= i}
  <2>3. J \subseteq K /\ IsFiniteSet(K)
    BY <1>1, <1>2, FS_Subset
  <2>4. Cardinality(J) <= Cardinality(K) /\ Cardinality(J) \in Nat /\ Cardinality(K) \in Nat
    BY <2>3, FS_Subset, FS_CardinalityType
  <2>5. Cardinality(J) = Cardinality(T) /\ Cardinality(K) = Place(I, i)
    BY <2>2 DEF Place
  <2>6. Place(I, i) <= room
    BY DEF T
  <2> HIDE DEF J, K
  <2>7. Cardinality(T) <= room
    BY <2>4, <2>5, <2>6
  <2> QED
    BY <2>7 DEF T
<1> QED
  BY <1>4, <1>5

\* A publish adds entries that are new to the pool, up to its cap.
LEMMA ReplenishedPool ==
  ASSUME NEW q, IsPool(q), NEW entries \in Seq(OpkIDs \cup {Incomplete}), NEW t \in 1..Horizon
  PROVE  LET r == Replenished(q, entries, t)
         IN  IsPool(r) /\ (q # <<>> => r # <<>>)
<1> DEFINE new == Admissible(q, entries)
           taken == {i \in new : Len(q) + Place(new, i) <= MaxPerRecipient}
           es == [i \in DOMAIN entries |-> [id |-> entries[i], publishedAt |-> t]]
           x == Picked(es, taken)
           r == q \o x
           S == [id : OpkIDs \cup {Incomplete}, publishedAt : 1..Horizon]
<1>0. /\ Len(q) \in Nat /\ DOMAIN q = 1..Len(q) /\ q \in Seq(Entry) /\ Len(q) <= MaxPerRecipient
      /\ Len(entries) \in Nat /\ DOMAIN entries = 1..Len(entries)
      /\ \A i \in DOMAIN entries : entries[i] \in OpkIDs \cup {Incomplete}
  BY PoolParts, LenProperties, ElementOfSeq DEF IsPool
<1>1. r = Replenished(q, entries, t)
  BY DEF Replenished
<1>2. /\ new \subseteq 1..Len(entries)
      /\ \A i \in new : /\ entries[i] # Incomplete
                        /\ \A j \in DOMAIN q : q[j].id # entries[i]
                        /\ \A j \in 1..(i - 1) : entries[j] # entries[i]
  BY <1>0 DEF Admissible
<1> HIDE DEF new
<1>3. taken \subseteq 1..Len(entries) /\ taken \subseteq new
  BY <1>2
<1>4. /\ DOMAIN es = 1..Len(entries)
      /\ \A i \in DOMAIN es : es[i] \in S /\ es[i].id = entries[i] /\ es[i].publishedAt = t
      /\ es \in Seq(S)
  <2>1. DOMAIN es = 1..Len(entries) /\ es \in [1..Len(entries) -> S]
    BY <1>0
  <2>2. \A i \in DOMAIN es : es[i] \in S /\ es[i].id = entries[i] /\ es[i].publishedAt = t
    BY <1>0
  <2> HIDE DEF es, S
  <2>3. es \in Seq(S)
    BY <1>0, <2>1
  <2> QED
    BY <2>1, <2>2, <2>3
<1>5. Cardinality(taken) <= MaxPerRecipient - Len(q)
  <2> DEFINE room == MaxPerRecipient - Len(q)
             few == {i \in new : Place(new, i) <= room}
  <2>1. room \in Nat
    BY <1>0, PrekeyConstants
  <2>2. \A i \in new : Place(new, i) \in Nat
    <3>1. new \subseteq Int /\ IsFiniteSet(new) /\ Cardinality(new) \in Nat
      <4>1. IsFiniteSet(1..Len(entries))
        BY <1>0, FS_Interval
      <4>2. IsFiniteSet(new)
        BY <1>2, <4>1, FS_Subset
      <4> QED
        BY <1>2, <4>2, FS_CardinalityType
    <3>2. \A i \in new : Place(new, i) \in 1..Cardinality(new)
      BY <3>1, PlaceRange
    <3> QED
      BY <3>1, <3>2
  <2>3. \A i \in new : Len(q) + Place(new, i) <= MaxPerRecipient <=> Place(new, i) <= room
    BY <1>0, <2>2, PrekeyConstants
  <2>4. taken = few
    BY <2>3
  <2> HIDE DEF room
  <2>5. Cardinality(few) <= room
    BY <1>0, <1>2, <2>1, FirstFew
  <2> QED
    BY <2>4, <2>5 DEF room
<1> HIDE DEF taken, es, S
<1>a. taken \subseteq DOMAIN es /\ es \in Seq(S)
  BY <1>3, <1>4
<1>6. /\ Cardinality(taken) \in Nat /\ x \in Seq(S)
      /\ Len(x) = Cardinality(taken) /\ DOMAIN x = 1..Cardinality(taken)
      /\ \A n \in 1..Cardinality(taken) : \E i \in taken : Place(taken, i) = n /\ x[n] = es[i]
  BY <1>a, PickedPlaces
<1> HIDE DEF x
<1>7. ASSUME NEW n \in 1..Len(x)
      PROVE  \E i \in taken : Place(taken, i) = n /\ x[n] \in Entry /\ x[n].id = entries[i]
  <2>1. PICK i \in taken : Place(taken, i) = n /\ x[n] = es[i]
    BY <1>6
  <2>2. i \in DOMAIN es /\ entries[i] \in OpkIDs
    BY <1>0, <1>2, <1>3, <1>4
  <2>3. es[i] \in Entry
    BY <1>4, <2>2 DEF Entry, S
  <2> QED
    BY <1>4, <2>1, <2>2, <2>3
<1>8. x \in Seq(Entry)
  <2>1. x = [n \in 1..Len(x) |-> x[n]]
    BY <1>6
  <2>2. \A n \in 1..Len(x) : x[n] \in Entry
    BY <1>7
  <2>3. Len(x) \in Nat
    BY <1>6
  <2>4. x \in [1..Len(x) -> Entry]
    BY <2>1, <2>2
  <2> QED
    BY <2>3, <2>4
<1>9. /\ r \in Seq(Entry) /\ Len(r) = Len(q) + Len(x)
      /\ \A i \in 1..(Len(q) + Len(x)) : r[i] = IF i <= Len(q) THEN q[i] ELSE x[i - Len(q)]
  BY <1>0, <1>8, ConcatProperties
<1>10. DOMAIN r = 1..Len(r)
  BY <1>9, LenProperties
<1> HIDE DEF r
<1>11. Len(r) <= MaxPerRecipient
  BY <1>0, <1>5, <1>6, <1>9, PrekeyConstants
<1>12. ASSUME NEW m \in 1..Len(x), NEW n \in 1..Len(x), x[m].id = x[n].id
       PROVE  m = n
  <2>1. PICK a \in taken : Place(taken, a) = m /\ x[m].id = entries[a]
    BY <1>7
  <2>2. PICK b \in taken : Place(taken, b) = n /\ x[n].id = entries[b]
    BY <1>7
  <2>3. a \in Nat /\ b \in Nat /\ a >= 1 /\ b >= 1 /\ a \in new /\ b \in new
    BY <1>0, <1>3
  <2>4. ~(a < b) /\ ~(b < a)
    <3>1. a < b => a \in 1..(b - 1)
      BY <2>3
    <3>2. b < a => b \in 1..(a - 1)
      BY <2>3
    <3>3. entries[a] = entries[b]
      BY <1>12, <2>1, <2>2
    <3> QED
      BY <1>2, <2>3, <3>1, <3>2, <3>3
  <2>5. a = b
    BY <2>3, <2>4
  <2> QED
    BY <2>1, <2>2, <2>5
<1>13. ASSUME NEW i \in 1..Len(q), NEW n \in 1..Len(x)
       PROVE  q[i].id # x[n].id
  <2>1. PICK a \in taken : x[n].id = entries[a]
    BY <1>7
  <2> QED
    BY <1>0, <1>2, <1>3, <2>1
<1>14. ASSUME NEW i \in 1..Len(r)
       PROVE  \/ i \in 1..Len(q) /\ r[i] = q[i]
              \/ i - Len(q) \in 1..Len(x) /\ r[i] = x[i - Len(q)] /\ i = (i - Len(q)) + Len(q)
  <2>1. Len(x) \in Nat
    BY <1>6
  <2>2. i \in 1..(Len(q) + Len(x))
    BY <1>9
  <2>3. CASE i <= Len(q)
    BY <1>0, <1>9, <2>2, <2>3
  <2>4. CASE ~(i <= Len(q))
    BY <1>0, <1>9, <2>1, <2>2, <2>4
  <2> QED
    BY <2>3, <2>4
<1>15. ASSUME NEW i \in DOMAIN r, NEW j \in DOMAIN r, r[i].id = r[j].id
       PROVE  i = j
  <2>1. i \in 1..Len(r) /\ j \in 1..Len(r)
    BY <1>10
  <2>2. CASE i \in 1..Len(q) /\ r[i] = q[i] /\ j \in 1..Len(q) /\ r[j] = q[j]
    BY <1>0, <1>15, <2>2 DEF IsPool
  <2>3. CASE i \in 1..Len(q) /\ r[i] = q[i] /\ j - Len(q) \in 1..Len(x) /\ r[j] = x[j - Len(q)]
    BY <1>13, <1>15, <2>3
  <2>4. CASE j \in 1..Len(q) /\ r[j] = q[j] /\ i - Len(q) \in 1..Len(x) /\ r[i] = x[i - Len(q)]
    BY <1>13, <1>15, <2>4
  <2>5. CASE /\ i - Len(q) \in 1..Len(x) /\ r[i] = x[i - Len(q)] /\ i = (i - Len(q)) + Len(q)
             /\ j - Len(q) \in 1..Len(x) /\ r[j] = x[j - Len(q)] /\ j = (j - Len(q)) + Len(q)
    <3>1. i - Len(q) = j - Len(q)
      BY <1>12, <1>15, <2>5
    <3> QED
      BY <2>5, <3>1
  <2> QED
    BY <1>14, <2>1, <2>2, <2>3, <2>4, <2>5
<1>16. ASSUME q # <<>>
       PROVE  r # <<>>
  <2>1. Len(q) # 0
    BY <1>0, <1>16, EmptySeq
  <2>2. Len(r) # 0
    BY <1>0, <1>6, <1>9, <2>1
  <2> QED
    BY <2>2
<1>17. IsPool(r)
  BY <1>9, <1>11, <1>15 DEF IsPool
<1> QED
  BY <1>1, <1>16, <1>17
-----------------------------------------------------------------------------
(***************************************************************************)
(* What the methods do to the store.                                       *)
(***************************************************************************)
\* The pool behind any key is a pool, if an empty one.
LEMMA QueueIsPool ==
  ASSUME NEW p, IsStore(p), NEW k
  PROVE  /\ IsPool(QueueOf(p, k))
         /\ QueueOf(p, k) # <<>> => k \in DOMAIN p.queues
BY EmptyPool DEF QueueOf, IsStore

\* Part of a bounded set of pools is bounded.
LEMMA FewerBuckets ==
  ASSUME NEW S, IsFiniteSet(S), Cardinality(S) <= MaxBuckets, NEW T, T \subseteq S
  PROVE  IsFiniteSet(T) /\ Cardinality(T) <= MaxBuckets
<1>1. IsFiniteSet(T) /\ Cardinality(T) <= Cardinality(S)
  BY FS_Subset
<1>2. Cardinality(T) \in Nat /\ Cardinality(S) \in Nat
  BY <1>1, FS_CardinalityType
<1> QED
  BY <1>1, <1>2, PrekeyConstants

\* A sweep only takes away, and takes the limiter state of pools that are gone.
LEMMA PruneStore ==
  ASSUME NEW p, IsStore(p), NEW t
  PROVE  LET n == pruneLocked(p, t)
         IN  /\ IsStore(n)
             /\ Buckets(n) \subseteq Buckets(p)
             /\ DOMAIN n.tokens = DOMAIN p.tokens \cap Buckets(n)
             /\ \A k \in DOMAIN n.tokens : n.tokens[k] = p.tokens[k]
             /\ \A k : QueueOf(n, k) = IF k \in DOMAIN p.queues THEN FreshOf(p.queues[k], t) ELSE <<>>
<1> DEFINE kept == [k \in DOMAIN p.queues |-> FreshOf(p.queues[k], t)]
           queues == RestrictValues(kept, LAMBDA q : q # <<>>)
           lastResort == RestrictValues(p.lastResort, LAMBDA at : Fresh(at, t))
           tokens == RestrictDomain(p.tokens,
                       LAMBDA k : k \in DOMAIN queues \cup DOMAIN lastResort)
           n == [queues |-> queues, lastResort |-> lastResort, tokens |-> tokens]
<1>1. pruneLocked(p, t) = n
  BY DEF pruneLocked
<1>2. /\ DOMAIN kept = DOMAIN p.queues
      /\ \A k \in DOMAIN kept : kept[k] = FreshOf(p.queues[k], t)
  OBVIOUS
<1> HIDE DEF kept
<1>3. /\ DOMAIN queues = {k \in DOMAIN kept : kept[k] # <<>>}
      /\ \A k \in DOMAIN queues : queues[k] = kept[k]
  BY DEF RestrictValues, Restrict
<1>4. /\ DOMAIN lastResort \subseteq DOMAIN p.lastResort
      /\ \A k \in DOMAIN lastResort : lastResort[k] = p.lastResort[k]
  BY DEF RestrictValues, Restrict
<1>5. /\ DOMAIN tokens = {k \in DOMAIN p.tokens : k \in DOMAIN queues \cup DOMAIN lastResort}
      /\ \A k \in DOMAIN tokens : tokens[k] = p.tokens[k]
  BY DEF RestrictDomain, Restrict
<1> HIDE DEF queues, lastResort, tokens
<1>6. /\ n.queues = queues /\ n.lastResort = lastResort /\ n.tokens = tokens
      /\ n = [queues |-> n.queues, lastResort |-> n.lastResort, tokens |-> n.tokens]
  OBVIOUS
<1> HIDE DEF n
<1>7. Buckets(n) = DOMAIN queues \cup DOMAIN lastResort /\ Buckets(n) \subseteq Buckets(p)
  BY <1>2, <1>3, <1>4, <1>6 DEF Buckets
<1>8. DOMAIN n.tokens = DOMAIN p.tokens \cap Buckets(n)
  BY <1>5, <1>6, <1>7
<1>9. ASSUME NEW k
      PROVE  QueueOf(n, k) = IF k \in DOMAIN p.queues THEN FreshOf(p.queues[k], t) ELSE <<>>
  BY <1>2, <1>3, <1>6 DEF QueueOf
<1>10. IsStore(n)
  <2>1. ASSUME NEW k \in DOMAIN n.queues
        PROVE  IsPool(n.queues[k]) /\ n.queues[k] # <<>>
    <3>1. k \in DOMAIN p.queues /\ n.queues[k] = FreshOf(p.queues[k], t) /\ n.queues[k] # <<>>
      BY <1>2, <1>3, <1>6
    <3>2. IsPool(p.queues[k])
      BY <3>1 DEF IsStore
    <3>3. IsPool(FreshOf(p.queues[k], t))
      BY <3>2, FreshPool
    <3> QED
      BY <3>1, <3>3
  <2>2. \A k \in DOMAIN n.lastResort : n.lastResort[k] \in 1..Horizon
    BY <1>4, <1>6 DEF IsStore
  <2>3. \A k \in DOMAIN n.tokens : n.tokens[k] \in [credit : 0..Full, lastRefill : Nat]
    BY <1>5, <1>6 DEF IsStore
  <2>4. Buckets(n) \cup DOMAIN n.tokens \subseteq BucketKeys
    BY <1>7, <1>8 DEF IsStore
  <2>5. IsFiniteSet(Buckets(n)) /\ Cardinality(Buckets(n)) <= MaxBuckets
    BY <1>7, FewerBuckets DEF IsStore
  <2> QED
    BY <1>6, <2>1, <2>2, <2>3, <2>4, <2>5 DEF IsStore
<1> QED
  BY <1>1, <1>5, <1>6, <1>7, <1>8, <1>9, <1>10

\* Writing one pool back leaves the others, and an empty one is not kept.
LEMMA SetQueueStore ==
  ASSUME NEW p, IsStore(p), NEW key \in BucketKeys, NEW queue, IsPool(queue),
         IsFiniteSet(Buckets(p) \cup {key}), Cardinality(Buckets(p) \cup {key}) <= MaxBuckets
  PROVE  LET n == SetQueue(p, key, queue)
         IN  /\ IsStore(n)
             /\ n.tokens = p.tokens /\ n.lastResort = p.lastResort
             /\ QueueOf(n, key) = queue
             /\ \A k : k # key => QueueOf(n, k) = QueueOf(p, k)
             /\ Buckets(n) \subseteq Buckets(p) \cup {key}
             /\ Buckets(p) \ {key} \subseteq Buckets(n)
             /\ queue # <<>> => key \in Buckets(n)
             /\ key \in DOMAIN p.lastResort => key \in Buckets(n)
<1> DEFINE queues == IF queue = <<>> THEN Restrict(p.queues, DOMAIN p.queues \ {key})
                     ELSE Put(p.queues, key, queue)
           n == [queues |-> queues, lastResort |-> p.lastResort, tokens |-> p.tokens]
<1>1. SetQueue(p, key, queue) = n
  <2>1. SetQueue(p, key, queue) = [p EXCEPT !.queues = queues]
    BY DEF SetQueue
  <2>2. p = [queues |-> p.queues, lastResort |-> p.lastResort, tokens |-> p.tokens]
    BY DEF IsStore
  <2> HIDE DEF queues
  <2> QED
    BY <2>1, <2>2
<1>2. /\ DOMAIN queues = IF queue = <<>> THEN DOMAIN p.queues \ {key} ELSE DOMAIN p.queues \cup {key}
      /\ \A k \in DOMAIN queues : queues[k] = IF k = key THEN queue ELSE p.queues[k]
  <2>1. CASE queue = <<>>
    BY <2>1 DEF Restrict
  <2>2. CASE queue # <<>>
    BY <2>2 DEF Put
  <2> QED
    BY <2>1, <2>2
<1> HIDE DEF queues
<1>3. /\ n.queues = queues /\ n.lastResort = p.lastResort /\ n.tokens = p.tokens
      /\ n = [queues |-> n.queues, lastResort |-> n.lastResort, tokens |-> n.tokens]
  OBVIOUS
<1> HIDE DEF n
<1>4. /\ QueueOf(n, key) = queue
      /\ \A k : k # key => QueueOf(n, k) = QueueOf(p, k)
  BY <1>2, <1>3 DEF QueueOf
<1>5. /\ Buckets(n) \subseteq Buckets(p) \cup {key} /\ Buckets(p) \ {key} \subseteq Buckets(n)
      /\ queue # <<>> => key \in Buckets(n)
      /\ key \in DOMAIN p.lastResort => key \in Buckets(n)
  BY <1>2, <1>3 DEF Buckets
<1>6. IsStore(n)
  <2>1. ASSUME NEW k \in DOMAIN n.queues
        PROVE  IsPool(n.queues[k]) /\ n.queues[k] # <<>>
    BY <1>2, <1>3 DEF IsStore
  <2>2. Buckets(n) \cup DOMAIN n.tokens \subseteq BucketKeys
    BY <1>3, <1>5 DEF IsStore
  <2>3. IsFiniteSet(Buckets(n)) /\ Cardinality(Buckets(n)) <= MaxBuckets
    BY <1>5, FewerBuckets
  <2>4. /\ \A k \in DOMAIN n.lastResort : n.lastResort[k] \in 1..Horizon
        /\ \A k \in DOMAIN n.tokens : n.tokens[k] \in [credit : 0..Full, lastRefill : Nat]
    BY <1>3 DEF IsStore
  <2> QED
    BY <1>3, <2>1, <2>2, <2>3, <2>4 DEF IsStore
<1> QED
  BY <1>1, <1>3, <1>4, <1>5, <1>6

\* A publish that is not refused touches one pool and no limiter state.
LEMMA PublishedStore ==
  ASSUME NEW p, IsStore(p), NEW key \in BucketKeys, ~bucketsFull(p, key),
         NEW value \in Publications, NEW t \in 1..Horizon
  PROVE  LET n == Published(p, key, value, t)
         IN  /\ IsStore(n)
             /\ n.tokens = p.tokens
             /\ \A k : k # key => QueueOf(n, k) = QueueOf(p, k)
             /\ Buckets(n) \subseteq Buckets(p) \cup {key}
             /\ Buckets(p) \subseteq Buckets(n)
<1> DEFINE old == QueueOf(p, key)
           queue == Replenished(old, value.entries, t)
           filled == SetQueue(p, key, queue)
           n == [queues |-> filled.queues, lastResort |-> Put(filled.lastResort, key, t),
                 tokens |-> filled.tokens]
<1>1. IsPool(old) /\ IsPool(queue) /\ (old # <<>> => queue # <<>>)
  <2>1. IsPool(old)
    BY QueueIsPool
  <2>2. value.entries \in Seq(OpkIDs \cup {Incomplete})
    BY PrekeyConstants
  <2> HIDE DEF old
  <2> QED
    BY <2>1, <2>2, ReplenishedPool
<1>2. IsFiniteSet(Buckets(p) \cup {key}) /\ Cardinality(Buckets(p) \cup {key}) <= MaxBuckets
  <2>1. IsFiniteSet(Buckets(p)) /\ Cardinality(Buckets(p)) <= MaxBuckets
    BY DEF IsStore
  <2>2. CASE key \in Buckets(p)
    <3>1. Buckets(p) \cup {key} = Buckets(p)
      BY <2>2
    <3> QED
      BY <2>1, <3>1
  <2>3. CASE key \notin Buckets(p)
    <3>1. /\ IsFiniteSet(Buckets(p) \cup {key})
          /\ Cardinality(Buckets(p) \cup {key}) = Cardinality(Buckets(p)) + 1
      BY <2>1, <2>3, FS_AddElement
    <3>2. Cardinality(Buckets(p)) \in Nat
      BY <2>1, FS_CardinalityType
    <3>3. ~(Cardinality(Buckets(p)) >= MaxBuckets)
      BY <2>3 DEF bucketsFull
    <3> QED
      BY <3>1, <3>2, <3>3, PrekeyConstants
  <2> QED
    BY <2>2, <2>3
<1> HIDE DEF queue
<1>3. /\ IsStore(filled)
      /\ filled.tokens = p.tokens /\ filled.lastResort = p.lastResort
      /\ \A k : k # key => QueueOf(filled, k) = QueueOf(p, k)
      /\ Buckets(filled) \subseteq Buckets(p) \cup {key}
      /\ Buckets(p) \ {key} \subseteq Buckets(filled)
      /\ queue # <<>> => key \in Buckets(filled)
      /\ key \in DOMAIN p.lastResort => key \in Buckets(filled)
  BY <1>1, <1>2, SetQueueStore
<1>4. key \in Buckets(p) => key \in Buckets(filled)
  <2>1. CASE key \in DOMAIN p.lastResort
    BY <1>3, <2>1
  <2>2. CASE key \in DOMAIN p.queues
    <3>1. old # <<>>
      BY <2>2 DEF IsStore, QueueOf
    <3> QED
      BY <1>1, <1>3, <3>1
  <2> QED
    BY <2>1, <2>2 DEF Buckets
<1>5. Buckets(p) \subseteq Buckets(filled)
  BY <1>3, <1>4
<1>6. Published(p, key, value, t) = IF value.lastResort THEN [filled EXCEPT !.lastResort = Put(@, key, t)]
                                    ELSE filled
  BY DEF Published, queue
<1> HIDE DEF filled, old
<1>7. CASE value.lastResort
  <2>1. Published(p, key, value, t) = n
    <3>1. filled = [queues |-> filled.queues, lastResort |-> filled.lastResort, tokens |-> filled.tokens]
      BY <1>3 DEF IsStore
    <3>2. Published(p, key, value, t) = [filled EXCEPT !.lastResort = Put(filled.lastResort, key, t)]
      BY <1>6, <1>7
    <3> QED
      BY <3>1, <3>2
  <2> DEFINE m == Put(filled.lastResort, key, t)
  <2>2. /\ DOMAIN m = DOMAIN filled.lastResort \cup {key} /\ m[key] = t
        /\ \A k \in DOMAIN filled.lastResort : k # key => m[k] = filled.lastResort[k]
    BY DEF Put
  <2> HIDE DEF m
  <2>3. /\ n.queues = filled.queues /\ n.lastResort = m /\ n.tokens = filled.tokens
        /\ n = [queues |-> n.queues, lastResort |-> n.lastResort, tokens |-> n.tokens]
    BY DEF m
  <2> HIDE DEF n
  <2>4. Buckets(n) = Buckets(filled) \cup {key}
    BY <2>2, <2>3 DEF Buckets
  <2>5. Buckets(n) \subseteq Buckets(p) \cup {key} /\ Buckets(p) \subseteq Buckets(n)
    BY <1>3, <1>5, <2>4
  <2>6. IsFiniteSet(Buckets(n)) /\ Cardinality(Buckets(n)) <= MaxBuckets
    BY <1>2, <2>5, FewerBuckets
  <2>7. \A k \in DOMAIN n.lastResort : n.lastResort[k] \in 1..Horizon
    BY <1>3, <2>2, <2>3 DEF IsStore
  <2>8. Buckets(n) \cup DOMAIN n.tokens \subseteq BucketKeys
    BY <1>3, <2>3, <2>4 DEF IsStore
  <2>9. IsStore(n)
    BY <1>3, <2>3, <2>6, <2>7, <2>8 DEF IsStore
  <2>10. \A k : k # key => QueueOf(n, k) = QueueOf(p, k)
    BY <1>3, <2>3 DEF QueueOf
  <2> QED
    BY <1>3, <2>1, <2>3, <2>5, <2>9, <2>10
<1>8. CASE ~value.lastResort
  BY <1>3, <1>5, <1>6, <1>8
<1> QED
  BY <1>7, <1>8
-----------------------------------------------------------------------------
(***************************************************************************)
(* The inductive invariant.  history is what the store cannot remember:    *)
(* every admission is in the pool, was issued, or lapsed (Booked), and     *)
(* what was claimed plus the credit left never exceeds a full bucket plus  *)
(* the time it was refilled for (Throttled).                               *)
(***************************************************************************)
Counts == [OpkIDs -> Int]

Record == [admitted : Counts, issued : Counts, lapsed : Counts, born : Nat, claimed : Nat]

Booked(p, h) ==
  \A k \in BucketKeys, id \in OpkIDs :
    h[k].admitted[id] = Held(p, k, id) + h[k].issued[id] + h[k].lapsed[id]

KeepsPace(p, h, k, n) ==
  /\ h[k].born <= n
  /\ k \notin DOMAIN p.tokens => h[k].claimed = 0
  /\ k \in DOMAIN p.tokens =>
       /\ p.tokens[k].lastRefill <= n
       /\ h[k].claimed * ClaimRefill + p.tokens[k].credit
            <= Full + (p.tokens[k].lastRefill - h[k].born) + MaxLag

Throttled(p, h, n) == \A k \in Buckets(p) : KeepsPace(p, h, k, n)

\* Limiter state is left over for one pool at most.
OneLeftOver(p) == \A a, b \in DOMAIN p.tokens \ Buckets(p) : a = b

IInv ==
  /\ now \in 1..Horizon
  /\ IsStore(prekeys) /\ OneLeftOver(prekeys)
  /\ history \in [BucketKeys -> Record]
  /\ Booked(prekeys, history)
  /\ Throttled(prekeys, history, now)

-----------------------------------------------------------------------------
(***************************************************************************)
(* Counting the entries of a pool: an id occurs in it once or not at all.  *)
(***************************************************************************)
LEMMA AtMostOne ==
  ASSUME NEW S, \A a, b \in S : a = b
  PROVE  Cardinality(S) = IF S = {} THEN 0 ELSE 1
<1>1. CASE S = {}
  BY <1>1, FS_EmptySet
<1>2. CASE S # {}
  <2>1. PICK a \in S : S = {a}
    BY <1>2
  <2> QED
    BY <1>2, <2>1, FS_Singleton
<1> QED
  BY <1>1, <1>2

LEMMA HeldOnce ==
  ASSUME NEW p, NEW k, NEW id, IsPool(QueueOf(p, k))
  PROVE  Held(p, k, id) = IF Has(QueueOf(p, k), id) THEN 1 ELSE 0
<1> DEFINE q == QueueOf(p, k)
           S == {i \in DOMAIN q : q[i].id = id}
<1>1. \A a, b \in S : a = b
  BY DEF IsPool
<1>2. Has(q, id) <=> S # {}
  BY DEF Has
<1>3. Held(p, k, id) = Cardinality(S)
  BY DEF Held
<1> HIDE DEF S
<1>4. Cardinality(S) = IF S = {} THEN 0 ELSE 1
  BY <1>1, AtMostOne
<1> QED
  BY <1>2, <1>3, <1>4

LEMMA LapsingOnce ==
  ASSUME NEW p, NEW k, NEW id, NEW t, IsPool(QueueOf(p, k))
  PROVE  LET q == QueueOf(p, k)
         IN  Lapsing(p, k, id, t) =
               IF \E i \in DOMAIN q : q[i].id = id /\ ~Fresh(q[i].publishedAt, t) THEN 1 ELSE 0
<1> DEFINE q == QueueOf(p, k)
           S == {i \in DOMAIN q : q[i].id = id /\ ~Fresh(q[i].publishedAt, t)}
<1>1. \A a, b \in S : a = b
  BY DEF IsPool
<1>2. (\E i \in DOMAIN q : q[i].id = id /\ ~Fresh(q[i].publishedAt, t)) <=> S # {}
  OBVIOUS
<1>3. Lapsing(p, k, id, t) = Cardinality(S)
  BY DEF Lapsing
<1> HIDE DEF S
<1>4. Cardinality(S) = IF S = {} THEN 0 ELSE 1
  BY <1>1, AtMostOne
<1> QED
  BY <1>2, <1>3, <1>4

\* A sweep moves an entry from the pool to the lapsed ones when its time is up.
LEMMA SweptCount ==
  ASSUME NEW p, IsStore(p), NEW t, NEW k, NEW id
  PROVE  LET n == pruneLocked(p, t)
         IN  /\ Held(p, k, id) = Held(n, k, id) + Lapsing(p, k, id, t)
             /\ Held(n, k, id) \in {0, 1} /\ Lapsing(p, k, id, t) \in {0, 1}
<1> DEFINE n == pruneLocked(p, t)
           q == QueueOf(p, k)
           f == QueueOf(n, k)
           stale == \E i \in DOMAIN q : q[i].id = id /\ ~Fresh(q[i].publishedAt, t)
<1>1. /\ IsStore(n)
      /\ f = IF k \in DOMAIN p.queues THEN FreshOf(p.queues[k], t) ELSE <<>>
  BY PruneStore
<1>2. IsPool(q) /\ IsPool(f)
  BY <1>1, QueueIsPool
<1>3. Has(f, id) <=> \E i \in DOMAIN q : q[i].id = id /\ Fresh(q[i].publishedAt, t)
  <2>1. CASE k \in DOMAIN p.queues
    <3>1. q = p.queues[k] /\ f = FreshOf(q, t)
      BY <1>1, <2>1 DEF QueueOf
    <3> HIDE DEF q, f
    <3> QED
      BY <1>2, <3>1, FreshPool
  <2>2. CASE k \notin DOMAIN p.queues
    <3>1. q = <<>> /\ f = <<>>
      BY <1>1, <2>2 DEF QueueOf
    <3>2. DOMAIN <<>> = {}
      OBVIOUS
    <3> QED
      BY <3>1, <3>2, EmptyPool
  <2> QED
    BY <2>1, <2>2
<1>4. /\ Held(p, k, id) = IF Has(q, id) THEN 1 ELSE 0
      /\ Held(n, k, id) = IF Has(f, id) THEN 1 ELSE 0
      /\ Lapsing(p, k, id, t) = IF stale THEN 1 ELSE 0
  BY <1>2, HeldOnce, LapsingOnce
<1>5. /\ ~(Has(f, id) /\ stale)
      /\ Has(q, id) <=> (Has(f, id) \/ stale)
  BY <1>2, <1>3 DEF Has, IsPool
<1> HIDE DEF n, q, f, stale
<1>6. /\ Held(p, k, id) = Held(n, k, id) + Lapsing(p, k, id, t)
      /\ Held(n, k, id) \in {0, 1} /\ Lapsing(p, k, id, t) \in {0, 1}
  BY <1>4, <1>5
<1> QED
  BY <1>6 DEF n

\* What a sweep does to the history.
LEMMA SweptHistory ==
  ASSUME NEW p, IsStore(p), NEW t, NEW h \in [BucketKeys -> Record]
  PROVE  LET g == Swept(h, p, t)
         IN  /\ g \in [BucketKeys -> Record]
             /\ \A k \in BucketKeys :
                  /\ g[k].admitted = h[k].admitted /\ g[k].issued = h[k].issued
                  /\ g[k].born = h[k].born /\ g[k].claimed = h[k].claimed
                  /\ \A id \in OpkIDs : g[k].lapsed[id] = h[k].lapsed[id] + Lapsing(p, k, id, t)
<1> DEFINE g == Swept(h, p, t)
           new(k) == [id \in OpkIDs |-> h[k].lapsed[id] + Lapsing(p, k, id, t)]
<1>1. \A k \in BucketKeys, id \in OpkIDs : Lapsing(p, k, id, t) \in Int
  <2> SUFFICES ASSUME NEW k \in BucketKeys, NEW id \in OpkIDs
               PROVE  Lapsing(p, k, id, t) \in Int
    OBVIOUS
  <2>1. Lapsing(p, k, id, t) \in {0, 1}
    BY SweptCount
  <2> QED
    BY <2>1
<1>2. ASSUME NEW k \in BucketKeys
      PROVE  /\ g[k] \in Record
             /\ g[k].admitted = h[k].admitted /\ g[k].issued = h[k].issued
             /\ g[k].born = h[k].born /\ g[k].claimed = h[k].claimed
             /\ \A id \in OpkIDs : g[k].lapsed[id] = h[k].lapsed[id] + Lapsing(p, k, id, t)
  <2>1. g[k] = [h[k] EXCEPT !.lapsed = new(k)]
    BY DEF Swept
  <2>2. h[k] \in Record
    OBVIOUS
  <2>3. new(k) \in Counts /\ \A id \in OpkIDs : new(k)[id] = h[k].lapsed[id] + Lapsing(p, k, id, t)
    BY <1>1, <2>2 DEF Record, Counts
  <2> DEFINE r == h[k]
             l == new(k)
  <2>4. r \in Record /\ l \in Counts /\ g[k] = [r EXCEPT !.lapsed = l]
    BY <2>1, <2>2, <2>3
  <2> HIDE DEF g, new, r, l
  <2>5. /\ g[k] \in Record /\ g[k].lapsed = l
        /\ g[k].admitted = r.admitted /\ g[k].issued = r.issued
        /\ g[k].born = r.born /\ g[k].claimed = r.claimed
    BY <2>4 DEF Record
  <2> QED
    BY <2>3, <2>5 DEF r, l
<1>3. g \in [BucketKeys -> Record]
  <2>1. g = [k \in BucketKeys |-> g[k]]
    BY DEF Swept
  <2> HIDE DEF g
  <2> QED
    BY <1>2, <2>1
<1> QED
  BY <1>2, <1>3

\* A sweep, by any method, keeps the books and the pace, and leaves no limiter
\* state behind.
LEMMA SweepKeeps ==
  ASSUME IInv, NEW t
  PROVE  LET p == pruneLocked(prekeys, t)
             h == Swept(history, prekeys, t)
         IN  /\ IsStore(p) /\ DOMAIN p.tokens \subseteq Buckets(p)
             /\ h \in [BucketKeys -> Record] /\ Booked(p, h) /\ Throttled(p, h, now)
<1> DEFINE p == pruneLocked(prekeys, t)
           h == Swept(history, prekeys, t)
<1>0. IsStore(prekeys) /\ history \in [BucketKeys -> Record]
  BY DEF IInv
<1>1. /\ IsStore(p) /\ Buckets(p) \subseteq Buckets(prekeys)
      /\ DOMAIN p.tokens = DOMAIN prekeys.tokens \cap Buckets(p)
      /\ \A k \in DOMAIN p.tokens : p.tokens[k] = prekeys.tokens[k]
  BY <1>0, PruneStore
<1>2. /\ h \in [BucketKeys -> Record]
      /\ \A k \in BucketKeys :
           /\ h[k].admitted = history[k].admitted /\ h[k].issued = history[k].issued
           /\ h[k].born = history[k].born /\ h[k].claimed = history[k].claimed
           /\ \A id \in OpkIDs : h[k].lapsed[id] = history[k].lapsed[id] + Lapsing(prekeys, k, id, t)
  BY <1>0, SweptHistory
<1>3. ASSUME NEW k \in BucketKeys, NEW id \in OpkIDs
      PROVE  h[k].admitted[id] = Held(p, k, id) + h[k].issued[id] + h[k].lapsed[id]
  <2>1. /\ Held(prekeys, k, id) = Held(p, k, id) + Lapsing(prekeys, k, id, t)
        /\ Held(p, k, id) \in {0, 1} /\ Lapsing(prekeys, k, id, t) \in {0, 1}
    BY <1>0, SweptCount
  <2>2. history[k].admitted[id] = Held(prekeys, k, id) + history[k].issued[id] + history[k].lapsed[id]
    BY DEF IInv, Booked
  <2>3. history[k].issued[id] \in Int /\ history[k].lapsed[id] \in Int
    BY <1>0 DEF Record, Counts
  <2>4. /\ h[k].admitted[id] = history[k].admitted[id] /\ h[k].issued[id] = history[k].issued[id]
        /\ h[k].lapsed[id] = history[k].lapsed[id] + Lapsing(prekeys, k, id, t)
    BY <1>2
  <2> HIDE DEF p, h
  <2> QED
    BY <2>1, <2>2, <2>3, <2>4
<1> HIDE DEF p, h
<1>4. ASSUME NEW k \in Buckets(p)
      PROVE  KeepsPace(p, h, k, now)
  <2>1. k \in Buckets(prekeys) /\ k \in BucketKeys
    BY <1>0, <1>1 DEF IsStore
  <2>2. KeepsPace(prekeys, history, k, now)
    BY <2>1 DEF IInv, Throttled
  <2>3. h[k].born = history[k].born /\ h[k].claimed = history[k].claimed
    BY <1>2, <2>1
  <2>4. /\ k \in DOMAIN p.tokens <=> k \in DOMAIN prekeys.tokens
        /\ k \in DOMAIN p.tokens => p.tokens[k] = prekeys.tokens[k]
    BY <1>1
  <2> QED
    BY <2>2, <2>3, <2>4 DEF KeepsPace
<1>5. Booked(p, h) /\ Throttled(p, h, now)
  BY <1>3, <1>4 DEF Booked, Throttled
<1> QED
  BY <1>1, <1>2, <1>5 DEF p, h
-----------------------------------------------------------------------------
(***************************************************************************)
(* The token bucket.                                                       *)
(***************************************************************************)
LEMMA FullType == Full \in Nat /\ ClaimRefill \in Nat /\ MaxLag \in Nat
<1>1. \A a, b \in Nat : a * b \in Nat
  OBVIOUS
<1> QED
  BY <1>1, PrekeyConstants DEF Full

\* Refilling gives no more credit than time has passed, and no more than fits.
LEMMA Refill ==
  ASSUME NEW full \in Nat, NEW credit \in 0..full, NEW last \in Nat, NEW t \in Nat
  PROVE  LET c == Min({full, credit + Max({0, t - last})})
             l == Max({t, last})
         IN  /\ c \in 0..full /\ l \in Nat /\ l >= last /\ (l = t \/ l = last)
             /\ c <= credit + (l - last)
<1>1. ASSUME NEW x \in Int, NEW y \in Int
      PROVE  Max({x, y}) = (IF x >= y THEN x ELSE y) /\ Min({x, y}) = (IF x <= y THEN x ELSE y)
  BY DEF Max, Min
<1>2. Max({0, t - last}) = IF 0 >= t - last THEN 0 ELSE t - last
  BY <1>1
<1>3. Max({t, last}) = IF t >= last THEN t ELSE last
  BY <1>1
<1> DEFINE gain == Max({0, t - last})
<1>4. credit + gain \in Int
  BY <1>2
<1> HIDE DEF gain
<1>5. Min({full, credit + gain}) = IF full <= credit + gain THEN full ELSE credit + gain
  <2> DEFINE sum == credit + gain
  <2>1. sum \in Int
    BY <1>4
  <2> HIDE DEF sum
  <2>2. Min({full, sum}) = IF full <= sum THEN full ELSE sum
    BY <1>1, <2>1
  <2> QED
    BY <2>2 DEF sum
<1> DEFINE c == Min({full, credit + gain})
           l == Max({t, last})
<1>6. gain = IF 0 >= t - last THEN 0 ELSE t - last
  BY <1>2 DEF gain
<1>7. c = IF full <= credit + gain THEN full ELSE credit + gain
  BY <1>5
<1>8. l = IF t >= last THEN t ELSE last
  BY <1>3
<1> HIDE DEF c, l
<1>9. c \in 0..full /\ l \in Nat /\ l >= last /\ (l = t \/ l = last) /\ c <= credit + (l - last)
  BY <1>6, <1>7, <1>8
<1> QED
  BY <1>9 DEF c, l, gain

\* A claim is paid for out of the credit, however late its clock reading is.
LEMMA TokenTaken ==
  ASSUME NEW p, IsStore(p), NEW key, NEW t \in Nat, NEW n \in Nat, t <= n, n <= t + MaxLag,
         NEW h, h[key] \in Record, KeepsPace(p, h, key, n)
  PROVE  LET tk == takeToken(p, key, t)
         IN  /\ tk.state \in [credit : 0..Full, lastRefill : Nat]
             /\ tk.state.lastRefill <= n
             /\ (IF tk.available THEN h[key].claimed + 1 ELSE h[key].claimed) * ClaimRefill
                  + tk.state.credit
                    <= Full + (tk.state.lastRefill - h[key].born) + MaxLag
<1> DEFINE old == IF key \in DOMAIN p.tokens THEN p.tokens[key]
                  ELSE [credit |-> Full, lastRefill |-> t]
           c0 == old.credit
           l0 == old.lastRefill
           credit == Min({Full, c0 + Max({0, t - l0})})
           last == Max({t, l0})
           left == IF credit >= ClaimRefill THEN credit - ClaimRefill ELSE credit
           state == [credit |-> left, lastRefill |-> last]
           born == h[key].born
           claimed == h[key].claimed
<1>0. Full \in Nat /\ ClaimRefill \in Nat /\ MaxLag \in Nat
  BY FullType
<1>1. born \in Nat /\ claimed \in Nat /\ born <= n
  BY DEF Record, KeepsPace
<1>2. takeToken(p, key, t) = [available |-> credit >= ClaimRefill, state |-> state]
  BY DEF takeToken, Full
<1>a. takeToken(p, key, t).available = (credit >= ClaimRefill) /\ takeToken(p, key, t).state = state
  <2>1. ASSUME NEW v, NEW w
        PROVE  [available |-> v, state |-> w].available = v /\ [available |-> v, state |-> w].state = w
    OBVIOUS
  <2> DEFINE able == credit >= ClaimRefill
             tk == [available |-> able, state |-> state]
  <2>2. takeToken(p, key, t) = tk
    BY <1>2
  <2> HIDE DEF able, state
  <2>3. tk.available = able /\ tk.state = state
    BY <2>1
  <2> HIDE DEF tk
  <2> QED
    BY <2>2, <2>3, Zenon DEF able
<1>3. /\ c0 \in 0..Full /\ l0 \in Nat /\ l0 <= n
      /\ claimed * ClaimRefill + c0 <= Full + (l0 - born) + MaxLag
  <2>1. CASE key \in DOMAIN p.tokens
    <3>1. old = p.tokens[key] /\ old \in [credit : 0..Full, lastRefill : Nat]
      BY <2>1 DEF IsStore
    <3> QED
      BY <2>1, <3>1 DEF KeepsPace
  <2>2. CASE key \notin DOMAIN p.tokens
    <3>1. c0 = Full /\ l0 = t /\ claimed = 0
      BY <2>2 DEF KeepsPace
    <3> HIDE DEF c0, l0, claimed, born
    <3>2. claimed * ClaimRefill = 0
      BY <1>0, <3>1
    <3> QED
      BY <1>0, <1>1, <3>1, <3>2
  <2> QED
    BY <2>1, <2>2
<1> HIDE DEF old, c0, l0, born, claimed
<1>4. /\ credit \in 0..Full /\ last \in Nat /\ last >= l0 /\ (last = t \/ last = l0)
      /\ credit <= c0 + (last - l0)
  BY <1>0, <1>3, Refill
<1> HIDE DEF credit, last
<1>5. state.credit = left /\ state.lastRefill = last /\ last <= n
  BY <1>3, <1>4
<1>6. claimed * ClaimRefill \in Nat /\ (claimed + 1) * ClaimRefill = claimed * ClaimRefill + ClaimRefill
  <2>1. \A a, b \in Nat : a * b \in Nat /\ (a + 1) * b = a * b + b
    OBVIOUS
  <2> QED
    BY <1>0, <1>1, <2>1
<1>7. CASE credit >= ClaimRefill
  <2>0. left = credit - ClaimRefill /\ left \in 0..Full
    BY <1>0, <1>4, <1>7
  <2>1. state.credit = credit - ClaimRefill /\ state \in [credit : 0..Full, lastRefill : Nat]
    <3> HIDE DEF left
    <3> QED
      BY <1>4, <1>5, <2>0
  <2>2. takeToken(p, key, t).available /\ takeToken(p, key, t).state = state
    BY <1>a, <1>7
  <2> HIDE DEF state
  <2>3. (claimed + 1) * ClaimRefill + state.credit <= Full + (last - born) + MaxLag
    BY <1>0, <1>1, <1>3, <1>4, <1>6, <2>1
  <2> QED
    BY <1>5, <2>1, <2>2, <2>3 DEF claimed, born
<1>8. CASE ~(credit >= ClaimRefill)
  <2>0. left = credit /\ left \in 0..Full
    BY <1>0, <1>4, <1>8
  <2>1. state.credit = credit /\ state \in [credit : 0..Full, lastRefill : Nat]
    <3> HIDE DEF left
    <3> QED
      BY <1>4, <1>5, <2>0
  <2>2. ~takeToken(p, key, t).available /\ takeToken(p, key, t).state = state
    BY <1>a, <1>8
  <2> HIDE DEF state
  <2>3. claimed * ClaimRefill + state.credit <= Full + (last - born) + MaxLag
    BY <1>0, <1>1, <1>3, <1>4, <1>6, <2>1
  <2> QED
    BY <1>5, <2>1, <2>2, <2>3 DEF claimed, born
<1> QED
  BY <1>7, <1>8

\* Writing the limiter state of one pool back.
LEMMA TokensStore ==
  ASSUME NEW p, IsStore(p), NEW key \in BucketKeys,
         NEW state \in [credit : 0..Full, lastRefill : Nat],
         NEW m, m = Put(p.tokens, key, state),
         NEW n, n = [queues |-> p.queues, lastResort |-> p.lastResort, tokens |-> m]
  PROVE  /\ IsStore(n) /\ Buckets(n) = Buckets(p)
         /\ \A k : QueueOf(n, k) = QueueOf(p, k)
         /\ DOMAIN n.tokens = DOMAIN p.tokens \cup {key} /\ n.tokens[key] = state
         /\ \A k \in DOMAIN p.tokens : k # key => n.tokens[k] = p.tokens[k]
<1>1. /\ DOMAIN m = DOMAIN p.tokens \cup {key} /\ m[key] = state
      /\ \A k \in DOMAIN p.tokens : k # key => m[k] = p.tokens[k]
  BY DEF Put
<1>2. /\ n.queues = p.queues /\ n.lastResort = p.lastResort /\ n.tokens = m
      /\ n = [queues |-> n.queues, lastResort |-> n.lastResort, tokens |-> n.tokens]
  OBVIOUS
<1>3. Buckets(n) = Buckets(p) /\ \A k : QueueOf(n, k) = QueueOf(p, k)
  BY <1>2 DEF Buckets, QueueOf
<1>4. \A k \in DOMAIN n.tokens : n.tokens[k] \in [credit : 0..Full, lastRefill : Nat]
  BY <1>1, <1>2 DEF IsStore
<1>5. Buckets(n) \cup DOMAIN n.tokens \subseteq BucketKeys
  BY <1>1, <1>2, <1>3 DEF IsStore
<1>6. IsStore(n)
  BY <1>2, <1>3, <1>4, <1>5 DEF IsStore
<1> QED
  BY <1>1, <1>2, <1>3, <1>6

-----------------------------------------------------------------------------
(***************************************************************************)
(* One lemma per action.                                                   *)
(***************************************************************************)
\* An empty store has nothing to account for.
LEMMA InitEstablishes == Init => IInv
<1> SUFFICES ASSUME Init
             PROVE  IInv
  OBVIOUS
<1> DEFINE e == EmptyMap
           zero == [id \in OpkIDs |-> 0]
           none == [admitted |-> zero, issued |-> zero, lapsed |-> zero, born |-> 0, claimed |-> 0]
<1>1. DOMAIN e = {}
  BY DEF EmptyMap
<1> HIDE DEF e
<1>2. /\ prekeys.queues = e /\ prekeys.lastResort = e /\ prekeys.tokens = e
      /\ prekeys = [queues |-> prekeys.queues, lastResort |-> prekeys.lastResort,
                    tokens |-> prekeys.tokens]
      /\ now = 1
  BY DEF Init, e
<1>3. Buckets(prekeys) = {} /\ \A k : QueueOf(prekeys, k) = <<>>
  BY <1>1, <1>2 DEF Buckets, QueueOf
<1>4. IsStore(prekeys)
  <2>1. IsFiniteSet({}) /\ Cardinality({}) = 0
    BY FS_EmptySet
  <2> QED
    BY <1>1, <1>2, <1>3, <2>1, PrekeyConstants DEF IsStore
<1>5. history = [k \in BucketKeys |-> none]
  BY DEF Init
<1>6. none \in Record /\ none.admitted = zero /\ none.issued = zero /\ none.lapsed = zero
  BY DEF Record, Counts
<1> HIDE DEF none
<1>7. history \in [BucketKeys -> Record] /\ \A k \in BucketKeys : history[k] = none
  BY <1>5, <1>6
<1>8. ASSUME NEW k \in BucketKeys, NEW id \in OpkIDs
      PROVE  history[k].admitted[id] = Held(prekeys, k, id) + history[k].issued[id] + history[k].lapsed[id]
  <2>1. Held(prekeys, k, id) = 0
    <3>1. IsPool(<<>>) /\ ~Has(<<>>, id)
      BY EmptyPool
    <3> QED
      BY <1>3, <3>1, HeldOnce
  <2>2. zero[id] = 0
    OBVIOUS
  <2> HIDE DEF zero
  <2> QED
    BY <1>6, <1>7, <2>1, <2>2
<1>9. OneLeftOver(prekeys) /\ Throttled(prekeys, history, now)
  BY <1>1, <1>2, <1>3 DEF OneLeftOver, Throttled
<1>10. now \in 1..Horizon
  BY <1>2, PrekeyConstants
<1> QED
  BY <1>4, <1>7, <1>8, <1>9, <1>10 DEF IInv, Booked

LEMMA ReadingType ==
  ASSUME IInv, NEW t \in Readings
  PROVE  /\ t \in Nat /\ t \in 1..Horizon /\ t <= now /\ now <= t + MaxLag
         /\ now \in Nat
BY PrekeyConstants DEF IInv, Readings

\* The steps that only sweep.
LEMMA SweptOnly ==
  ASSUME IInv, NEW t, prekeys' = pruneLocked(prekeys, t), history' = Swept(history, prekeys, t),
         now' = now
  PROVE  IInv'
<1>1. /\ IsStore(prekeys') /\ DOMAIN prekeys'.tokens \subseteq Buckets(prekeys')
      /\ history' \in [BucketKeys -> Record] /\ Booked(prekeys', history')
      /\ Throttled(prekeys', history', now)
  BY SweepKeeps
<1>2. OneLeftOver(prekeys')
  BY <1>1 DEF OneLeftOver
<1> QED
  BY <1>1, <1>2 DEF IInv

\* Publish opens a pool with a full bucket and no claims.
LEMMA PublishKeeps ==
  ASSUME IInv, NEW t \in Readings, NEW key \in BucketKeys, NEW value \in Publications,
         Publish(key, value, t)
  PROVE  IInv'
<1> DEFINE p == pruneLocked(prekeys, t)
           q == Published(p, key, value, t)
           h == Swept(history, prekeys, t)
           a == [id \in OpkIDs |-> h[key].admitted[id] + Held(q, key, id) - Held(p, key, id)]
           b == IF key \notin Buckets(p) THEN now ELSE h[key].born
           c == IF key \notin Buckets(p) THEN 0 ELSE h[key].claimed
           g == [h EXCEPT ![key].admitted = a, ![key].born = b, ![key].claimed = c]
<1>1. CASE bucketsFull(p, key)
  <2>1. prekeys' = p /\ history' = h /\ now' = now
    BY <1>1 DEF Publish
  <2> QED
    BY <2>1, SweptOnly
<1>2. CASE ~bucketsFull(p, key)
  <2>1. prekeys' = q /\ history' = g /\ now' = now
    BY <1>2 DEF Publish
  <2>2. /\ IsStore(p) /\ DOMAIN p.tokens \subseteq Buckets(p)
        /\ h \in [BucketKeys -> Record] /\ Booked(p, h) /\ Throttled(p, h, now)
    BY SweepKeeps
  <2> HIDE DEF p, h
  <2>3. t \in 1..Horizon /\ now \in Nat
    BY ReadingType
  <2>4. /\ IsStore(q) /\ q.tokens = p.tokens
        /\ \A k : k # key => QueueOf(q, k) = QueueOf(p, k)
        /\ Buckets(q) \subseteq Buckets(p) \cup {key} /\ Buckets(p) \subseteq Buckets(q)
    BY <1>2, <2>2, <2>3, PublishedStore
  <2> HIDE DEF q
  <2>5. \A id \in OpkIDs : Held(q, key, id) \in {0, 1} /\ Held(p, key, id) \in {0, 1}
    <3>1. IsPool(QueueOf(p, key)) /\ IsPool(QueueOf(q, key))
      BY <2>2, <2>4, QueueIsPool
    <3>2. \A id : Held(p, key, id) = IF Has(QueueOf(p, key), id) THEN 1 ELSE 0
      BY <3>1, HeldOnce
    <3>3. \A id : Held(q, key, id) = IF Has(QueueOf(q, key), id) THEN 1 ELSE 0
      BY <3>1, HeldOnce
    <3> QED
      BY <3>2, <3>3
  <2>6. a \in Counts /\ \A id \in OpkIDs : a[id] = h[key].admitted[id] + Held(q, key, id) - Held(p, key, id)
    BY <2>2, <2>5 DEF Record, Counts
  <2>7. b \in Nat /\ c \in Nat
    BY <2>2, <2>3 DEF Record
  <2>8. /\ key \notin Buckets(p) => b = now /\ c = 0
        /\ key \in Buckets(p) => b = h[key].born /\ c = h[key].claimed
    OBVIOUS
  <2> HIDE DEF a, b, c
  <2>9. /\ \A k \in BucketKeys : k # key => g[k] = h[k]
        /\ g[key].admitted = a /\ g[key].born = b /\ g[key].claimed = c
        /\ g[key].issued = h[key].issued /\ g[key].lapsed = h[key].lapsed
        /\ g \in [BucketKeys -> Record]
    BY <2>2, <2>6, <2>7 DEF Record
  <2> HIDE DEF g
  <2>10. Booked(q, g)
    <3> SUFFICES ASSUME NEW k \in BucketKeys, NEW id \in OpkIDs
                 PROVE  g[k].admitted[id] = Held(q, k, id) + g[k].issued[id] + g[k].lapsed[id]
      BY DEF Booked
    <3>1. h[k].admitted[id] = Held(p, k, id) + h[k].issued[id] + h[k].lapsed[id]
      BY <2>2 DEF Booked
    <3>2. CASE k # key
      <4>0. QueueOf(q, k) = QueueOf(p, k) /\ g[k] = h[k]
        BY <2>4, <2>9, <3>2
      <4>1. Held(q, k, id) = Held(p, k, id) /\ g[k] = h[k]
        BY <4>0 DEF Held
      <4> QED
        BY <3>1, <4>1
    <3>3. CASE k = key
      <4>1. /\ g[k].admitted[id] = h[k].admitted[id] + Held(q, k, id) - Held(p, k, id)
            /\ g[k].issued[id] = h[k].issued[id] /\ g[k].lapsed[id] = h[k].lapsed[id]
        BY <2>6, <2>9, <3>3
      <4>2. h[k].issued[id] \in Int /\ h[k].lapsed[id] \in Int
        BY <2>2 DEF Record, Counts
      <4>3. Held(p, k, id) \in {0, 1} /\ Held(q, k, id) \in {0, 1}
        BY <2>5, <3>3
      <4> QED
        BY <3>1, <4>1, <4>2, <4>3
    <3> QED
      BY <3>2, <3>3
  <2>11. Throttled(q, g, now)
    <3> SUFFICES ASSUME NEW k \in Buckets(q)
                 PROVE  KeepsPace(q, g, k, now)
      BY DEF Throttled
    <3>1. k \in BucketKeys
      BY <2>4 DEF IsStore
    <3>2. CASE k \in Buckets(p)
      <4>1. KeepsPace(p, h, k, now)
        BY <2>2, <3>2 DEF Throttled
      <4>2. g[k].born = h[k].born /\ g[k].claimed = h[k].claimed
        BY <2>8, <2>9, <3>1, <3>2
      <4> QED
        BY <2>4, <4>1, <4>2 DEF KeepsPace
    <3>3. CASE k \notin Buckets(p)
      <4>1. k = key /\ k \notin DOMAIN q.tokens
        BY <2>2, <2>4, <3>3
      <4>2. g[k].born = now /\ g[k].claimed = 0
        BY <2>8, <2>9, <3>3, <4>1
      <4> QED
        BY <2>3, <4>1, <4>2 DEF KeepsPace
    <3> QED
      BY <3>2, <3>3
  <2>12. OneLeftOver(q)
    BY <2>2, <2>4 DEF OneLeftOver
  <2> QED
    BY <2>1, <2>4, <2>9, <2>10, <2>11, <2>12 DEF IInv
<1> QED
  BY <1>1, <1>2

\* A one-time claim hands out the head of the pool and pays for it.
LEMMA ClaimOneTimeKeeps ==
  ASSUME IInv, NEW t \in Readings, NEW key \in BucketKeys, ClaimOneTime(key, t)
  PROVE  IInv'
<1> DEFINE p == pruneLocked(prekeys, t)
           h == Swept(history, prekeys, t)
           queue == QueueOf(p, key)
           token == takeToken(p, key, t)
           s == SetQueue(p, key, Tail(queue))
           q == [s EXCEPT !.tokens = Put(@, key, token.state)]
           top == Head(queue).id
           g == [h EXCEPT ![key].issued[top] = @ + 1, ![key].claimed = @ + 1]
<1>1. queue # <<>> /\ token.available /\ prekeys' = q /\ history' = g /\ now' = now
  BY DEF ClaimOneTime
<1>2. /\ IsStore(p) /\ DOMAIN p.tokens \subseteq Buckets(p)
      /\ h \in [BucketKeys -> Record] /\ Booked(p, h) /\ Throttled(p, h, now)
  BY SweepKeeps
<1> HIDE DEF p, h
<1>3. t \in Nat /\ t <= now /\ now <= t + MaxLag /\ now \in Nat
  BY ReadingType
<1>4. IsPool(queue) /\ key \in DOMAIN p.queues
  BY <1>1, <1>2, QueueIsPool
<1>5. key \in Buckets(p) /\ Buckets(p) \cup {key} = Buckets(p)
  BY <1>4 DEF Buckets
<1>6. /\ token.state \in [credit : 0..Full, lastRefill : Nat] /\ token.state.lastRefill <= now
      /\ (h[key].claimed + 1) * ClaimRefill + token.state.credit
           <= Full + (token.state.lastRefill - h[key].born) + MaxLag
  <2>1. KeepsPace(p, h, key, now) /\ h[key] \in Record
    BY <1>2, <1>5 DEF Throttled
  <2>2. /\ token.state \in [credit : 0..Full, lastRefill : Nat] /\ token.state.lastRefill <= now
        /\ (IF token.available THEN h[key].claimed + 1 ELSE h[key].claimed) * ClaimRefill
             + token.state.credit <= Full + (token.state.lastRefill - h[key].born) + MaxLag
    BY <1>2, <1>3, <2>1, TokenTaken
  <2>3. (IF token.available THEN h[key].claimed + 1 ELSE h[key].claimed) = h[key].claimed + 1
    BY <1>1
  <2> HIDE DEF token
  <2> QED
    BY <2>2, <2>3
<1> HIDE DEF token
<1>7. /\ IsPool(Tail(queue)) /\ top \in OpkIDs /\ Has(queue, top)
      /\ \A id : Has(Tail(queue), id) <=> Has(queue, id) /\ id # top
  BY <1>1, <1>4, TailPool
<1> HIDE DEF top
<1>8. /\ IsStore(s) /\ s.tokens = p.tokens
      /\ QueueOf(s, key) = Tail(queue)
      /\ \A k : k # key => QueueOf(s, k) = QueueOf(p, k)
      /\ Buckets(s) \subseteq Buckets(p) /\ Buckets(p) \ {key} \subseteq Buckets(s)
  <2> DEFINE rest == Tail(queue)
  <2>1. IsPool(rest)
    BY <1>7
  <2>2. IsFiniteSet(Buckets(p) \cup {key}) /\ Cardinality(Buckets(p) \cup {key}) <= MaxBuckets
    BY <1>2, <1>5 DEF IsStore
  <2> HIDE DEF rest, queue
  <2>3. /\ IsStore(SetQueue(p, key, rest)) /\ SetQueue(p, key, rest).tokens = p.tokens
        /\ QueueOf(SetQueue(p, key, rest), key) = rest
        /\ \A k : k # key => QueueOf(SetQueue(p, key, rest), k) = QueueOf(p, k)
        /\ Buckets(SetQueue(p, key, rest)) \subseteq Buckets(p) \cup {key}
        /\ Buckets(p) \ {key} \subseteq Buckets(SetQueue(p, key, rest))
    BY <1>2, <2>1, <2>2, SetQueueStore
  <2> QED
    BY <1>5, <2>3 DEF rest
<1> HIDE DEF s
<1>9. /\ IsStore(q) /\ Buckets(q) = Buckets(s) /\ \A k : QueueOf(q, k) = QueueOf(s, k)
      /\ DOMAIN q.tokens = DOMAIN s.tokens \cup {key} /\ q.tokens[key] = token.state
      /\ \A k \in DOMAIN s.tokens : k # key => q.tokens[k] = s.tokens[k]
  <2> DEFINE state == token.state
  <2>1. state \in [credit : 0..Full, lastRefill : Nat]
    BY <1>6
  <2> HIDE DEF state
  <2> DEFINE m == Put(s.tokens, key, state)
  <2>2. q = [queues |-> s.queues, lastResort |-> s.lastResort, tokens |-> m]
    <3>1. s = [queues |-> s.queues, lastResort |-> s.lastResort, tokens |-> s.tokens]
      BY <1>8 DEF IsStore
    <3>2. q = [s EXCEPT !.tokens = m]
      BY DEF state
    <3> HIDE DEF m, q
    <3> QED
      BY <3>1, <3>2
  <2> HIDE DEF q
  <2>3. /\ IsStore(q) /\ Buckets(q) = Buckets(s) /\ \A k : QueueOf(q, k) = QueueOf(s, k)
        /\ DOMAIN q.tokens = DOMAIN s.tokens \cup {key} /\ q.tokens[key] = state
        /\ \A k \in DOMAIN s.tokens : k # key => q.tokens[k] = s.tokens[k]
    <3>1. IsStore(s)
      BY <1>8
    <3> HIDE DEF m
    <3>2. m = Put(s.tokens, key, state)
      BY DEF m
    <3> QED
      BY <2>1, <2>2, <3>1, <3>2, TokensStore
  <2> QED
    BY <2>3 DEF state
<1> HIDE DEF q
<1>10. /\ \A k \in BucketKeys : k # key => g[k] = h[k]
       /\ g[key].admitted = h[key].admitted /\ g[key].lapsed = h[key].lapsed
       /\ g[key].born = h[key].born /\ g[key].claimed = h[key].claimed + 1
       /\ g[key].issued = [h[key].issued EXCEPT ![top] = @ + 1]
       /\ g \in [BucketKeys -> Record]
  <2>1. h[key] \in Record
    BY <1>2
  <2> DEFINE i == [h[key].issued EXCEPT ![top] = h[key].issued[top] + 1]
             c == h[key].claimed + 1
  <2>2. i \in Counts /\ c \in Nat
    BY <1>7, <2>1 DEF Record, Counts
  <2>3. g = [h EXCEPT ![key].issued = i, ![key].claimed = c]
    BY <1>2, <2>1 DEF Record
  <2> HIDE DEF i, c, g
  <2>4. /\ \A k \in BucketKeys : k # key => g[k] = h[k]
        /\ g[key].admitted = h[key].admitted /\ g[key].lapsed = h[key].lapsed
        /\ g[key].born = h[key].born /\ g[key].claimed = c
        /\ g[key].issued = i
        /\ g \in [BucketKeys -> Record]
    BY <1>2, <2>2, <2>3 DEF Record
  <2> QED
    BY <2>4 DEF i, c
<1> HIDE DEF g
<1>11. Booked(q, g)
  <2> SUFFICES ASSUME NEW k \in BucketKeys, NEW id \in OpkIDs
               PROVE  g[k].admitted[id] = Held(q, k, id) + g[k].issued[id] + g[k].lapsed[id]
    BY DEF Booked
  <2>1. h[k].admitted[id] = Held(p, k, id) + h[k].issued[id] + h[k].lapsed[id]
    BY <1>2 DEF Booked
  <2>2. CASE k # key
    <3>0. QueueOf(q, k) = QueueOf(p, k) /\ g[k] = h[k]
      BY <1>8, <1>9, <1>10, <2>2
    <3>1. Held(q, k, id) = Held(p, k, id) /\ g[k] = h[k]
      BY <3>0 DEF Held
    <3> QED
      BY <2>1, <3>1
  <2>3. CASE k = key
    <3>1. QueueOf(q, k) = Tail(queue) /\ QueueOf(p, k) = queue
      BY <1>8, <1>9, <2>3
    <3>2. /\ Held(p, k, id) = IF Has(queue, id) THEN 1 ELSE 0
          /\ Held(q, k, id) = IF Has(Tail(queue), id) THEN 1 ELSE 0
      BY <1>4, <1>7, <3>1, HeldOnce
    <3>3. Held(p, k, id) = Held(q, k, id) + (IF id = top THEN 1 ELSE 0) /\ Held(q, k, id) \in {0, 1}
      BY <1>7, <3>2
    <3>4. h[k].issued[id] \in Int /\ h[k].lapsed[id] \in Int
      BY <1>2 DEF Record, Counts
    <3>5. g[k].issued[id] = h[k].issued[id] + (IF id = top THEN 1 ELSE 0)
      <4>1. h[key].issued \in [OpkIDs -> Int]
        BY <1>2 DEF Record, Counts
      <4> QED
        BY <1>7, <1>10, <2>3, <4>1
    <3>6. g[k].admitted[id] = h[k].admitted[id] /\ g[k].lapsed[id] = h[k].lapsed[id]
      BY <1>10, <2>3
    <3> QED
      BY <2>1, <3>3, <3>4, <3>5, <3>6
  <2> QED
    BY <2>2, <2>3
<1>12. Throttled(q, g, now)
  <2> SUFFICES ASSUME NEW k \in Buckets(q)
               PROVE  KeepsPace(q, g, k, now)
    BY DEF Throttled
  <2>1. k \in BucketKeys /\ k \in Buckets(p)
    BY <1>2, <1>8, <1>9 DEF IsStore
  <2>2. KeepsPace(p, h, k, now)
    BY <1>2, <2>1 DEF Throttled
  <2>3. CASE k # key
    <3>1. /\ g[k] = h[k] /\ (k \in DOMAIN q.tokens <=> k \in DOMAIN p.tokens)
          /\ k \in DOMAIN p.tokens => q.tokens[k] = p.tokens[k]
      BY <1>8, <1>9, <1>10, <2>1, <2>3
    <3> QED
      BY <2>2, <3>1 DEF KeepsPace
  <2>4. CASE k = key
    <3>1. g[k].born <= now /\ k \in DOMAIN q.tokens /\ q.tokens[k] = token.state
      BY <1>9, <1>10, <2>2, <2>4 DEF KeepsPace
    <3>2. g[k].claimed = h[key].claimed + 1 /\ g[k].born = h[key].born
      BY <1>10, <2>4
    <3> QED
      BY <1>6, <3>1, <3>2 DEF KeepsPace
  <2> QED
    BY <2>3, <2>4
<1>13. OneLeftOver(q)
  BY <1>2, <1>8, <1>9 DEF OneLeftOver
<1> QED
  BY <1>1, <1>9, <1>10, <1>11, <1>12, <1>13 DEF IInv

\* A claim that is not served from the pool only refills its bucket.
LEMMA ClaimOtherKeeps ==
  ASSUME IInv, NEW t \in Readings, NEW key \in BucketKeys, ClaimOther(key, t)
  PROVE  IInv'
<1> DEFINE p == pruneLocked(prekeys, t)
           h == Swept(history, prekeys, t)
           token == takeToken(p, key, t)
           q == [p EXCEPT !.tokens = Put(@, key, token.state)]
<1>1. /\ history' = h /\ now' = now
      /\ \/ prekeys' = p
         \/ QueueOf(p, key) # <<>> /\ ~token.available /\ prekeys' = q
  BY DEF ClaimOther
<1>2. CASE prekeys' = p
  BY <1>1, <1>2, SweptOnly
<1>3. CASE QueueOf(p, key) # <<>> /\ ~token.available /\ prekeys' = q
  <2>2. /\ IsStore(p) /\ DOMAIN p.tokens \subseteq Buckets(p)
        /\ h \in [BucketKeys -> Record] /\ Booked(p, h) /\ Throttled(p, h, now)
    BY SweepKeeps
  <2> HIDE DEF p, h
  <2>3. t \in Nat /\ t <= now /\ now <= t + MaxLag /\ now \in Nat
    BY ReadingType
  <2>4. key \in Buckets(p)
    BY <1>3, <2>2, QueueIsPool DEF Buckets
  <2>5. /\ token.state \in [credit : 0..Full, lastRefill : Nat] /\ token.state.lastRefill <= now
        /\ h[key].claimed * ClaimRefill + token.state.credit
             <= Full + (token.state.lastRefill - h[key].born) + MaxLag
    <3>1. KeepsPace(p, h, key, now) /\ h[key] \in Record
      BY <2>2, <2>4 DEF Throttled
    <3>2. /\ token.state \in [credit : 0..Full, lastRefill : Nat] /\ token.state.lastRefill <= now
          /\ (IF token.available THEN h[key].claimed + 1 ELSE h[key].claimed) * ClaimRefill
               + token.state.credit <= Full + (token.state.lastRefill - h[key].born) + MaxLag
      BY <2>2, <2>3, <3>1, TokenTaken
    <3>3. (IF token.available THEN h[key].claimed + 1 ELSE h[key].claimed) = h[key].claimed
      BY <1>3
    <3> HIDE DEF token
    <3> QED
      BY <3>2, <3>3
  <2> HIDE DEF token
  <2>6. /\ IsStore(q) /\ Buckets(q) = Buckets(p) /\ \A k : QueueOf(q, k) = QueueOf(p, k)
        /\ DOMAIN q.tokens = DOMAIN p.tokens \cup {key} /\ q.tokens[key] = token.state
        /\ \A k \in DOMAIN p.tokens : k # key => q.tokens[k] = p.tokens[k]
    <3> DEFINE state == token.state
    <3>1. state \in [credit : 0..Full, lastRefill : Nat]
      BY <2>5
    <3> HIDE DEF state
    <3> DEFINE m == Put(p.tokens, key, state)
    <3>2. q = [queues |-> p.queues, lastResort |-> p.lastResort, tokens |-> m]
      <4>1. p = [queues |-> p.queues, lastResort |-> p.lastResort, tokens |-> p.tokens]
        BY <2>2 DEF IsStore
      <4>2. q = [p EXCEPT !.tokens = m]
        BY DEF state
      <4> HIDE DEF m, q
      <4> QED
        BY <4>1, <4>2
    <3> HIDE DEF q
    <3>3. /\ IsStore(q) /\ Buckets(q) = Buckets(p) /\ \A k : QueueOf(q, k) = QueueOf(p, k)
          /\ DOMAIN q.tokens = DOMAIN p.tokens \cup {key} /\ q.tokens[key] = state
          /\ \A k \in DOMAIN p.tokens : k # key => q.tokens[k] = p.tokens[k]
      BY <2>2, <3>1, <3>2, TokensStore
    <3> QED
      BY <3>3 DEF state
  <2> HIDE DEF q
  <2>7. Booked(q, h)
    BY <2>2, <2>6 DEF Booked, Held
  <2>8. Throttled(q, h, now)
    <3> SUFFICES ASSUME NEW k \in Buckets(q)
                 PROVE  KeepsPace(q, h, k, now)
      BY DEF Throttled
    <3>1. KeepsPace(p, h, k, now)
      BY <2>2, <2>6 DEF Throttled
    <3>2. CASE k # key
      BY <2>6, <3>1, <3>2 DEF KeepsPace
    <3>3. CASE k = key
      BY <2>5, <2>6, <3>1, <3>3 DEF KeepsPace
    <3> QED
      BY <3>2, <3>3
  <2>9. OneLeftOver(q)
    BY <2>2, <2>4, <2>6 DEF OneLeftOver
  <2> QED
    BY <1>1, <1>3, <2>2, <2>6, <2>7, <2>8, <2>9 DEF IInv
<1> QED
  BY <1>1, <1>2, <1>3
LEMMA TickKeeps ==
  ASSUME IInv, Tick
  PROVE  IInv'
<1>1. prekeys' = prekeys /\ history' = history /\ now' = now + 1 /\ now < Horizon
  BY DEF Tick
<1>2. now \in Nat /\ now' \in 1..Horizon
  BY <1>1, PrekeyConstants DEF IInv
<1>3. ASSUME NEW k \in Buckets(prekeys)
      PROVE  KeepsPace(prekeys, history, k, now + 1)
  <2>1. KeepsPace(prekeys, history, k, now) /\ k \in BucketKeys
    BY DEF IInv, Throttled, IsStore
  <2>2. history[k].born <= now + 1
    <3>1. history[k].born \in Nat /\ history[k].born <= now
      BY <2>1 DEF IInv, Record, KeepsPace
    <3> QED
      BY <1>2, <3>1
  <2>3. ASSUME k \in DOMAIN prekeys.tokens
        PROVE  prekeys.tokens[k].lastRefill <= now + 1
    <3>1. prekeys.tokens[k] \in [credit : 0..Full, lastRefill : Nat]
      BY <2>3 DEF IInv, IsStore
    <3>2. prekeys.tokens[k].lastRefill \in Nat /\ prekeys.tokens[k].lastRefill <= now
      BY <2>1, <2>3, <3>1 DEF KeepsPace
    <3> QED
      BY <1>2, <3>2
  <2> QED
    BY <2>1, <2>2, <2>3 DEF KeepsPace
<1>4. Throttled(prekeys', history', now')
  BY <1>1, <1>3 DEF Throttled
<1> QED
  BY <1>1, <1>2, <1>4 DEF IInv

LEMMA NextKeeps == IInv /\ [Next]_vars => IInv'
<1> SUFFICES ASSUME IInv, [Next]_vars
             PROVE  IInv'
  OBVIOUS
<1>1. ASSUME NEW t \in Readings, NEW key \in BucketKeys, NEW value \in Publications,
             Publish(key, value, t)
      PROVE  IInv'
  BY <1>1, PublishKeeps
<1>2. ASSUME NEW t \in Readings, NEW key \in BucketKeys, ClaimOneTime(key, t)
      PROVE  IInv'
  BY <1>2, ClaimOneTimeKeeps
<1>3. ASSUME NEW t \in Readings, NEW key \in BucketKeys, ClaimOther(key, t)
      PROVE  IInv'
  BY <1>3, ClaimOtherKeeps
<1>4. ASSUME NEW t \in Readings, Sweep(t)
      PROVE  IInv'
  BY <1>4, SweptOnly DEF Sweep
<1>5. CASE Tick
  BY <1>5, TickKeeps
<1>6. CASE UNCHANGED vars
  BY <1>6 DEF vars, IInv
<1> QED
  BY <1>1, <1>2, <1>3, <1>4, <1>5, <1>6 DEF Next

-----------------------------------------------------------------------------
(***************************************************************************)
(* The theorems.                                                           *)
(***************************************************************************)
\* Pools, books and limiter state stay sane in every behaviour.
THEOREM PrekeyInvariance == Spec => []IInv
<1>1. Init => IInv
  BY InitEstablishes
<1>2. IInv /\ [Next]_vars => IInv'
  BY NextKeeps
<1> QED
  BY <1>1, <1>2, PTL DEF Spec

\* Claim's pop under the lock (prekey/store.go) hands an admitted entry to one
\* sender, and pruneLocked drops an entry only when its time is up.
THEOREM EntriesHaveOneHolder == Spec => []OneHolderPerEntry
<1>1. IInv => OneHolderPerEntry
  <2> SUFFICES ASSUME IInv, NEW k \in BucketKeys, NEW id \in OpkIDs
               PROVE  /\ history[k].admitted[id] =
                           Held(prekeys, k, id) + history[k].issued[id] + history[k].lapsed[id]
                      /\ Held(prekeys, k, id) <= 1
    BY DEF OneHolderPerEntry
  <2>1. history[k].admitted[id] = Held(prekeys, k, id) + history[k].issued[id] + history[k].lapsed[id]
    BY DEF IInv, Booked
  <2>2. IsPool(QueueOf(prekeys, k))
    BY QueueIsPool DEF IInv
  <2>3. Held(prekeys, k, id) = IF Has(QueueOf(prekeys, k), id) THEN 1 ELSE 0
    BY <2>2, HeldOnce
  <2> QED
    BY <2>1, <2>3
<1> QED
  BY <1>1, PrekeyInvariance, PTL

\* Publish refuses a pool too many and an entry too many, and pruneLocked drops
\* limiter state with its pool: the box's memory for prekeys is bounded.
THEOREM PoolsKeepBounds == Spec => []PoolsBounded
<1>1. IInv => PoolsBounded
  <2> SUFFICES ASSUME IInv
               PROVE  PoolsBounded
    OBVIOUS
  <2>0. IsStore(prekeys) /\ OneLeftOver(prekeys) /\ now \in 1..Horizon
    BY DEF IInv
  <2>1. ASSUME NEW k \in DOMAIN prekeys.queues
        PROVE  /\ prekeys.queues[k] # <<>> /\ Len(prekeys.queues[k]) <= MaxPerRecipient
               /\ prekeys.queues[k] \in Seq([id : OpkIDs, publishedAt : 1..Horizon])
    BY <2>0 DEF IsStore, IsPool, Entry
  <2>2. \A k \in DOMAIN prekeys.tokens : prekeys.tokens[k].credit \in 0..(ClaimBurst * ClaimRefill)
    BY <2>0 DEF IsStore, Full
  <2>3. TypeOK
    BY <2>0, <2>1, <2>2 DEF TypeOK, IsStore
  <2>4. Cardinality(DOMAIN prekeys.tokens \ Buckets(prekeys)) <= 1
    <3> DEFINE left == DOMAIN prekeys.tokens \ Buckets(prekeys)
    <3>1. \A a, b \in left : a = b
      BY <2>0 DEF OneLeftOver
    <3> HIDE DEF left
    <3>2. Cardinality(left) = IF left = {} THEN 0 ELSE 1
      BY <3>1, AtMostOne
    <3>3. Cardinality(left) <= 1
      BY <3>2
    <3> QED
      BY <3>3 DEF left
  <2>5. Cardinality(Buckets(prekeys)) <= MaxBuckets
    BY <2>0 DEF IsStore
  <2> QED
    BY <2>1, <2>3, <2>4, <2>5 DEF PoolsBounded
<1> QED
  BY <1>1, PrekeyInvariance, PTL

\* takeTokenLocked never moves lastRefill back, so that claims drain a pool no
\* faster than its burst and refill, in whatever order late readings arrive.
THEOREM ClaimsThrottled == Spec => []DrainThrottled
<1>1. IInv => DrainThrottled
  <2> SUFFICES ASSUME IInv, NEW k \in Buckets(prekeys)
               PROVE  history[k].claimed * ClaimRefill <=
                        ClaimBurst * ClaimRefill + (now - history[k].born) + MaxLag
    BY DEF DrainThrottled
  <2> DEFINE claimed == history[k].claimed
             born == history[k].born
             spent == claimed * ClaimRefill
  <2>1. KeepsPace(prekeys, history, k, now) /\ now \in Nat /\ k \in BucketKeys
    BY PrekeyConstants DEF IInv, Throttled, IsStore
  <2>2. claimed \in Nat /\ born \in Nat /\ born <= now
    BY <2>1 DEF IInv, Record, KeepsPace
  <2>3. Full \in Nat /\ ClaimRefill \in Nat /\ MaxLag \in Nat
    BY FullType
  <2>4. CASE k \in DOMAIN prekeys.tokens
    <3> DEFINE credit == prekeys.tokens[k].credit
               last == prekeys.tokens[k].lastRefill
    <3>1. prekeys.tokens[k] \in [credit : 0..Full, lastRefill : Nat]
      BY <2>4 DEF IInv, IsStore
    <3>2. credit \in 0..Full /\ last \in Nat
      BY <3>1
    <3>3. last <= now /\ spent + credit <= Full + (last - born) + MaxLag
      BY <2>1, <2>4 DEF KeepsPace
    <3>4. spent \in Nat
      <4>1. \A a, b \in Nat : a * b \in Nat
        OBVIOUS
      <4> QED
        BY <2>2, <2>3, <4>1
    <3> HIDE DEF spent, credit, last, born, claimed
    <3>5. spent <= Full + (now - born) + MaxLag
      BY <2>1, <2>2, <2>3, <3>2, <3>3, <3>4
    <3> QED
      BY <3>5 DEF spent, born, claimed, Full
  <2>5. CASE k \notin DOMAIN prekeys.tokens
    <3>1. claimed = 0
      BY <2>1, <2>5 DEF KeepsPace
    <3>2. spent = 0
      BY <2>3, <3>1
    <3> HIDE DEF spent, born, claimed
    <3>3. spent <= Full + (now - born) + MaxLag
      BY <2>1, <2>2, <2>3, <3>2
    <3> QED
      BY <3>3 DEF spent, born, claimed, Full
  <2> QED
    BY <2>4, <2>5
<1> QED
  BY <1>1, PrekeyInvariance, PTL
=============================================================================
