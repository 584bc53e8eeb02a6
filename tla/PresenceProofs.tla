--------------------------- MODULE PresenceProofs ---------------------------
(***************************************************************************)
(* Proofs about Presence: exact caller counts within the ceilings, the     *)
(* precedence of revocations, and what a full table may evict.             *)
(***************************************************************************)
EXTENDS Presence, FiniteSetTheorems, TLAPS

Owners == {OwnerOf[g] : g \in Grants}

Records == [caller : Callers, lastSeen : Nat, updatedAt : Nat, expiresAt : Nat]
Tombstones == [updatedAt : Nat, expiresAt : Nat]

(***************************************************************************)
(* The parts of the inductive invariant, on a table s of records, counts   *)
(* and revocations.  The maps are finite because each has a ceiling, not   *)
(* because there were finitely many hashes.                                *)
(***************************************************************************)
IsTable(s) ==
  /\ s = [records |-> s.records, callers |-> s.callers, revocations |-> s.revocations]
  /\ s.records \in [DOMAIN s.records -> Records]
  /\ DOMAIN s.records \subseteq Grants
  /\ s.callers \in [DOMAIN s.callers -> Nat \ {0}]
  /\ DOMAIN s.callers \subseteq Callers
  /\ s.revocations \in [DOMAIN s.revocations -> Tombstones]
  /\ DOMAIN s.revocations \subseteq Owners

Charged(s, c) == {g \in DOMAIN s.records : s.records[g].caller = c}

Counted(s) == \A c \in Callers : Held(s.callers, c) = Cardinality(Charged(s, c))

Timely(s, t) ==
  \A g \in DOMAIN s.records :
    /\ 1 <= s.records[g].lastSeen /\ s.records[g].lastSeen <= t
    /\ s.records[g].lastSeen < s.records[g].expiresAt
    /\ s.records[g].expiresAt <= s.records[g].lastSeen + Lease

Outranked(s) ==
  \A g \in DOMAIN s.records :
    OwnerOf[g] \in DOMAIN s.revocations =>
      s.records[g].updatedAt > s.revocations[OwnerOf[g]].updatedAt

Fits(s) ==
  /\ IsFiniteSet(DOMAIN s.records) /\ Cardinality(DOMAIN s.records) <= maxRecords
  /\ IsFiniteSet(DOMAIN s.revocations) /\ Cardinality(DOMAIN s.revocations) <= maxRecords

Sane(s, t) == IsTable(s) /\ Counted(s) /\ Timely(s, t) /\ Outranked(s) /\ Fits(s)

-----------------------------------------------------------------------------
(***************************************************************************)
(* Counting.                                                               *)
(***************************************************************************)
\* A part of a finite set is finite and no larger.
LEMMA CardinalityPart ==
  ASSUME NEW S, IsFiniteSet(S), NEW T, T \subseteq S
  PROVE  /\ IsFiniteSet(T)
         /\ Cardinality(T) <= Cardinality(S)
         /\ Cardinality(S) \in Nat /\ Cardinality(T) \in Nat
BY FS_Subset, FS_CardinalityType

\* What is left of a finite set when some of it goes.
LEMMA CardinalityMinus ==
  ASSUME NEW S, IsFiniteSet(S), NEW T
  PROVE  /\ Cardinality(S \ T) = Cardinality(S) - Cardinality(S \cap T)
         /\ Cardinality(S \ T) \in Nat /\ Cardinality(S \cap T) \in Nat
         /\ Cardinality(S) \in Nat
<1>1. IsFiniteSet(S \ T) /\ IsFiniteSet(S \cap T)
  BY FS_Difference, FS_Intersection
<1>2. Cardinality(S \ T) = Cardinality(S) - Cardinality(S \cap T)
  BY FS_Difference
<1> QED
  BY <1>1, <1>2, FS_CardinalityType

\* The records charged to a caller are finitely many.
LEMMA ChargedFinite ==
  ASSUME NEW s, Fits(s), NEW c
  PROVE  IsFiniteSet(Charged(s, c)) /\ Cardinality(Charged(s, c)) \in Nat
<1>1. Charged(s, c) \subseteq DOMAIN s.records
  BY DEF Charged
<1> QED
  BY <1>1, CardinalityPart DEF Fits

\* The counts after some records were released are those of the other records.
LEMMA ReleaseCounts ==
  ASSUME NEW s, IsTable(s), Counted(s), Fits(s), NEW gone, gone \subseteq DOMAIN s.records
  PROVE  LET n == releaseLocked(s, gone)
         IN  /\ n \in [DOMAIN n -> Nat \ {0}] /\ DOMAIN n \subseteq Callers
             /\ \A c \in Callers : Held(n, c) = Cardinality(Charged(s, c) \ gone)
             /\ \A c \in Callers : Held(n, c) <= Held(s.callers, c)
<1> DEFINE going(c) == {g \in gone : s.records[g].caller = c}
           left == [c \in DOMAIN s.callers |-> s.callers[c] - Cardinality(going(c))]
           n == [c \in {x \in DOMAIN left : left[x] > 0} |-> left[c]]
<1>1. releaseLocked(s, gone) = n
  BY DEF releaseLocked, RestrictValues, Restrict
<1>2. ASSUME NEW c \in Callers
      PROVE  /\ Cardinality(Charged(s, c) \ gone) = Held(s.callers, c) - Cardinality(going(c))
             /\ Cardinality(Charged(s, c) \ gone) \in Nat /\ Cardinality(going(c)) \in Nat
             /\ Held(s.callers, c) \in Nat
  <2>1. Charged(s, c) \cap gone = going(c)
    BY DEF Charged
  <2>2. IsFiniteSet(Charged(s, c))
    BY ChargedFinite
  <2>3. /\ Cardinality(Charged(s, c) \ gone)
             = Cardinality(Charged(s, c)) - Cardinality(Charged(s, c) \cap gone)
        /\ Cardinality(Charged(s, c) \ gone) \in Nat
        /\ Cardinality(Charged(s, c) \cap gone) \in Nat /\ Cardinality(Charged(s, c)) \in Nat
    BY <2>2, CardinalityMinus
  <2>4. Held(s.callers, c) = Cardinality(Charged(s, c))
    BY DEF Counted
  <2> HIDE DEF going
  <2> QED
    BY <2>1, <2>3, <2>4
<1>3. /\ DOMAIN left = DOMAIN s.callers /\ DOMAIN s.callers \subseteq Callers
      /\ \A c \in DOMAIN s.callers : /\ s.callers[c] \in Nat \ {0}
                                     /\ Held(s.callers, c) = s.callers[c]
  BY DEF IsTable, Held
<1> HIDE DEF going
<1>4. ASSUME NEW c \in DOMAIN s.callers
      PROVE  left[c] = Cardinality(Charged(s, c) \ gone)
  BY <1>2, <1>3
<1>5. \A c \in DOMAIN s.callers : left[c] \in Nat
  BY <1>2, <1>3, <1>4
<1> HIDE DEF left
<1>6. /\ n \in [DOMAIN n -> Nat \ {0}] /\ DOMAIN n \subseteq Callers
      /\ DOMAIN n = {x \in DOMAIN s.callers : left[x] > 0}
      /\ \A c \in DOMAIN n : n[c] = left[c]
  BY <1>3, <1>5
<1> HIDE DEF n
<1>7. ASSUME NEW c \in Callers
      PROVE  /\ Held(n, c) = Cardinality(Charged(s, c) \ gone)
             /\ Held(n, c) <= Held(s.callers, c)
  <2>1. CASE c \in DOMAIN s.callers
    <3>1. /\ left[c] = Cardinality(Charged(s, c) \ gone) /\ left[c] \in Nat
          /\ left[c] <= Held(s.callers, c)
      <4>1. left[c] = Cardinality(Charged(s, c) \ gone) /\ left[c] \in Nat
        BY <1>4, <1>5, <2>1
      <4>2. /\ Cardinality(Charged(s, c) \ gone) = Held(s.callers, c) - Cardinality(going(c))
            /\ Cardinality(going(c)) \in Nat /\ Held(s.callers, c) \in Nat
        BY <1>2
      <4> QED
        BY <4>1, <4>2
    <3>2. CASE left[c] > 0
      BY <1>6, <2>1, <3>1, <3>2 DEF Held
    <3>3. CASE left[c] = 0
      <4>1. Held(n, c) = 0
        BY <1>6, <3>3 DEF Held
      <4> QED
        BY <3>1, <3>3, <4>1
    <3> QED
      BY <3>1, <3>2, <3>3
  <2>2. CASE c \notin DOMAIN s.callers
    <3>1. Held(s.callers, c) = 0 /\ Held(n, c) = 0
      BY <1>6, <2>2 DEF Held
    <3> QED
      BY <1>2, <3>1
  <2> QED
    BY <2>1, <2>2
<1> QED
  BY <1>1, <1>6, <1>7

-----------------------------------------------------------------------------
(***************************************************************************)
(* What the helpers do to a table.                                         *)
(***************************************************************************)
\* Dropping records keeps a table sane.
LEMMA DropSane ==
  ASSUME NEW s, NEW t, Sane(s, t), NEW gone, gone \subseteq DOMAIN s.records
  PROVE  LET n == dropLocked(s, gone)
         IN  /\ Sane(n, t)
             /\ n.records = [g \in DOMAIN s.records \ gone |-> s.records[g]]
             /\ n.revocations = s.revocations
             /\ \A c \in Callers : Held(n.callers, c) <= Held(s.callers, c)
<1> DEFINE counts == releaseLocked(s, gone)
           kept == [g \in DOMAIN s.records \ gone |-> s.records[g]]
           n == [records |-> kept, callers |-> counts, revocations |-> s.revocations]
<1>0. IsTable(s) /\ Counted(s) /\ Timely(s, t) /\ Outranked(s) /\ Fits(s)
  BY DEF Sane
<1>1. /\ counts \in [DOMAIN counts -> Nat \ {0}] /\ DOMAIN counts \subseteq Callers
      /\ \A c \in Callers : Held(counts, c) = Cardinality(Charged(s, c) \ gone)
      /\ \A c \in Callers : Held(counts, c) <= Held(s.callers, c)
  BY <1>0, ReleaseCounts
<1>2. dropLocked(s, gone) = n
  <2>1. Without(s.records, gone) = kept
    BY DEF Without, Restrict
  <2>2. dropLocked(s, gone) = [s EXCEPT !.records = Without(s.records, gone), !.callers = counts]
    BY DEF dropLocked
  <2>3. s = [records |-> s.records, callers |-> s.callers, revocations |-> s.revocations]
    BY <1>0 DEF IsTable
  <2> HIDE DEF counts, kept
  <2> QED
    BY <2>1, <2>2, <2>3
<1> HIDE DEF counts
<1>3. kept \in [DOMAIN kept -> Records] /\ DOMAIN kept = DOMAIN s.records \ gone
  BY <1>0 DEF IsTable
<1>4. \A g \in DOMAIN kept : kept[g] = s.records[g]
  OBVIOUS
<1> HIDE DEF kept
<1>5. IsTable(n)
  BY <1>0, <1>1, <1>3 DEF IsTable
<1>6. Counted(n)
  <2>1. \A c : Charged(n, c) = Charged(s, c) \ gone
    BY <1>3, <1>4 DEF Charged
  <2> QED
    BY <1>1, <2>1 DEF Counted
<1>7. Timely(n, t) /\ Outranked(n)
  BY <1>0, <1>3, <1>4 DEF Timely, Outranked
<1>8. Fits(n)
  <2>1. /\ IsFiniteSet(DOMAIN kept)
        /\ Cardinality(DOMAIN kept) <= Cardinality(DOMAIN s.records)
        /\ Cardinality(DOMAIN kept) \in Nat /\ Cardinality(DOMAIN s.records) \in Nat
    BY <1>0, <1>3, CardinalityPart DEF Fits
  <2> QED
    BY <1>0, <2>1, PresenceConstants DEF Fits
<1> QED
  BY <1>1, <1>2, <1>5, <1>6, <1>7, <1>8 DEF Sane, kept

\* Fewer revocations keep a table sane.
LEMMA FewerRevocations ==
  ASSUME NEW s, NEW t, Sane(s, t), NEW O, O \subseteq DOMAIN s.revocations
  PROVE  Sane([s EXCEPT !.revocations = [o \in O |-> s.revocations[o]]], t)
<1> DEFINE kept == [o \in O |-> s.revocations[o]]
           n == [records |-> s.records, callers |-> s.callers, revocations |-> kept]
<1>0. IsTable(s) /\ Counted(s) /\ Timely(s, t) /\ Outranked(s) /\ Fits(s)
  BY DEF Sane
<1>1. [s EXCEPT !.revocations = kept] = n
  BY <1>0 DEF IsTable
<1>2. /\ kept \in [DOMAIN kept -> Tombstones] /\ DOMAIN kept = O
      /\ \A o \in O : kept[o] = s.revocations[o]
  BY <1>0 DEF IsTable
<1> HIDE DEF kept
<1>3. IsTable(n)
  BY <1>0, <1>2 DEF IsTable
<1>4. Counted(n) /\ Timely(n, t) /\ Outranked(n)
  BY <1>0, <1>2 DEF Counted, Charged, Timely, Outranked
<1>5. Fits(n)
  <2>1. /\ IsFiniteSet(O)
        /\ Cardinality(O) <= Cardinality(DOMAIN s.revocations)
        /\ Cardinality(O) \in Nat /\ Cardinality(DOMAIN s.revocations) \in Nat
    BY <1>0, CardinalityPart DEF Fits
  <2> QED
    BY <1>0, <1>2, <2>1, PresenceConstants DEF Fits
<1> QED
  BY <1>1, <1>3, <1>4, <1>5 DEF Sane, kept

\* Pruning keeps a table sane, and takes only leases that are over.
LEMMA PruneSane ==
  ASSUME NEW s, NEW t0, Sane(s, t0), NEW t \in Nat
  PROVE  LET n == pruneLocked(s, t)
         IN  /\ Sane(n, t0)
             /\ DOMAIN n.records \subseteq DOMAIN s.records
             /\ \A g \in DOMAIN n.records : n.records[g] = s.records[g]
             /\ \A g \in DOMAIN s.records \ DOMAIN n.records : s.records[g].expiresAt <= t
             /\ \A c \in Callers : Held(n.callers, c) <= Held(s.callers, c)
<1> DEFINE stale == {g \in DOMAIN s.records : s.records[g].lastSeen + lastSeenTTL < t}
           d == dropLocked(s, stale)
           O == {o \in DOMAIN s.revocations : s.revocations[o].expiresAt > t}
           n == [d EXCEPT !.revocations = [o \in O |-> d.revocations[o]]]
<1>1. /\ Sane(d, t0)
      /\ d.records = [g \in DOMAIN s.records \ stale |-> s.records[g]]
      /\ d.revocations = s.revocations
      /\ \A c \in Callers : Held(d.callers, c) <= Held(s.callers, c)
  BY DropSane
<1>2. pruneLocked(s, t) = n
  <2>1. pruneLocked(s, t) = [d EXCEPT !.revocations =
                               RestrictDomain(d.revocations, LAMBDA o : s.revocations[o].expiresAt > t)]
    BY DEF pruneLocked
  <2>2. RestrictDomain(d.revocations, LAMBDA o : s.revocations[o].expiresAt > t)
          = [o \in O |-> d.revocations[o]]
    BY <1>1 DEF RestrictDomain, Restrict
  <2> HIDE DEF d
  <2> QED
    BY <2>1, <2>2
<1>3. ASSUME NEW g \in stale
      PROVE  s.records[g].expiresAt <= t
  <2>1. /\ s.records[g].lastSeen \in Nat /\ s.records[g].expiresAt \in Nat
        /\ s.records[g].expiresAt <= s.records[g].lastSeen + Lease
    BY DEF Sane, IsTable, Records, Timely
  <2>2. s.records[g].lastSeen + lastSeenTTL < t
    OBVIOUS
  <2> QED
    BY <2>1, <2>2, PresenceConstants
<1> HIDE DEF d, stale
<1>4. Sane(n, t0)
  BY <1>1, FewerRevocations
<1>5. n.records = d.records /\ n.callers = d.callers
  BY <1>1 DEF Sane, IsTable
<1> HIDE DEF n
<1> QED
  BY <1>1, <1>2, <1>3, <1>4, <1>5

\* Storing a lease keeps a table sane that has a place for it and holds no
\* revocation of its owner.
LEMMA PutSane ==
  ASSUME NEW s, NEW t, Sane(s, t), NEW g \in Grants, NEW r \in Records,
         1 <= r.lastSeen, r.lastSeen <= t, r.lastSeen < r.expiresAt,
         r.expiresAt <= r.lastSeen + Lease,
         OwnerOf[g] \notin DOMAIN s.revocations,
         g \in DOMAIN s.records \/ Cardinality(DOMAIN s.records) < maxRecords
  PROVE  LET n == putLocked(s, g, r)
         IN  /\ Sane(n, t)
             /\ DOMAIN n.records = DOMAIN s.records \cup {g}
<1> DEFINE gone == {g} \cap DOMAIN s.records
           released == releaseLocked(s, gone)
           stored == Put(s.records, g, r)
           counts == Put(released, r.caller, Held(released, r.caller) + 1)
           n == [records |-> stored, callers |-> counts, revocations |-> s.revocations]
<1>0. IsTable(s) /\ Counted(s) /\ Timely(s, t) /\ Outranked(s) /\ Fits(s)
  BY DEF Sane
<1>1. /\ released \in [DOMAIN released -> Nat \ {0}] /\ DOMAIN released \subseteq Callers
      /\ \A c \in Callers : Held(released, c) = Cardinality(Charged(s, c) \ gone)
  BY <1>0, ReleaseCounts
<1>2. putLocked(s, g, r) = n
  <2>1. putLocked(s, g, r) = [s EXCEPT !.records = stored, !.callers = counts]
    BY DEF putLocked
  <2>2. s = [records |-> s.records, callers |-> s.callers, revocations |-> s.revocations]
    BY <1>0 DEF IsTable
  <2> HIDE DEF counts, stored
  <2> QED
    BY <2>1, <2>2
<1> HIDE DEF released
<1>3. /\ stored \in [DOMAIN stored -> Records] /\ DOMAIN stored = DOMAIN s.records \cup {g}
      /\ stored[g] = r /\ \A h \in DOMAIN s.records \ {g} : stored[h] = s.records[h]
  BY <1>0 DEF IsTable, Put
<1> HIDE DEF stored
<1>4. r.caller \in Callers
  BY DEF Records
<1>5. /\ DOMAIN counts = DOMAIN released \cup {r.caller}
      /\ counts[r.caller] = Held(released, r.caller) + 1
      /\ \A c \in DOMAIN released \ {r.caller} : counts[c] = released[c]
  BY DEF Put
<1>6. ASSUME NEW c \in Callers
      PROVE  Held(released, c) \in Nat
  BY <1>1 DEF Held
<1> HIDE DEF counts
<1>7. counts \in [DOMAIN counts -> Nat \ {0}] /\ DOMAIN counts \subseteq Callers
  <2>1. counts = [c \in DOMAIN counts |-> counts[c]]
    BY DEF counts, Put
  <2>2. \A c \in DOMAIN counts : counts[c] \in Nat \ {0}
    BY <1>1, <1>4, <1>5, <1>6
  <2> QED
    BY <1>1, <1>4, <1>5, <2>1, <2>2
<1>8. IsTable(n)
  BY <1>0, <1>3, <1>7 DEF IsTable
<1>9. Counted(n)
  <2> SUFFICES ASSUME NEW c \in Callers
               PROVE  Held(counts, c) = Cardinality(Charged(n, c))
    BY DEF Counted
  <2>1. Charged(s, c) \ gone = Charged(s, c) \ {g}
    BY DEF Charged
  <2>2. Held(released, c) = Cardinality(Charged(s, c) \ {g})
    BY <1>1, <2>1
  <2>3. CASE c = r.caller
    <3>1. Charged(n, c) = (Charged(s, c) \ {g}) \cup {g}
      BY <1>3, <2>3 DEF Charged
    <3>2. IsFiniteSet(Charged(s, c) \ {g})
      BY <1>0, ChargedFinite, FS_Difference
    <3>3. Cardinality((Charged(s, c) \ {g}) \cup {g}) = Cardinality(Charged(s, c) \ {g}) + 1
      BY <3>2, FS_AddElement
    <3> QED
      BY <1>5, <2>2, <2>3, <3>1, <3>3 DEF Held
  <2>4. CASE c # r.caller
    <3>1. Charged(n, c) = Charged(s, c) \ {g}
      BY <1>3, <2>4 DEF Charged
    <3>2. Held(counts, c) = Held(released, c)
      BY <1>5, <2>4 DEF Held
    <3> QED
      BY <2>2, <3>1, <3>2
  <2> QED
    BY <2>3, <2>4
<1>10. Timely(n, t)
  BY <1>0, <1>3 DEF Timely
<1>11. Outranked(n)
  BY <1>0, <1>3 DEF Outranked
<1>12. Fits(n)
  <2>1. IsFiniteSet(DOMAIN stored) /\ Cardinality(DOMAIN stored) <= maxRecords
    <3>1. CASE g \in DOMAIN s.records
      <4>1. DOMAIN stored = DOMAIN s.records
        BY <1>3, <3>1
      <4> QED
        BY <1>0, <4>1 DEF Fits
    <3>2. CASE g \notin DOMAIN s.records
      <4>1. /\ IsFiniteSet(DOMAIN s.records \cup {g})
            /\ Cardinality(DOMAIN s.records \cup {g}) = Cardinality(DOMAIN s.records) + 1
        BY <1>0, <3>2, FS_AddElement DEF Fits
      <4>2. Cardinality(DOMAIN s.records) \in Nat
        BY <1>0, FS_CardinalityType DEF Fits
      <4> QED
        BY <1>3, <3>2, <4>1, <4>2, PresenceConstants
    <3> QED
      BY <3>1, <3>2
  <2> QED
    BY <1>0, <2>1 DEF Fits
<1> QED
  BY <1>2, <1>3, <1>8, <1>9, <1>10, <1>11, <1>12 DEF Sane

\* A full table makes room by dropping a lease that is over, or one of a
\* caller past its share.
LEMMA RoomSane ==
  ASSUME NEW s, NEW t0, Sane(s, t0), NEW t, NEW caller,
         NEW n \in makeRoomLocked(s, t, caller)
  PROVE  /\ Sane(n, t0)
         /\ Cardinality(DOMAIN n.records) < maxRecords
         /\ n.revocations = s.revocations
         /\ DOMAIN n.records \subseteq DOMAIN s.records
         /\ \A g \in DOMAIN s.records \ DOMAIN n.records :
              \/ s.records[g].expiresAt <= t
              \/ Held(s.callers, s.records[g].caller) > maxRecordsPerCaller
<1>1. CASE Cardinality(DOMAIN s.records) < maxRecords
  <2>1. n = s
    BY <1>1 DEF makeRoomLocked
  <2> QED
    BY <1>1, <2>1
<1>2. CASE ~(Cardinality(DOMAIN s.records) < maxRecords)
  <2>1. PICK v \in Victims(s, t, caller) : n = dropLocked(s, {v})
    BY <1>2 DEF makeRoomLocked
  <2>2. v \in DOMAIN s.records /\ Rank(s, t, caller, v) < 2
    BY DEF Victims
  <2>3. /\ Sane(n, t0)
        /\ n.records = [g \in DOMAIN s.records \ {v} |-> s.records[g]]
        /\ n.revocations = s.revocations
    BY <2>1, <2>2, DropSane
  <2>4. DOMAIN n.records = DOMAIN s.records \ {v}
    BY <2>3
  <2>5. Cardinality(DOMAIN n.records) < maxRecords
    <3>1. /\ IsFiniteSet(DOMAIN s.records) /\ Cardinality(DOMAIN s.records) <= maxRecords
          /\ Cardinality(DOMAIN s.records) \in Nat
      BY FS_CardinalityType DEF Sane, Fits
    <3>2. Cardinality(DOMAIN s.records \ {v}) = Cardinality(DOMAIN s.records) - 1
      BY <2>2, <3>1, FS_RemoveElement
    <3> QED
      BY <2>4, <3>1, <3>2, PresenceConstants
  <2>6. \/ s.records[v].expiresAt <= t
        \/ Held(s.callers, s.records[v].caller) > maxRecordsPerCaller
    BY <2>2 DEF Rank
  <2> QED
    BY <2>3, <2>4, <2>5, <2>6
<1> QED
  BY <1>1, <1>2

\* A revocation the table has room for, newer than every lease of its owner
\* that is left, keeps it sane.
LEMMA RevocationSane ==
  ASSUME NEW s, NEW t, Sane(s, t), NEW owner \in Owners, NEW value \in Tombstones,
         \/ owner \in DOMAIN s.revocations
         \/ Cardinality(DOMAIN s.revocations) < maxRecords,
         \A g \in DOMAIN s.records :
           OwnerOf[g] = owner => s.records[g].updatedAt > value.updatedAt
  PROVE  LET n == [s EXCEPT !.revocations = Put(@, owner, value)]
         IN  /\ Sane(n, t)
             /\ n.records = s.records /\ n.callers = s.callers
             /\ n.revocations = Put(s.revocations, owner, value)
<1> DEFINE kept == Put(s.revocations, owner, value)
           n == [records |-> s.records, callers |-> s.callers, revocations |-> kept]
<1>0. IsTable(s) /\ Counted(s) /\ Timely(s, t) /\ Outranked(s) /\ Fits(s)
  BY DEF Sane
<1>1. [s EXCEPT !.revocations = kept] = n
  <2> HIDE DEF kept
  <2> QED
    BY <1>0 DEF IsTable
<1>2. /\ kept \in [DOMAIN kept -> Tombstones] /\ DOMAIN kept = DOMAIN s.revocations \cup {owner}
      /\ kept[owner] = value
      /\ \A o \in DOMAIN s.revocations \ {owner} : kept[o] = s.revocations[o]
  BY <1>0 DEF IsTable, Put
<1> HIDE DEF kept
<1>3. IsTable(n)
  BY <1>0, <1>2 DEF IsTable
<1>4. Counted(n) /\ Timely(n, t)
  BY <1>0 DEF Counted, Charged, Timely
<1>5. Outranked(n)
  BY <1>0, <1>2 DEF Outranked
<1>6. Fits(n)
  <2>1. IsFiniteSet(DOMAIN kept) /\ Cardinality(DOMAIN kept) <= maxRecords
    <3>1. CASE owner \in DOMAIN s.revocations
      <4>1. DOMAIN kept = DOMAIN s.revocations
        BY <1>2, <3>1
      <4> QED
        BY <1>0, <4>1 DEF Fits
    <3>2. CASE owner \notin DOMAIN s.revocations
      <4>1. /\ IsFiniteSet(DOMAIN s.revocations \cup {owner})
            /\ Cardinality(DOMAIN s.revocations \cup {owner})
                 = Cardinality(DOMAIN s.revocations) + 1
        BY <1>0, <3>2, FS_AddElement DEF Fits
      <4>2. Cardinality(DOMAIN s.revocations) \in Nat
        BY <1>0, FS_CardinalityType DEF Fits
      <4> QED
        BY <1>2, <3>2, <4>1, <4>2, PresenceConstants
    <3> QED
      BY <3>1, <3>2
  <2> QED
    BY <1>0, <2>1 DEF Fits
<1> QED
  BY <1>1, <1>3, <1>4, <1>5, <1>6 DEF Sane, kept

-----------------------------------------------------------------------------
(***************************************************************************)
(* The operations.                                                         *)
(***************************************************************************)
Leases == [grant : Grants, updatedAt : Nat, expiresAt : Nat]

\* What a lease may lose its place for while other leases are stored.
GivesWay(s, t, g) ==
  \/ s.records[g].expiresAt <= t
  \/ Held(s.callers, s.records[g].caller) > maxRecordsPerCaller

\* A heartbeat or a replicated lease, at a clock reading not ahead of t0.
LEMMA StoreLeaseSane ==
  ASSUME NEW s, NEW t0 \in Nat, Sane(s, t0), NEW t \in Nat, 1 <= t, t <= t0,
         NEW lease \in Leases, LeaseValid(lease, t), NEW caller \in Callers,
         NEW n \in storeLease(s, lease, caller, t)
  PROVE  /\ Sane(n, t0)
         /\ \A g \in DOMAIN s.records \ DOMAIN n.records : GivesWay(s, t0, g)
<1> DEFINE pruned == pruneLocked(s, t)
           owner == OwnerOf[lease.grant]
           cleared == [pruned EXCEPT !.revocations = Without(@, {owner})]
           rooms == IF lease.grant \in DOMAIN cleared.records THEN {cleared}
                    ELSE makeRoomLocked(cleared, t, caller)
           record == [caller |-> caller, lastSeen |-> t, updatedAt |-> lease.updatedAt,
                      expiresAt |-> lease.expiresAt]
<1>1. /\ Sane(pruned, t0)
      /\ DOMAIN pruned.records \subseteq DOMAIN s.records
      /\ \A g \in DOMAIN pruned.records : pruned.records[g] = s.records[g]
      /\ \A g \in DOMAIN s.records \ DOMAIN pruned.records : s.records[g].expiresAt <= t
      /\ \A c \in Callers : Held(pruned.callers, c) <= Held(s.callers, c)
  BY PruneSane
<1>2. \/ n \in {pruned, cleared}
      \/ \E room \in rooms : n = putLocked(room, lease.grant, record)
  BY DEF storeLease
<1> HIDE DEF pruned
<1>3. /\ Sane(cleared, t0)
      /\ cleared.records = pruned.records /\ cleared.callers = pruned.callers
      /\ owner \notin DOMAIN cleared.revocations
  <2> DEFINE O == DOMAIN pruned.revocations \ {owner}
  <2>1. Without(pruned.revocations, {owner}) = [o \in O |-> pruned.revocations[o]]
    BY DEF Without, Restrict
  <2>2. cleared = [pruned EXCEPT !.revocations = [o \in O |-> pruned.revocations[o]]]
    BY <2>1
  <2>3. Sane(cleared, t0)
    BY <1>1, <2>2, FewerRevocations
  <2>4. pruned = [records |-> pruned.records, callers |-> pruned.callers,
                  revocations |-> pruned.revocations]
    BY <1>1 DEF Sane, IsTable
  <2>5. cleared = [records |-> pruned.records, callers |-> pruned.callers,
                   revocations |-> [o \in O |-> pruned.revocations[o]]]
    BY <2>2, <2>4
  <2> QED
    BY <2>3, <2>5
<1> HIDE DEF cleared
<1>4. ASSUME NEW g \in DOMAIN s.records, \/ g \notin DOMAIN pruned.records
                                          \/ pruned.records[g].expiresAt <= t
                                          \/ Held(pruned.callers, pruned.records[g].caller)
                                               > maxRecordsPerCaller
      PROVE  GivesWay(s, t0, g)
  <2>1. s.records[g].expiresAt \in Nat /\ s.records[g].caller \in Callers
    BY DEF Sane, IsTable, Records
  <2>2. /\ Held(s.callers, s.records[g].caller) \in Nat
        /\ Held(pruned.callers, s.records[g].caller) \in Nat
    BY <1>1, <2>1 DEF Sane, IsTable, Held
  <2>3. CASE g \notin DOMAIN pruned.records
    BY <1>1, <2>1, <2>3 DEF GivesWay
  <2>4. CASE g \in DOMAIN pruned.records
    <3>1. /\ pruned.records[g] = s.records[g]
          /\ Held(pruned.callers, s.records[g].caller) <= Held(s.callers, s.records[g].caller)
      BY <1>1, <2>1, <2>4
    <3> QED
      BY <1>4, <2>1, <2>2, <2>4, <3>1, PresenceConstants DEF GivesWay
  <2> QED
    BY <2>3, <2>4
<1>5. CASE n \in {pruned, cleared}
  BY <1>1, <1>3, <1>4, <1>5
<1>6. CASE \E room \in rooms : n = putLocked(room, lease.grant, record)
  <2>1. PICK room \in rooms : n = putLocked(room, lease.grant, record)
    BY <1>6
  <2>2. /\ Sane(room, t0)
        /\ lease.grant \in DOMAIN room.records \/ Cardinality(DOMAIN room.records) < maxRecords
        /\ room.revocations = cleared.revocations
        /\ DOMAIN room.records \subseteq DOMAIN cleared.records
        /\ \A g \in DOMAIN cleared.records \ DOMAIN room.records :
             \/ cleared.records[g].expiresAt <= t
             \/ Held(cleared.callers, cleared.records[g].caller) > maxRecordsPerCaller
    <3>1. CASE lease.grant \in DOMAIN cleared.records
      <4>1. room = cleared
        BY <3>1
      <4> QED
        BY <1>3, <3>1, <4>1
    <3>2. CASE lease.grant \notin DOMAIN cleared.records
      <4>1. room \in makeRoomLocked(cleared, t, caller)
        BY <3>2
      <4> QED
        BY <1>3, <4>1, RoomSane
    <3> QED
      BY <3>1, <3>2
  <2>3. record \in Records /\ lease.grant \in Grants
    BY DEF Records, Leases
  <2>4. /\ 1 <= record.lastSeen /\ record.lastSeen <= t0 /\ record.lastSeen < record.expiresAt
        /\ record.expiresAt <= record.lastSeen + Lease
    BY DEF LeaseValid, Leases
  <2>5. OwnerOf[lease.grant] \notin DOMAIN room.revocations
    BY <1>3, <2>2
  <2> HIDE DEF record, rooms
  <2>6. Sane(n, t0) /\ DOMAIN n.records = DOMAIN room.records \cup {lease.grant}
    BY <2>1, <2>2, <2>3, <2>4, <2>5, PutSane
  <2> QED
    BY <1>3, <1>4, <2>2, <2>6
<1> HIDE DEF rooms, record
<1> QED
  BY <1>2, <1>5, <1>6

\* Revoke: the owner's leases go, and nothing else does.
LEMMA RevokeSane ==
  ASSUME NEW s, NEW t \in Nat, Sane(s, t), NEW owner \in Owners, NEW value \in Tombstones
  PROVE  LET n == storeRevocationLocked(dropLocked(s, Owned(s, owner)), owner, value)
         IN  Sane(n, t) /\ DOMAIN n.records = DOMAIN s.records \ Owned(s, owner)
<1> DEFINE d == dropLocked(s, Owned(s, owner))
<1>1. Owned(s, owner) \subseteq DOMAIN s.records
  BY DEF Owned
<1>2. /\ Sane(d, t)
      /\ d.records = [g \in DOMAIN s.records \ Owned(s, owner) |-> s.records[g]]
      /\ d.revocations = s.revocations
  BY <1>1, DropSane
<1>3. \A g \in DOMAIN d.records : OwnerOf[g] # owner
  BY <1>2 DEF Owned
<1>4. DOMAIN d.records = DOMAIN s.records \ Owned(s, owner)
  BY <1>2
<1> HIDE DEF d
<1>5. CASE owner \notin DOMAIN d.revocations /\ Cardinality(DOMAIN d.revocations) >= maxRecords
  BY <1>2, <1>4, <1>5 DEF storeRevocationLocked, d
<1>6. CASE ~(owner \notin DOMAIN d.revocations /\ Cardinality(DOMAIN d.revocations) >= maxRecords)
  <2>1. storeRevocationLocked(d, owner, value) = [d EXCEPT !.revocations = Put(@, owner, value)]
    BY <1>6 DEF storeRevocationLocked
  <2>2. Cardinality(DOMAIN d.revocations) \in Nat
    BY <1>2, FS_CardinalityType DEF Sane, Fits
  <2>3. owner \in DOMAIN d.revocations \/ Cardinality(DOMAIN d.revocations) < maxRecords
    BY <1>6, <2>2, PresenceConstants
  <2>4. LET n == [d EXCEPT !.revocations = Put(@, owner, value)]
        IN  Sane(n, t) /\ n.records = d.records
    BY <1>2, <1>3, <2>3, RevocationSane
  <2> QED
    BY <1>4, <2>1, <2>4 DEF d
<1> QED
  BY <1>5, <1>6

\* A revocation from another relay: only leases it outdates go.
LEMMA ImportRevocationSane ==
  ASSUME NEW s, NEW t0 \in Nat, Sane(s, t0), NEW t \in Nat,
         NEW owner \in Owners, NEW value \in Tombstones
  PROVE  LET n == importRevocation(s, owner, value, t)
         IN  /\ Sane(n, t0)
             /\ \A g \in DOMAIN s.records \ DOMAIN n.records : OwnerOf[g] \in DOMAIN n.revocations
<1> DEFINE known == owner \in DOMAIN s.revocations
           stored == [s EXCEPT !.revocations = Put(@, owner, value)]
           outdated == {g \in Owned(s, owner) : s.records[g].updatedAt <= value.updatedAt}
           d == dropLocked(s, outdated)
           refused == \/ value.expiresAt <= t
                      \/ known /\ value.updatedAt <= s.revocations[owner].updatedAt
                      \/ ~known /\ Cardinality(DOMAIN s.revocations) >= maxRecords
           n == [d EXCEPT !.revocations = Put(@, owner, value)]
<1>1. CASE refused
  BY <1>1 DEF importRevocation
<1>2. CASE ~refused
  <2>1. importRevocation(s, owner, value, t) = dropLocked(stored, outdated)
    BY <1>2 DEF importRevocation
  <2>2. outdated \subseteq DOMAIN s.records
    BY DEF Owned
  <2>3. /\ Sane(d, t0)
        /\ d.records = [g \in DOMAIN s.records \ outdated |-> s.records[g]]
        /\ d.revocations = s.revocations
    BY <2>2, DropSane
  <2>4. dropLocked(stored, outdated) = n
    <3>1. s = [records |-> s.records, callers |-> s.callers, revocations |-> s.revocations]
      BY DEF Sane, IsTable
    <3> DEFINE R == Put(s.revocations, owner, value)
    <3>2. stored = [records |-> s.records, callers |-> s.callers, revocations |-> R]
      <4> HIDE DEF R
      <4>1. stored = [s EXCEPT !.revocations = R]
        BY DEF R
      <4> QED
        BY <3>1, <4>1
    <3> HIDE DEF R, outdated, stored
    <3>3. releaseLocked(stored, outdated) = releaseLocked(s, outdated)
      BY <3>2 DEF releaseLocked
    <3> DEFINE kept == Without(s.records, outdated)
               counts == releaseLocked(s, outdated)
    <3>4. dropLocked(stored, outdated) = [stored EXCEPT !.records = kept, !.callers = counts]
      BY <3>2, <3>3 DEF dropLocked
    <3>5. d = [s EXCEPT !.records = kept, !.callers = counts]
      BY DEF dropLocked
    <3> HIDE DEF kept, counts, d
    <3>6. d = [records |-> kept, callers |-> counts, revocations |-> s.revocations]
      BY <3>1, <3>5
    <3>7. n = [records |-> kept, callers |-> counts, revocations |-> R]
      BY <3>6 DEF R
    <3> QED
      BY <3>2, <3>4, <3>7
  <2>5. owner \in DOMAIN d.revocations \/ Cardinality(DOMAIN d.revocations) < maxRecords
    <3>1. Cardinality(DOMAIN s.revocations) \in Nat
      BY FS_CardinalityType DEF Sane, Fits
    <3> QED
      BY <1>2, <2>3, <3>1, PresenceConstants
  <2>6. ASSUME NEW g \in DOMAIN d.records, OwnerOf[g] = owner
        PROVE  d.records[g].updatedAt > value.updatedAt
    <3>1. g \in DOMAIN s.records /\ g \notin outdated /\ d.records[g] = s.records[g]
      BY <2>3
    <3>2. s.records[g].updatedAt \in Nat /\ value.updatedAt \in Nat
      BY <3>1 DEF Sane, IsTable, Records, Tombstones
    <3>3. ~(s.records[g].updatedAt <= value.updatedAt)
      BY <2>6, <3>1 DEF Owned
    <3> QED
      BY <3>1, <3>2, <3>3
  <2>7. \A g \in DOMAIN s.records \ DOMAIN d.records : OwnerOf[g] = owner
    BY <2>3 DEF Owned
  <2> HIDE DEF d
  <2>8. /\ Sane(n, t0) /\ n.records = d.records
        /\ n.revocations = Put(d.revocations, owner, value)
    <3>1. Sane(d, t0)
      BY <2>3
    <3>2. \A g \in DOMAIN d.records : OwnerOf[g] = owner => d.records[g].updatedAt > value.updatedAt
      BY <2>6
    <3> QED
      BY <2>5, <3>1, <3>2, RevocationSane
  <2>9. owner \in DOMAIN n.revocations
    BY <2>8 DEF Put
  <2> HIDE DEF n
  <2> QED
    BY <2>1, <2>4, <2>7, <2>8, <2>9
<1> QED
  BY <1>1, <1>2

-----------------------------------------------------------------------------
(***************************************************************************)
(* The inductive invariant: a sane table, and what other relays may send   *)
(* is of the right kind.  The wire says nothing of how long a lease runs:  *)
(* LeaseValid is what keeps an imported one inside Lease.                  *)
(***************************************************************************)
Messages ==
  /\ wire = [leases |-> wire.leases, revocations |-> wire.revocations]
  /\ wire.leases \subseteq Leases
  /\ wire.revocations \subseteq [owner : Owners, updatedAt : Nat, expiresAt : Nat]

IInv == Sane(table, now) /\ Messages /\ now \in 1..Horizon

\* The kinds of step: the table is replaced by one that an operation makes of
\* it, or only the wire or the clock move.
Stores ==
  \E t \in Readings, lease \in Leases, caller \in Callers :
    /\ LeaseValid(lease, t)
    /\ \E s \in storeLease(table, lease, caller, t) : Becomes(s)

Prunes == \E t \in Readings : Becomes(pruneLocked(table, t))

Revokes ==
  \E owner \in Owners, value \in Tombstones :
    Becomes(storeRevocationLocked(dropLocked(table, Owned(table, owner)), owner, value))

Imports ==
  \E owner \in Owners, value \in Tombstones :
    Becomes(importRevocation(table, owner, value, now))

Rests == UNCHANGED <<records, callers, revocations>>

\* Every step is one of these kinds; only Tick moves the clock.
LEMMA StepKinds ==
  ASSUME IInv, [Next]_vars
  PROVE  /\ Stores \/ Prunes \/ Revokes \/ Imports \/ Rests
         /\ (Rests /\ now' = now + 1 /\ now' \in 1..Horizon) \/ UNCHANGED now
         /\ Messages'
<1>0. /\ now \in 1..Horizon /\ Horizon \in Nat
      /\ Messages /\ Sane(table, now)
  BY PresenceConstants DEF IInv
<1>1. ASSUME UNCHANGED wire
      PROVE  Messages'
  BY <1>0, <1>1 DEF Messages
<1>2. ASSUME NEW t \in Readings
      PROVE  t \in Nat /\ 1 <= t /\ t <= now
  BY <1>0 DEF Readings
<1>3. ASSUME NEW t \in Readings, NEW g \in Grants, NEW c \in Callers, NEW u \in Dates \cup {t},
             NEW x \in {t + 1, t + Lease}, Heartbeat(g, c, t, u, x)
      PROVE  Stores /\ UNCHANGED now /\ Messages'
  <2> DEFINE lease == [grant |-> g, updatedAt |-> u, expiresAt |-> x]
  <2>1. lease \in Leases
    BY <1>2, PresenceConstants DEF Leases
  <2>2. /\ LeaseValid(lease, t) /\ \E s \in storeLease(table, lease, c, t) : Becomes(s)
        /\ UNCHANGED <<wire, now>>
    BY <1>3 DEF Heartbeat
  <2> HIDE DEF lease
  <2> QED
    BY <1>1, <2>1, <2>2 DEF Stores
<1>4. ASSUME NEW t \in Readings, NEW lease \in wire.leases, Import(lease, t)
      PROVE  Stores /\ UNCHANGED now /\ Messages'
  <2>1. lease \in Leases /\ Nobody \in Callers
    BY <1>0, PresenceConstants DEF Messages
  <2>2. /\ LeaseValid(lease, t) /\ \E s \in storeLease(table, lease, Nobody, t) : Becomes(s)
        /\ UNCHANGED <<wire, now>>
    BY <1>4 DEF Import
  <2> QED
    BY <1>1, <2>1, <2>2 DEF Stores
<1>5. ASSUME NEW t \in Readings, Prune(t)
      PROVE  Prunes /\ UNCHANGED now /\ Messages'
  BY <1>1, <1>5 DEF Prune, Prunes
<1>6. ASSUME NEW t \in Readings
      PROVE  Sane(pruneLocked(table, t), now)
  BY <1>0, <1>2, PruneSane
<1>7. ASSUME NEW t \in Readings, Snapshot(t)
      PROVE  Prunes /\ UNCHANGED now /\ Messages'
  <2> DEFINE s == pruneLocked(table, t)
             sent == {[grant |-> g, updatedAt |-> s.records[g].updatedAt,
                       expiresAt |-> s.records[g].expiresAt] : g \in DOMAIN s.records}
  <2>1. sent \subseteq Leases
    <3>1. Sane(s, now)
      BY <1>6
    <3> HIDE DEF s
    <3> QED
      BY <3>1 DEF Sane, IsTable, Records, Leases
  <2>2. Becomes(s) /\ UNCHANGED now
    BY <1>7 DEF Snapshot
  <2>3. wire' = [wire EXCEPT !.leases = @ \cup sent]
    BY <1>7 DEF Snapshot
  <2> HIDE DEF sent
  <2>4. Messages'
    <3>1. wire' = [leases |-> wire.leases \cup sent, revocations |-> wire.revocations]
      BY <1>0, <2>3 DEF Messages
    <3> QED
      BY <1>0, <2>1, <3>1 DEF Messages
  <2> QED
    BY <2>2, <2>4 DEF Prunes
<1>8. ASSUME NEW t \in Readings, Revocations(t)
      PROVE  Prunes /\ UNCHANGED now /\ Messages'
  <2> DEFINE s == pruneLocked(table, t)
             sent == {[owner |-> o, updatedAt |-> s.revocations[o].updatedAt,
                       expiresAt |-> s.revocations[o].expiresAt] : o \in DOMAIN s.revocations}
  <2>1. sent \subseteq [owner : Owners, updatedAt : Nat, expiresAt : Nat]
    <3>1. Sane(s, now)
      BY <1>6
    <3> HIDE DEF s
    <3> QED
      BY <3>1 DEF Sane, IsTable, Tombstones
  <2>2. Becomes(s) /\ UNCHANGED now
    BY <1>8 DEF Revocations
  <2>3. wire' = [wire EXCEPT !.revocations = @ \cup sent]
    BY <1>8 DEF Revocations
  <2> HIDE DEF sent
  <2>4. Messages'
    <3>1. wire' = [leases |-> wire.leases, revocations |-> wire.revocations \cup sent]
      BY <1>0, <2>3 DEF Messages
    <3> QED
      BY <1>0, <2>1, <3>1 DEF Messages
  <2> QED
    BY <2>2, <2>4 DEF Prunes
<1>9. ASSUME NEW g \in Grants, Revoke(OwnerOf[g])
      PROVE  Revokes /\ UNCHANGED now /\ Messages'
  <2> DEFINE value == [updatedAt |-> now, expiresAt |-> now + lastSeenTTL]
  <2>1. OwnerOf[g] \in Owners /\ value \in Tombstones
    BY <1>0, PresenceConstants DEF Owners, Tombstones
  <2>2. /\ Becomes(storeRevocationLocked(dropLocked(table, Owned(table, OwnerOf[g])),
                                         OwnerOf[g], value))
        /\ UNCHANGED <<wire, now>>
    BY <1>9 DEF Revoke
  <2> HIDE DEF value
  <2> QED
    BY <1>1, <2>1, <2>2 DEF Revokes
<1>10. ASSUME NEW g \in Grants, Elsewhere(g)
       PROVE  Rests /\ UNCHANGED now /\ Messages'
  <2>1. [grant |-> g, updatedAt |-> now, expiresAt |-> now + Lease] \in Leases
    BY <1>0, PresenceConstants DEF Leases
  <2>2. [owner |-> OwnerOf[g], updatedAt |-> now, expiresAt |-> now + lastSeenTTL]
          \in [owner : Owners, updatedAt : Nat, expiresAt : Nat]
    BY <1>0, PresenceConstants DEF Owners
  <2>3. CASE wire' = [wire EXCEPT !.leases = @ \cup
                        {[grant |-> g, updatedAt |-> now, expiresAt |-> now + Lease]}]
    <3>1. wire' = [leases |-> wire.leases \cup
                     {[grant |-> g, updatedAt |-> now, expiresAt |-> now + Lease]},
                   revocations |-> wire.revocations]
      BY <1>0, <2>3 DEF Messages
    <3> QED
      BY <1>0, <1>10, <2>1, <3>1 DEF Messages, Elsewhere, Rests
  <2>4. CASE wire' = [wire EXCEPT !.revocations = @ \cup
                        {[owner |-> OwnerOf[g], updatedAt |-> now, expiresAt |-> now + lastSeenTTL]}]
    <3>1. wire' = [leases |-> wire.leases,
                   revocations |-> wire.revocations \cup
                     {[owner |-> OwnerOf[g], updatedAt |-> now, expiresAt |-> now + lastSeenTTL]}]
      BY <1>0, <2>4 DEF Messages
    <3> QED
      BY <1>0, <1>10, <2>2, <3>1 DEF Messages, Elsewhere, Rests
  <2> QED
    BY <1>10, <2>3, <2>4 DEF Elsewhere
<1>11. ASSUME NEW value \in wire.revocations, ImportRevocations(value)
       PROVE  Imports /\ UNCHANGED now /\ Messages'
  <2> DEFINE tombstone == [updatedAt |-> value.updatedAt, expiresAt |-> value.expiresAt]
  <2>1. value.owner \in Owners /\ tombstone \in Tombstones
    BY <1>0 DEF Messages, Tombstones
  <2>2. /\ Becomes(importRevocation(table, value.owner, tombstone, now))
        /\ UNCHANGED <<wire, now>>
    BY <1>11 DEF ImportRevocations
  <2> HIDE DEF tombstone
  <2> QED
    BY <1>1, <2>1, <2>2 DEF Imports
<1>12. ASSUME Tick
       PROVE  Rests /\ now' = now + 1 /\ now' \in 1..Horizon /\ Messages'
  BY <1>0, <1>1, <1>12 DEF Tick, Rests
<1>13. ASSUME UNCHANGED vars
       PROVE  Rests /\ UNCHANGED now /\ Messages'
  BY <1>1, <1>13 DEF vars, Rests
<1> QED
  BY <1>3, <1>4, <1>5, <1>7, <1>8, <1>9, <1>10, <1>11, <1>12, <1>13 DEF Next

\* A table that becomes a sane one is sane.
LEMMA BecomesSane ==
  ASSUME NEW s, NEW t, Sane(s, t), Becomes(s)
  PROVE  table' = s
<1>1. s = [records |-> s.records, callers |-> s.callers, revocations |-> s.revocations]
  BY DEF Sane, IsTable
<1>2. table' = [records |-> records', callers |-> callers', revocations |-> revocations']
  BY DEF table
<1> QED
  BY <1>1, <1>2 DEF Becomes

\* Readings are not ahead of the clock.
LEMMA ReadingsPast ==
  ASSUME now \in 1..Horizon, NEW t \in Readings
  PROVE  now \in Nat /\ t \in Nat /\ 1 <= t /\ t <= now
BY PresenceConstants DEF Readings

\* One step of each kind, and what it may take from the table.
Took(g) ==
  \/ records[g].expiresAt <= now
  \/ OwnerOf[g] \in DOMAIN revocations'
  \/ DOMAIN records' = DOMAIN records \ Owned(table, OwnerOf[g])
  \/ callers[records[g].caller] > maxRecordsPerCaller

LEMMA StepSane ==
  ASSUME IInv, [Next]_vars
  PROVE  /\ Sane(table', now)
         /\ \A g \in DOMAIN records \ DOMAIN records' : Took(g)
<1>0. /\ Sane(table, now) /\ now \in 1..Horizon /\ now \in Nat
      /\ table.records = records /\ table.callers = callers /\ table.revocations = revocations
      /\ table'.records = records' /\ table'.revocations = revocations'
  BY PresenceConstants DEF IInv, table
<1>1. ASSUME NEW g \in DOMAIN records, GivesWay(table, now, g)
      PROVE  Took(g)
  <2>1. records[g].expiresAt <= now \/ Held(callers, records[g].caller) > maxRecordsPerCaller
    BY <1>0, <1>1 DEF GivesWay
  <2>2. Held(callers, records[g].caller) > maxRecordsPerCaller
          => callers[records[g].caller] > maxRecordsPerCaller
    BY PresenceConstants DEF Held
  <2> QED
    BY <2>1, <2>2 DEF Took
<1>2. CASE Stores
  <2>0. PICK t \in Readings, lease \in Leases, caller \in Callers :
               /\ LeaseValid(lease, t)
               /\ \E s \in storeLease(table, lease, caller, t) : Becomes(s)
    BY <1>2 DEF Stores
  <2>1. PICK s \in storeLease(table, lease, caller, t) : Becomes(s)
    BY <2>0
  <2>2. t \in Nat /\ 1 <= t /\ t <= now
    BY <1>0, ReadingsPast
  <2>3. /\ Sane(s, now)
        /\ \A g \in DOMAIN table.records \ DOMAIN s.records : GivesWay(table, now, g)
    BY <1>0, <2>0, <2>1, <2>2, StoreLeaseSane
  <2>4. table' = s
    BY <2>1, <2>3, BecomesSane
  <2> QED
    BY <1>0, <1>1, <2>3, <2>4
<1>3. CASE Prunes
  <2>1. PICK t \in Readings : Becomes(pruneLocked(table, t))
    BY <1>3 DEF Prunes
  <2>2. t \in Nat /\ 1 <= t /\ t <= now
    BY <1>0, ReadingsPast
  <2> DEFINE s == pruneLocked(table, t)
  <2>3. /\ Sane(s, now)
        /\ \A g \in DOMAIN table.records \ DOMAIN s.records : table.records[g].expiresAt <= t
    BY <1>0, <2>2, PruneSane
  <2> HIDE DEF s
  <2>4. table' = s
    BY <2>1, <2>3, BecomesSane DEF s
  <2>5. ASSUME NEW g \in DOMAIN records, records[g].expiresAt <= t
        PROVE  Took(g)
    <3>1. records[g].expiresAt \in Nat
      BY <1>0 DEF Sane, IsTable, Records
    <3> QED
      BY <1>0, <2>2, <2>5, <3>1 DEF Took
  <2> QED
    BY <1>0, <2>3, <2>4, <2>5
<1>4. CASE Revokes
  <2>1. PICK owner \in Owners, value \in Tombstones :
               Becomes(storeRevocationLocked(dropLocked(table, Owned(table, owner)), owner, value))
    BY <1>4 DEF Revokes
  <2> DEFINE s == storeRevocationLocked(dropLocked(table, Owned(table, owner)), owner, value)
  <2>2. Sane(s, now) /\ DOMAIN s.records = DOMAIN table.records \ Owned(table, owner)
    BY <1>0, RevokeSane
  <2> HIDE DEF s
  <2>3. table' = s
    BY <2>1, <2>2, BecomesSane DEF s
  <2>4. DOMAIN records' = DOMAIN records \ Owned(table, owner)
    BY <1>0, <2>2, <2>3
  <2>5. \A g \in DOMAIN records \ DOMAIN records' : OwnerOf[g] = owner
    BY <1>0, <2>4 DEF Owned
  <2> QED
    BY <2>2, <2>3, <2>4, <2>5 DEF Took
<1>5. CASE Imports
  <2>1. PICK owner \in Owners, value \in Tombstones :
               Becomes(importRevocation(table, owner, value, now))
    BY <1>5 DEF Imports
  <2> DEFINE s == importRevocation(table, owner, value, now)
  <2>2. /\ Sane(s, now)
        /\ \A g \in DOMAIN table.records \ DOMAIN s.records : OwnerOf[g] \in DOMAIN s.revocations
    BY <1>0, ImportRevocationSane
  <2> HIDE DEF s
  <2>3. table' = s
    BY <2>1, <2>2, BecomesSane DEF s
  <2> QED
    BY <1>0, <2>2, <2>3 DEF Took
<1>6. CASE Rests
  <2>1. table' = table
    BY <1>6 DEF Rests, table
  <2> QED
    BY <1>0, <1>6, <2>1 DEF Rests
<1> QED
  BY <1>2, <1>3, <1>4, <1>5, <1>6, StepKinds

\* An empty table is sane.
LEMMA InitSane == Init => IInv
<1> SUFFICES ASSUME Init
             PROVE  IInv
  OBVIOUS
<1>1. /\ table.records = EmptyMap /\ table.callers = EmptyMap /\ table.revocations = EmptyMap
      /\ table = [records |-> table.records, callers |-> table.callers,
                  revocations |-> table.revocations]
      /\ DOMAIN EmptyMap = {} /\ EmptyMap = [x \in {} |-> x]
  BY DEF Init, table, EmptyMap
<1>2. IsTable(table)
  BY <1>1 DEF IsTable
<1>3. IsFiniteSet({}) /\ Cardinality({}) = 0
  BY FS_EmptySet
<1>4. \A c : Charged(table, c) = {} /\ Held(table.callers, c) = 0
  BY <1>1 DEF Charged, Held
<1>5. Counted(table)
  BY <1>3, <1>4 DEF Counted
<1>6. Timely(table, now) /\ Outranked(table)
  BY <1>1 DEF Timely, Outranked
<1>7. Fits(table)
  BY <1>1, <1>3, PresenceConstants DEF Fits
<1>8. Messages /\ now \in 1..Horizon
  BY PresenceConstants DEF Init, Messages
<1> QED
  BY <1>2, <1>5, <1>6, <1>7, <1>8 DEF IInv, Sane

-----------------------------------------------------------------------------
(***************************************************************************)
(* The theorems.                                                           *)
(***************************************************************************)
\* The table stays sane under every heartbeat, import, revocation and prune,
\* at clock readings up to MaxLag old.
THEOREM PresenceInvariance == Spec => []IInv
<1>1. Init => IInv
  BY InitSane
<1>2. IInv /\ [Next]_vars => IInv'
  <2> SUFFICES ASSUME IInv, [Next]_vars
               PROVE  IInv'
    OBVIOUS
  <2>1. Sane(table', now) /\ Messages'
    BY StepSane, StepKinds
  <2>2. now \in 1..Horizon /\ now \in Nat /\ now' \in 1..Horizon /\ now' \in Nat /\ now <= now'
    BY StepKinds, PresenceConstants DEF IInv
  <2>3. Timely(table', now')
    <3>1. \A g \in DOMAIN table'.records : table'.records[g].lastSeen \in Nat
      BY <2>1 DEF Sane, IsTable, Records
    <3> QED
      BY <2>1, <2>2, <3>1 DEF Sane, Timely
  <2> QED
    BY <2>1, <2>2, <2>3 DEF IInv, Sane
<1> QED
  BY <1>1, <1>2, PTL DEF Spec

\* The caller counts of presence/store.go are exactly the records charged to
\* each caller, and table and tombstones stay within maxRecords.
THEOREM CountsExact == Spec => []CallersAgree
<1>1. IInv => CallersAgree
  <2> SUFFICES ASSUME IInv
               PROVE  CallersAgree
    OBVIOUS
  <2>1. /\ IsTable(table) /\ Counted(table) /\ Timely(table, now) /\ Fits(table)
        /\ now \in 1..Horizon
        /\ table.records = records /\ table.callers = callers /\ table.revocations = revocations
    BY DEF IInv, Sane, table
  <2>2. /\ records \in [DOMAIN records -> Records] /\ DOMAIN records \subseteq Grants
        /\ callers \in [DOMAIN callers -> Nat \ {0}] /\ DOMAIN callers \subseteq Callers
        /\ DOMAIN revocations \subseteq Owners
    BY <2>1 DEF IsTable
  <2>3. TypeOK
    <3>1. ASSUME NEW g \in DOMAIN records
          PROVE  /\ records[g].caller \in Callers
                 /\ records[g].lastSeen \in 1..now
                 /\ records[g].expiresAt > records[g].lastSeen
      <4>1. /\ records[g].caller \in Callers /\ records[g].lastSeen \in Nat
            /\ records[g].expiresAt \in Nat
        BY <2>2 DEF Records
      <4>2. /\ 1 <= records[g].lastSeen /\ records[g].lastSeen <= now
            /\ records[g].lastSeen < records[g].expiresAt
        BY <2>1 DEF Timely
      <4> QED
        BY <2>1, <4>1, <4>2
    <3> QED
      BY <2>1, <2>2, <3>1 DEF TypeOK, Fits, Owners
  <2>4. \A c \in Callers :
          Held(callers, c) = Cardinality({g \in DOMAIN records : records[g].caller = c})
    BY <2>1 DEF Counted, Charged
  <2>5. \A c \in DOMAIN callers :
          callers[c] = Cardinality({g \in DOMAIN records : records[g].caller = c})
    BY <2>2, <2>4 DEF Held
  <2>6. ASSUME NEW c \in DOMAIN callers
        PROVE  \E g \in DOMAIN records : records[g].caller = c
    <3>1. SUFFICES ASSUME {g \in DOMAIN records : records[g].caller = c} = {}
                   PROVE  FALSE
      OBVIOUS
    <3>2. callers[c] = 0
      BY <2>5, <3>1, FS_EmptySet
    <3> QED
      BY <2>2, <3>2
  <2>7. ASSUME NEW g \in DOMAIN records
        PROVE  records[g].caller \in DOMAIN callers
    <3> DEFINE c == records[g].caller
               C == {h \in DOMAIN records : records[h].caller = c}
    <3>1. c \in Callers
      BY <2>2 DEF Records
    <3>2. IsFiniteSet(C) /\ C # {}
      BY <2>1, FS_Subset DEF Fits
    <3>3. Cardinality(C) # 0
      BY <3>2, FS_EmptySet
    <3>4. Held(callers, c) # 0
      BY <2>4, <3>1, <3>3
    <3> QED
      BY <3>4 DEF Held
  <2> QED
    BY <2>3, <2>5, <2>6, <2>7 DEF CallersAgree
<1> QED
  BY <1>1, PresenceInvariance, PTL

\* No lease that a held revocation outdates is in the table.
THEOREM RevocationsHold == Spec => []RevokedStayOut
<1>1. IInv => RevokedStayOut
  BY DEF IInv, Sane, Outranked, RevokedStayOut, table
<1> QED
  BY <1>1, PresenceInvariance, PTL

\* What leaves the table is over, revoked, or charged past its caller's share.
THEOREM LiveLeasesStay == Spec => LiveLeaseKept
<1>1. IInv /\ [Next]_vars =>
        [\A g \in DOMAIN records \ DOMAIN records' :
           \/ records[g].expiresAt <= now
           \/ OwnerOf[g] \in DOMAIN revocations'
           \/ DOMAIN records' = DOMAIN records \ Owned(table, OwnerOf[g])
           \/ callers[records[g].caller] > maxRecordsPerCaller]_vars
  BY StepSane DEF Took
<1> QED
  BY <1>1, PresenceInvariance, PTL DEF Spec, LiveLeaseKept
=============================================================================
