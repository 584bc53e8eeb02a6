----------------------------- MODULE PoolProofs -----------------------------
(***************************************************************************)
(* Theorems about a pool of relays: that replication loses and revives     *)
(* nothing, for every value of the constants of Mesh (any number of        *)
(* relays, any graph of who pulls from whom, any page size, any number of  *)
(* restarts and lost answers), and that what a relay publishes about its   *)
(* peers is true, for every value of those of PeerPool.                    *)
(***************************************************************************)
EXTENDS Mesh, PeerPool, QueueStoreProofs, SliceProofs

-----------------------------------------------------------------------------
(***************************************************************************)
(* What a relay does to its store between two looks of a peer.  Follows    *)
(* says that a store n came from s: its counter did not fall, and every    *)
(* number it holds was held by s or was given out since.                   *)
(***************************************************************************)
Numbers(s) ==
  {s.messageSeq[m] : m \in Queued(s)} \cup {s.ackSeq[a] : a \in DOMAIN s.acks}

Follows(n, s) ==
  /\ s.seq <= n.seq
  /\ \A k \in Numbers(n) : k > s.seq \/ k \in Numbers(s)

\* The numbers of a store are those of its arrivals, from 1 to its counter.
LEMMA NumbersOfArrivals ==
  ASSUME NEW s, Sound(s)
  PROVE  /\ Numbers(s) = {x.seq : x \in Arrivals(s)}
         /\ s.seq \in Nat
         /\ Numbers(s) \subseteq 1..s.seq
<1>1. DOMAIN s.messageSeq = Queued(s) /\ DOMAIN s.ackSeq = DOMAIN s.acks /\ s.seq \in Nat
  BY ArrivalsType
<1>2. Numbers(s) \subseteq 1..s.seq
  BY DEF Numbers, Sound, ArrivalsAgreeIn
<1>3. ASSUME NEW k \in Numbers(s)
      PROVE  \E x \in Arrivals(s) : x.seq = k
  <2>1. CASE \E m \in Queued(s) : k = s.messageSeq[m]
    <3>1. PICK m \in DOMAIN s.messageSeq : k = s.messageSeq[m]
      BY <1>1, <2>1
    <3> DEFINE x == [seq |-> s.messageSeq[m], kind |-> "message", id |-> m,
                     expiresAt |-> s.messages[m], tag |-> s.stamps[m]]
    <3>2. x \in Arrivals(s) /\ x.seq = k
      BY <3>1 DEF Arrivals
    <3> QED
      BY <3>2
  <2>2. CASE \E a \in DOMAIN s.acks : k = s.ackSeq[a]
    <3>1. PICK a \in DOMAIN s.ackSeq : k = s.ackSeq[a]
      BY <1>1, <2>2
    <3> DEFINE x == [seq |-> s.ackSeq[a], kind |-> "ack", id |-> a,
                     expiresAt |-> s.acks[a].expiresAt, tag |-> s.acks[a].tag]
    <3>2. x \in Arrivals(s) /\ x.seq = k
      BY <3>1 DEF Arrivals
    <3> QED
      BY <3>2
  <2> QED
    BY <2>1, <2>2 DEF Numbers
<1>4. ASSUME NEW x \in Arrivals(s)
      PROVE  x.seq \in Numbers(s)
  BY <1>1 DEF Arrivals, Numbers
<1> QED
  BY <1>1, <1>2, <1>3, <1>4

\* Keeping the numbers of what stays is following.
LEMMA KeptFollows ==
  ASSUME NEW s, Sound(s), NEW n, Sound(n), ArrivalsKept(n, s)
  PROVE  Follows(n, s)
<1>1. s.seq \in Nat /\ n.seq \in Nat
  BY ArrivalsType
<1>2. ASSUME NEW k \in Numbers(n)
      PROVE  k > s.seq \/ k \in Numbers(s)
  BY DEF Numbers, ArrivalsKept
<1> QED
  BY <1>1, <1>2 DEF Follows, ArrivalsKept

\* A store follows itself.
LEMMA FollowsItself ==
  ASSUME NEW s, Sound(s)
  PROVE  Follows(s, s)
BY ArrivalsType DEF Follows

\* Following twice is following, also when a record left and came back.
LEMMA FollowsTwice ==
  ASSUME NEW s, Sound(s), NEW mid, Sound(mid), NEW n, Sound(n),
         Follows(mid, s), Follows(n, mid)
  PROVE  Follows(n, s)
<1>1. s.seq \in Nat /\ mid.seq \in Nat /\ n.seq \in Nat /\ Numbers(n) \subseteq Int
  BY NumbersOfArrivals
<1> QED
  BY <1>1 DEF Follows
-----------------------------------------------------------------------------
(***************************************************************************)
(* Importing one record.  A message that is queued afterwards was queued   *)
(* before, and is not newly known to be done, or it is new and not known   *)
(* to be done.                                                             *)
(***************************************************************************)
Done(s, m) == m \in Settled(s) \/ Purged(s, m, clock)

StaysClean(n, s) ==
  \A m \in Queued(n) : Done(n, m) => m \in Queued(s) /\ Done(s, m)

RecordOK(x) ==
  /\ x.expiresAt \in Nat
  /\ \/ x.kind = "purge" /\ x.id \in PurgeHashes
     \/ x.kind = "message" /\ x.id \in MessageIDs /\ x.tag \in Tags \cup {None}
     \/ x.kind = "ack" /\ x.id \in AckIDs /\ x.tag \in Tags \cup {None}

\* A tombstone takes its owner's mail along and settles nothing.
LEMMA ImportPurgeClean ==
  ASSUME NEW s, Sound(s), NEW h \in PurgeHashes, NEW e \in Nat, clock \in Nat
  PROVE  LET n == importPurge(s, h, e, clock)
         IN  Sound(n) /\ Follows(n, s) /\ StaysClean(n, s)
<1> DEFINE mid == storePurgeLocked(s, h, e)
           n == purgeOwnerLocked(mid, h)
<1>1. CASE importPurge(s, h, e, clock) = s
  BY <1>1, FollowsItself DEF StaysClean
<1>2. CASE importPurge(s, h, e, clock) = n
  <2>1. Sound(mid) /\ Sound(n)
    BY StorePurgeSound, PurgeOwnerSound
  <2>2. /\ Queued(mid) = Queued(s)
        /\ mid.purges = s.purges \/ mid.purges = Put(s.purges, h, e)
    BY StorePurgeHeld
  <2>3. Queued(n) = {m \in Queued(mid) : purgeKey(m) # h} /\ n.purges = mid.purges
    BY <2>1, PurgeOwnerHeld
  <2>4. Follows(n, s)
    <3>1. Buries(n, s, h, e)
      BY DEF Buries
    <3> QED
      BY <2>1, <3>1, BuriesKeeps, KeptFollows
  <2>5. Settled(n) \subseteq Settled(s)
    <3>1. DOMAIN mid.acks = DOMAIN s.acks
      BY PurgesKeep DEF storePurgeLocked
    <3>2. Settled(mid) = Settled(s)
      BY <2>1, <3>1, SettledSame
    <3> HIDE DEF mid
    <3> DEFINE owned == IF h \in DOMAIN mid.messagesByPurge THEN mid.messagesByPurge[h] ELSE {}
               low == deleteMessages(mid, owned)
    <3>3. Sound(low) /\ Settled(low) = Settled(mid)
      BY <2>1, DeleteMessagesMail
    <3>4. \E acks : n = deleteAcks(low, acks)
      BY DEF purgeOwnerLocked
    <3> HIDE DEF low, n
    <3>5. Settled(n) \subseteq Settled(low)
      BY <3>3, <3>4, DeleteAcksMail
    <3> QED
      BY <3>2, <3>3, <3>5
  <2>6. StaysClean(n, s)
    <3> SUFFICES ASSUME NEW m \in Queued(n), Done(n, m)
                 PROVE  m \in Queued(s) /\ Done(s, m)
      BY DEF StaysClean
    <3>1. m \in Queued(s) /\ purgeKey(m) # h
      BY <2>2, <2>3
    <3>2. Purged(n, m, clock) => Purged(s, m, clock)
      BY <2>2, <2>3, <3>1 DEF Purged, Put
    <3> QED
      BY <2>5, <3>1, <3>2 DEF Done
  <2> QED
    BY <1>2, <2>1, <2>4, <2>6
<1> QED
  BY <1>1, <1>2 DEF importPurge

\* A message is taken in only if it is not known to be done.
LEMMA ImportMessageClean ==
  ASSUME NEW s, Sound(s), NEW m \in MessageIDs, NEW tag \in Tags \cup {None},
         NEW e \in Nat, clock \in Nat
  PROVE  LET n == importMessage(s, m, tag, e, clock)
         IN  Sound(n) /\ Follows(n, s) /\ StaysClean(n, s)
<1> DEFINE n == importMessage(s, m, tag, e, clock)
<1>1. CASE n = s
  BY <1>1, FollowsItself DEF StaysClean
<1>2. CASE n # s
  <2>1. PICK x \in Nat : /\ m \notin DOMAIN s.messages /\ ~Purged(s, m, clock)
                         /\ n = addMessageLocked(s, m, tag, x, NoCredential)
    BY <1>2, ImportMessageCases
  <2>2. ~hasTerminalAck(s, m)
    BY <1>2 DEF importMessage
  <2> HIDE DEF n
  <2>3. Sound(n)
    BY <2>1, AddMessageSound DEF Callers
  <2>4. ArrivalsKept(n, s) /\ n.acks = s.acks /\ Queued(n) = Queued(s) \cup {m}
    BY <2>1, AddMessageKeeps
  <2>5. n.purges = s.purges
    BY <2>1, AddMessageHeld DEF Sound
  <2>6. Settled(n) = Settled(s)
    BY <2>3, <2>4, SettledSame
  <2>7. StaysClean(n, s)
    BY <2>1, <2>2, <2>4, <2>5, <2>6 DEF StaysClean, Done, Purged, Settled
  <2> QED
    BY <2>3, <2>4, <2>7, KeptFollows DEF n
<1> QED
  BY <1>1, <1>2

\* An ack that settles a message takes it out of the queue.
LEMMA ImportAckClean ==
  ASSUME NEW s, Sound(s), NEW a \in AckIDs, NEW e \in Nat, NEW tag \in Tags \cup {None},
         clock \in Nat
  PROVE  LET n == importAck(s, a, e, tag, clock)
         IN  Sound(n) /\ Follows(n, s) /\ StaysClean(n, s)
<1> DEFINE n == importAck(s, a, e, tag, clock)
<1>1. CASE n = s
  BY <1>1, FollowsItself DEF StaysClean
<1>2. CASE n # s
  <2>1. PICK x \in Nat : ExternalAck(n, s, a, x, tag)
    BY <1>2, ImportAckCases
  <2> HIDE DEF n
  <2> DEFINE mid == insertAck(s, a, x, tag)
  <2>2. Sound(n) /\ Follows(n, s)
    BY <2>1, ExternalAckSound, ExternalAckKeeps, KeptFollows
  <2>3. /\ Sound(mid) /\ mid.messages = s.messages /\ mid.purges = s.purges
        /\ Settled(mid) = IF deletesQueuedMessage(AckOf[a].type)
                          THEN Settled(s) \cup {ackKey(a)} ELSE Settled(s)
    BY <2>1, SettledInsert DEF ExternalAck
  <2>4. \/ ~deletesQueuedMessage(AckOf[a].type) /\ n = mid
        \/ deletesQueuedMessage(AckOf[a].type) /\ n = deleteMessages(mid, {ackKey(a)})
    BY <2>1 DEF ExternalAck
  <2> HIDE DEF mid
  <2>5. CASE ~deletesQueuedMessage(AckOf[a].type) /\ n = mid
    BY <2>2, <2>3, <2>5 DEF n, StaysClean, Done, Purged, Queued
  <2>6. CASE deletesQueuedMessage(AckOf[a].type) /\ n = deleteMessages(mid, {ackKey(a)})
    <3>1. /\ Settled(n) = Settled(mid) /\ n.purges = mid.purges
          /\ Queued(n) = Queued(mid) \ {ackKey(a)}
      BY <2>3, <2>6, DeleteMessagesMail, DeleteMessagesKeeps
    <3>2. StaysClean(n, s)
      BY <2>3, <2>6, <3>1 DEF StaysClean, Done, Purged, Queued
    <3> QED
      BY <2>2, <3>2 DEF n
  <2> QED
    BY <2>4, <2>5, <2>6
<1> QED
  BY <1>1, <1>2

\* So does every record.
LEMMA ImportRecordClean ==
  ASSUME NEW s, Sound(s), NEW x, RecordOK(x), clock \in Nat
  PROVE  LET n == importRecord(s, x)
         IN  Sound(n) /\ Follows(n, s) /\ StaysClean(n, s)
<1>1. CASE x.kind = "purge" /\ x.id \in PurgeHashes
  <2>1. importRecord(s, x) = importPurge(s, x.id, x.expiresAt, clock)
    BY <1>1 DEF importRecord
  <2> QED
    BY <1>1, <2>1, ImportPurgeClean DEF RecordOK
<1>2. CASE x.kind = "message" /\ x.id \in MessageIDs /\ x.tag \in Tags \cup {None}
  <2>1. importRecord(s, x) = importMessage(s, x.id, x.tag, x.expiresAt, clock)
    BY <1>2 DEF importRecord
  <2> QED
    BY <1>2, <2>1, ImportMessageClean DEF RecordOK
<1>3. CASE x.kind = "ack" /\ x.id \in AckIDs /\ x.tag \in Tags \cup {None}
  <2>1. importRecord(s, x) = importAck(s, x.id, x.expiresAt, x.tag, clock)
    BY <1>3 DEF importRecord
  <2> QED
    BY <1>3, <2>1, ImportAckClean DEF RecordOK
<1> QED
  BY <1>1, <1>2, <1>3 DEF RecordOK
-----------------------------------------------------------------------------
(***************************************************************************)
(* Importing a run of records.  Ran(records, s, m, f) says that f holds    *)
(* the store after each of the first 0..m records.                         *)
(***************************************************************************)
Ran(records, s, m, f) ==
  f = [i \in 0..m |-> IF i = 0 THEN s ELSE importRecord(f[i - 1], records[i])]

\* There is such an f: the least m without one would have a predecessor with one.
LEMMA RanExists ==
  ASSUME NEW records, NEW s, NEW m \in Nat
  PROVE  \E f : Ran(records, s, m, f)
<1> DEFINE Bad == {n \in Nat : ~\E f : Ran(records, s, n, f)}
<1> SUFFICES ASSUME m \in Bad
             PROVE  FALSE
  OBVIOUS
<1>1. PICK n \in Bad : \A k \in Bad : n <= k
  <2>1. Bad \subseteq Nat /\ Bad # {}
    OBVIOUS
  <2> HIDE DEF Bad
  <2> QED
    BY <2>1, LeastNumber
<1>2. n \in Nat /\ ~\E f : Ran(records, s, n, f)
  OBVIOUS
<1>3. n # 0
  <2> DEFINE f == [k \in 0..0 |-> s]
  <2>1. Ran(records, s, 0, f)
    <3>1. \A k \in 0..0 : k = 0
      OBVIOUS
    <3> QED
      BY <3>1 DEF Ran
  <2> QED
    BY <1>2, <2>1
<1>4. n - 1 \in Nat /\ n - 1 \notin Bad
  <2>1. n - 1 \in Nat /\ ~(n <= n - 1)
    BY <1>2, <1>3
  <2> QED
    BY <1>1, <2>1
<1>5. PICK q : Ran(records, s, n - 1, q)
  BY <1>4
<1> DEFINE last == importRecord(q[n - 1], records[n])
           f == [k \in 0..n |-> IF k = n THEN last ELSE q[k]]
<1>6. Ran(records, s, n, f)
  <2>1. ASSUME NEW k \in 0..n
        PROVE  f[k] = IF k = 0 THEN s ELSE importRecord(f[k - 1], records[k])
    <3>1. CASE k = n
      <4>1. f[k] = last /\ k - 1 \in 0..n /\ k - 1 # n
        BY <1>2, <1>3, <3>1
      <4>2. f[k - 1] = q[n - 1]
        BY <3>1, <4>1
      <4> QED
        BY <1>3, <3>1, <4>1, <4>2
    <3>2. CASE k # n
      <4>1. k \in 0..(n - 1)
        BY <1>2, <3>2
      <4>2. q[k] = IF k = 0 THEN s ELSE importRecord(q[k - 1], records[k])
        BY <1>5, <4>1 DEF Ran
      <4>3. f[k] = q[k] /\ (k # 0 => f[k - 1] = q[k - 1])
        BY <1>2, <3>2
      <4> QED
        BY <4>2, <4>3
    <3> QED
      BY <3>1, <3>2
  <2> QED
    BY <2>1 DEF Ran
<1> QED
  BY <1>2, <1>6

\* The store after each record is sound, follows the one before the run, and
\* holds nothing new that is known to be done.
LEMMA RanClean ==
  ASSUME NEW records, NEW s, Sound(s), NEW m \in Nat, NEW f, Ran(records, s, m, f),
         \A i \in 1..m : RecordOK(records[i]), clock \in Nat, NEW n \in 0..m
  PROVE  Sound(f[n]) /\ Follows(f[n], s) /\ StaysClean(f[n], s)
<1> DEFINE Good(i) == Sound(f[i]) /\ Follows(f[i], s) /\ StaysClean(f[i], s)
           Bad == {i \in Nat : i <= m /\ ~Good(i)}
<1>0. \A i \in 0..m : f[i] = IF i = 0 THEN s ELSE importRecord(f[i - 1], records[i])
  BY DEF Ran
<1>1. SUFFICES ASSUME n \in Bad
               PROVE  FALSE
  OBVIOUS
<1>2. PICK k \in Bad : \A i \in Bad : k <= i
  <2>1. Bad \subseteq Nat /\ Bad # {}
    BY <1>1
  <2> HIDE DEF Bad
  <2> QED
    BY <2>1, LeastNumber
<1>3. k \in Nat /\ k <= m /\ ~Good(k)
  OBVIOUS
<1>4. k # 0
  <2>1. f[0] = s
    BY <1>0
  <2>2. Good(0)
    BY <2>1, FollowsItself DEF StaysClean
  <2> QED
    BY <1>3, <2>2
<1>5. Good(k - 1)
  <2>1. k - 1 \in Nat /\ k - 1 <= m /\ ~(k <= k - 1)
    BY <1>3, <1>4
  <2> HIDE DEF Good
  <2> QED
    BY <1>2, <2>1
<1> DEFINE y == f[k - 1]
           z == f[k]
<1>6. z = importRecord(y, records[k]) /\ RecordOK(records[k])
  BY <1>0, <1>3, <1>4
<1> HIDE DEF y, z
<1>7. Sound(y) /\ Follows(y, s) /\ StaysClean(y, s)
  BY <1>5 DEF y
<1>8. Sound(z) /\ Follows(z, y) /\ StaysClean(z, y)
  BY <1>6, <1>7, ImportRecordClean
<1>9. Follows(z, s)
  BY <1>7, <1>8, FollowsTwice
<1>10. StaysClean(z, s)
  BY <1>7, <1>8 DEF StaysClean
<1> QED
  BY <1>3, <1>8, <1>9, <1>10 DEF z

\* What ImportSnapshot leaves, for any list of records it runs through.
LEMMA RunClean ==
  ASSUME NEW records, Len(records) \in Nat, NEW s, Sound(s), clock \in Nat,
         \A i \in 1..Len(records) : RecordOK(records[i])
  PROVE  LET after[i \in 0..Len(records)] ==
               IF i = 0 THEN s ELSE importRecord(after[i - 1], records[i])
             n == after[Len(records)]
         IN  Sound(n) /\ Follows(n, s) /\ StaysClean(n, s)
<1> DEFINE after == CHOOSE f : Ran(records, s, Len(records), f)
<1>1. Ran(records, s, Len(records), after)
  BY RanExists
<1> HIDE DEF after
<1>2. /\ Sound(after[Len(records)]) /\ Follows(after[Len(records)], s)
      /\ StaysClean(after[Len(records)], s)
  BY <1>1, RanClean
<1> QED
  BY <1>2 DEF after, Ran
-----------------------------------------------------------------------------
(***************************************************************************)
(* Pages and cursors.  c is the cursor a relay holds for a peer, e and s   *)
(* the peer's epoch and store, got the numbers of its current life that    *)
(* the relay was given, g a page on its way.                               *)
(***************************************************************************)
CursorOK(c, e, s, got) ==
  /\ c.epoch \in Nat /\ c.seq \in Nat
  /\ c.epoch <= e
  /\ c.epoch = 0 => c.seq = 0
  /\ c.epoch = e =>
       /\ c.seq <= s.seq
       /\ \A k \in Numbers(s) : k <= c.seq => k \in got

PageOK(g) ==
  /\ g.epoch \in Nat \ {0} /\ g.nextSeq \in Nat
  /\ IsMap(g.purges, PurgeHashes, Nat)
  /\ \A x \in g.records : RecordOK(x) /\ x.seq \in 1..g.nextSeq

PageFits(g, c, e, s) ==
  /\ g.epoch <= e
  /\ c.seq <= g.nextSeq
  /\ g.epoch = e /\ ~Restarted(c, g) =>
       /\ g.nextSeq <= s.seq
       /\ \A k \in Numbers(s) :
            k > c.seq /\ k <= g.nextSeq => k \in {x.seq : x \in g.records}

\* What a store has taken in can be imported elsewhere.
LEMMA ArrivalsOK ==
  ASSUME NEW s, Sound(s), NEW x \in Arrivals(s)
  PROVE  RecordOK(x)
<1>1. DOMAIN s.messageSeq = DOMAIN s.messages /\ DOMAIN s.ackSeq = DOMAIN s.acks
  BY ArrivalsType DEF Queued
<1>2. /\ \A m \in DOMAIN s.messages : /\ m \in MessageIDs /\ s.messages[m] \in Nat
                                      /\ s.stamps[m] \in Tags \cup {None}
      /\ \A a \in DOMAIN s.acks : /\ a \in AckIDs /\ s.acks[a].expiresAt \in Nat
                                  /\ s.acks[a].tag \in Tags \cup {None}
  BY DEF Sound, IsStore, IsMap
<1>3. CASE \E m \in DOMAIN s.messageSeq :
             x = [seq |-> s.messageSeq[m], kind |-> "message", id |-> m,
                  expiresAt |-> s.messages[m], tag |-> s.stamps[m]]
  BY <1>1, <1>2, <1>3 DEF RecordOK
<1>4. CASE \E a \in DOMAIN s.ackSeq :
             x = [seq |-> s.ackSeq[a], kind |-> "ack", id |-> a,
                  expiresAt |-> s.acks[a].expiresAt, tag |-> s.acks[a].tag]
  BY <1>1, <1>2, <1>4 DEF RecordOK
<1> QED
  BY <1>3, <1>4 DEF Arrivals

\* A page holds everything between the cursor it was asked with and the one
\* it answers with.
LEMMA SnapshotFits ==
  ASSUME NEW s, Sound(s), NEW e \in Nat \ {0}, NEW c, NEW got, CursorOK(c, e, s, got)
  PROVE  LET g == SnapshotSince(s, e, c.seq)
         IN  PageOK(g) /\ PageFits(g, c, e, s)
<1> DEFINE g == SnapshotSince(s, e, c.seq)
           pending == {x \in Arrivals(s) : x.seq > c.seq}
           N == {x.seq : x \in pending}
           records == Earliest(pending, PageSize)
           seqs == {x.seq : x \in records}
<1>1. /\ Numbers(s) = {x.seq : x \in Arrivals(s)} /\ s.seq \in Nat
      /\ Numbers(s) \subseteq 1..s.seq
  BY NumbersOfArrivals
<1>2. c.seq \in Nat /\ PageSize \in Nat
  BY MeshConstants DEF CursorOK
<1>3. /\ g.epoch = e /\ g.records = records /\ g.purges = s.purges
      /\ g.nextSeq = Max(seqs \cup {c.seq})
  BY DEF SnapshotSince
<1>4. /\ \A x \in pending : x \in Arrivals(s) /\ x.seq > c.seq /\ x.seq \in Numbers(s)
      /\ \A k \in Numbers(s) : k > c.seq => \E x \in pending : x.seq = k
  BY <1>1
<1>5. \A x : x \in records <=> x \in pending /\ Place(N, x.seq) <= PageSize
  BY DEF Earliest
<1>6. \A x \in pending : x.seq \in N
  OBVIOUS
<1>7. N \subseteq Int /\ IsFiniteSet(N) /\ N \subseteq 1..s.seq
  <2>1. N \subseteq 1..s.seq
    BY <1>1, <1>4
  <2>2. IsFiniteSet(1..s.seq)
    <3>1. 1 \in Int /\ s.seq \in Int
      BY <1>1
    <3> QED
      BY <3>1, FS_Interval
  <2> HIDE DEF N
  <2>3. N \subseteq Int
    BY <2>1
  <2> QED
    BY <2>1, <2>2, <2>3, FS_Subset
<1>8. seqs \subseteq N /\ \A k \in seqs : \E x \in records : x.seq = k
  BY <1>5, <1>6
<1>9. \A x \in records : x.seq \in seqs
  OBVIOUS
<1> HIDE DEF g, pending, N, records, seqs
<1>a. \A k \in seqs : k \in Nat /\ 1 <= k /\ k <= s.seq
  BY <1>1, <1>7, <1>8
<1>10. g.nextSeq \in seqs \cup {c.seq} /\ \A k \in seqs \cup {c.seq} : k <= g.nextSeq
  <2> DEFINE T == seqs \cup {c.seq}
  <2>1. T \subseteq Nat /\ T # {} /\ s.seq + c.seq \in Nat /\ \A y \in T : y <= s.seq + c.seq
    BY <1>1, <1>2, <1>a
  <2> HIDE DEF T
  <2>2. Max(T) \in T /\ \A y \in T : y <= Max(T)
    BY <2>1, GreatestNumber
  <2> QED
    BY <1>3, <2>2 DEF T
<1>11. g.nextSeq \in Nat
  BY <1>2, <1>10, <1>a
<1>12. PageOK(g)
  <2>1. \A x \in records : RecordOK(x)
    BY <1>4, <1>5, ArrivalsOK
  <2>2. \A x \in records : x.seq \in 1..g.nextSeq
    BY <1>9, <1>10, <1>11, <1>a
  <2>3. IsMap(s.purges, PurgeHashes, Nat)
    BY DEF Sound, IsStore
  <2> QED
    BY <1>3, <1>11, <2>1, <2>2, <2>3 DEF PageOK
<1>13. ASSUME NEW k \in Numbers(s), k > c.seq, k <= g.nextSeq
       PROVE  k \in {x.seq : x \in records}
  <2>1. PICK x \in pending : x.seq = k
    BY <1>4, <1>13
  <2>2. g.nextSeq \in seqs
    BY <1>1, <1>2, <1>10, <1>13
  <2>3. PICK z \in records : z.seq = g.nextSeq
    BY <1>8, <2>2
  <2>4. z \in pending /\ Place(N, z.seq) <= PageSize
    BY <1>5
  <2>5. k \in N /\ z.seq \in N
    BY <1>6, <2>1, <2>4
  <2>6. Place(N, k) <= PageSize
    <3>1. CASE k = z.seq
      BY <2>4, <3>1
    <3>2. CASE k < z.seq
      <4>1. Place(N, k) < Place(N, z.seq)
        BY <1>7, <2>5, <3>2, PlaceGrows
      <4>2. Place(N, k) \in 1..Cardinality(N) /\ Place(N, z.seq) \in 1..Cardinality(N)
        BY <1>7, <2>5, PlaceRange
      <4> QED
        BY <1>2, <2>4, <4>1, <4>2
    <3> QED
      BY <1>1, <1>11, <1>13, <2>3, <3>1, <3>2
  <2> QED
    BY <1>5, <2>1, <2>6
<1>14. ~Restarted(c, g) => g.nextSeq <= s.seq
  <2> SUFFICES ASSUME ~Restarted(c, g)
               PROVE  g.nextSeq <= s.seq
    OBVIOUS
  <2>1. c.seq <= s.seq
    BY <1>1, <1>2, <1>3 DEF Restarted, CursorOK
  <2> QED
    BY <1>10, <1>a, <2>1
<1>15. PageFits(g, c, e, s)
  BY <1>2, <1>3, <1>10, <1>13, <1>14 DEF PageFits
<1> QED
  BY <1>12, <1>15 DEF g
\* A list of arrivals in order holds nothing else.
LEMMA InOrderElements ==
  ASSUME NEW S, NEW m \in Nat, \A x \in S : x.seq \in 1..m
  PROVE  InOrder(S) \in Seq(S)
<1> DEFINE N == {x.seq : x \in S}
           record == [n \in N |-> CHOOSE x \in S : x.seq = n]
           pos(n) == CHOOSE i \in N : Place(N, i) = n
           p == Picked(record, N)
<1>1. \A n \in N : record[n] \in S
  OBVIOUS
<1>2. N \subseteq 1..m
  OBVIOUS
<1>3. InOrder(S) = p
  BY DEF InOrder
<1> HIDE DEF N, record
<1>4. Cardinality(N) \in Nat
  <2>1. 1 \in Int /\ m \in Int
    OBVIOUS
  <2>2. IsFiniteSet(1..m)
    BY <2>1, FS_Interval
  <2> QED
    BY <1>2, <2>2, FS_Subset, FS_CardinalityType
<1>5. ASSUME NEW n \in 1..Cardinality(N)
      PROVE  record[pos(n)] \in S
  <2>1. pos(n) \in N
    BY <1>2, PlaceTaken
  <2> QED
    BY <1>1, <2>1
<1>6. p = [n \in 1..Cardinality(N) |-> record[pos(n)]]
  BY DEF Picked
<1> HIDE DEF p, pos
<1>7. [n \in 1..Cardinality(N) |-> record[pos(n)]] \in Seq(S)
  BY <1>4, <1>5, IsASeq
<1> QED
  BY <1>3, <1>6, <1>7

\* Importing a page leaves a sound store, keeps the numbers given before, and
\* brings nothing back that is known to be done.
LEMMA ImportSnapshotClean ==
  ASSUME NEW s, Sound(s), NEW g, PageOK(g), clock \in Nat,
         NEW tombstones \in SetToSeqs(Tombstones(g))
  PROVE  LET n == ImportSnapshot(s, g, tombstones)
         IN  Sound(n) /\ Follows(n, s) /\ StaysClean(n, s)
<1> DEFINE T == Tombstones(g)
           R == T \cup g.records
           messages == {x \in g.records : x.kind = "message"}
           first == InOrder(messages)
           second == InOrder(g.records \ messages)
           records == tombstones \o first \o second
<1>1. g.nextSeq \in Nat /\ \A x \in g.records : RecordOK(x) /\ x.seq \in 1..g.nextSeq
  BY DEF PageOK
<1>2. \A x \in T : RecordOK(x)
  BY DEF Tombstones, PageOK, IsMap, RecordOK
<1>3. first \in Seq(R) /\ second \in Seq(R)
  <2>1. first \in Seq(messages)
    BY <1>1, InOrderElements
  <2>2. second \in Seq(g.records \ messages)
    BY <1>1, InOrderElements
  <2> HIDE DEF first, second
  <2>3. messages \subseteq R /\ g.records \ messages \subseteq R
    OBVIOUS
  <2> HIDE DEF messages, R
  <2> QED
    BY <2>1, <2>2, <2>3, SeqMonotonic
<1>4. tombstones \in Seq(R)
  <2>1. IsFiniteSet(T)
    <3>1. IsFiniteSet(DOMAIN g.purges)
      BY MeshConstants, FS_Subset DEF PageOK, IsMap
    <3> DEFINE stone(h) == [kind |-> "purge", id |-> h, expiresAt |-> g.purges[h]]
               f == [h \in DOMAIN g.purges |-> stone(h)]
    <3>2. T = {f[h] : h \in DOMAIN g.purges}
      BY DEF Tombstones
    <3>3. f \in Surjection(DOMAIN g.purges, T)
      BY <3>2 DEF Surjection
    <3> HIDE DEF f, T
    <3> QED
      BY <3>1, <3>3, FS_Surjection
  <2>2. Cardinality(T) \in Nat
    BY <2>1, FS_CardinalityType
  <2>3. tombstones \in [1..Cardinality(T) -> R]
    BY DEF SetToSeqs
  <2>4. [i \in 1..Cardinality(T) |-> tombstones[i]] \in Seq(R)
    BY <2>2, <2>3, IsASeq
  <2> QED
    BY <2>3, <2>4
<1> HIDE DEF T, R, first, second
<1>5. records \in Seq(R)
  BY <1>3, <1>4, ConcatProperties
<1> HIDE DEF records
<1>6. Len(records) \in Nat /\ \A i \in 1..Len(records) : RecordOK(records[i])
  <2>1. Len(records) \in Nat /\ \A i \in 1..Len(records) : records[i] \in R
    BY <1>5, LenProperties, ElementOfSeq
  <2> QED
    BY <1>1, <1>2, <2>1 DEF R
<1>7. LET after[i \in 0..Len(records)] ==
            IF i = 0 THEN s ELSE importRecord(after[i - 1], records[i])
          n == after[Len(records)]
      IN  Sound(n) /\ Follows(n, s) /\ StaysClean(n, s)
  BY <1>6, RunClean
<1> QED
  BY <1>7 DEF ImportSnapshot, records, first, second

\* The peer's store moves on: what the cursor covered is still covered.
LEMMA CursorFollows ==
  ASSUME NEW c, NEW e \in Nat, NEW s, Sound(s), NEW n, Sound(n), Follows(n, s), NEW got,
         CursorOK(c, e, s, got)
  PROVE  CursorOK(c, e, n, got)
<1>1. s.seq \in Nat /\ n.seq \in Nat /\ Numbers(n) \subseteq Int
  BY NumbersOfArrivals
<1> QED
  BY <1>1 DEF CursorOK, Follows

\* ... and a page on its way still fits.
LEMMA PageFollows ==
  ASSUME NEW g, PageOK(g), NEW c, c.seq \in Nat, NEW e \in Nat, NEW s, Sound(s),
         NEW n, Sound(n), Follows(n, s), PageFits(g, c, e, s)
  PROVE  PageFits(g, c, e, n)
<1>1. s.seq \in Nat /\ n.seq \in Nat /\ Numbers(n) \subseteq Int /\ g.nextSeq \in Nat
  BY NumbersOfArrivals DEF PageOK
<1> QED
  BY <1>1 DEF PageFits, Follows

\* The peer starts a new life: cursor and page are of an older one.
LEMMA CursorOutlived ==
  ASSUME NEW c, NEW e \in Nat, NEW s, NEW got, CursorOK(c, e, s, got), NEW n, NEW fresh
  PROVE  CursorOK(c, e + 1, n, fresh)
BY DEF CursorOK

\* ... and a page of it says nothing of the new one.
LEMMA PageOutlived ==
  ASSUME NEW g, PageOK(g), NEW c, NEW e \in Nat, NEW s, PageFits(g, c, e, s), NEW n
  PROVE  PageFits(g, c, e + 1, n)
BY DEF PageFits, PageOK

\* A cursor at zero covers nothing.
LEMMA CursorAtZero ==
  ASSUME NEW k \in Nat, NEW e \in Nat, k <= e, NEW s, Sound(s), NEW got
  PROVE  CursorOK([epoch |-> k, seq |-> 0], e, s, got)
<1>1. s.seq \in Nat /\ \A n \in Numbers(s) : ~(n <= 0)
  BY NumbersOfArrivals
<1> QED
  BY <1>1 DEF CursorOK

\* Importing the page moves the cursor over what was given, and no further.
LEMMA CursorMoves ==
  ASSUME NEW c, NEW e \in Nat, NEW s, Sound(s), NEW got, CursorOK(c, e, s, got),
         NEW g, PageOK(g), PageFits(g, c, e, s), ~Restarted(c, g)
  PROVE  CursorOK([epoch |-> g.epoch, seq |-> g.nextSeq], e, s,
                  IF g.epoch = e THEN got \cup {x.seq : x \in g.records} ELSE got)
<1> DEFINE given == {x.seq : x \in g.records}
           mark == [epoch |-> g.epoch, seq |-> g.nextSeq]
<1>1. /\ g.nextSeq \in Nat /\ g.epoch \in Nat /\ g.epoch # 0 /\ g.epoch <= e
      /\ c.seq \in Nat /\ s.seq \in Nat /\ \A k \in Numbers(s) : k \in Nat /\ 1 <= k
  BY NumbersOfArrivals DEF PageOK, PageFits, CursorOK
<1>2. CASE g.epoch = e
  <2>1. ASSUME NEW k \in Numbers(s), k <= g.nextSeq
        PROVE  k \in got \cup given
    <3>1. CASE k > c.seq
      BY <1>2, <2>1, <3>1 DEF PageFits
    <3>2. CASE k <= c.seq
      BY <1>1, <1>2, <3>2 DEF Restarted, CursorOK
    <3> QED
      BY <1>1, <3>1, <3>2
  <2>2. g.nextSeq <= s.seq
    BY <1>2 DEF PageFits
  <2> HIDE DEF given
  <2>3. CursorOK(mark, e, s, got \cup given)
    BY <1>1, <2>1, <2>2 DEF CursorOK
  <2> QED
    BY <1>2, <2>3 DEF given
<1>3. CASE g.epoch # e
  BY <1>1, <1>3 DEF CursorOK
<1> QED
  BY <1>2, <1>3
-----------------------------------------------------------------------------
(***************************************************************************)
(* The inductive invariant.  Every store is sound; every cursor is of the  *)
(* peer's current life or an older one, and in the first case everything   *)
(* the peer still holds up to it was given; and a page on its way holds    *)
(* everything between the cursor it was asked with and the one it answers  *)
(* with, as long as the peer lives on.                                     *)
(***************************************************************************)
RelaysOK ==
  /\ clock \in Nat
  /\ DOMAIN stores = Relays /\ DOMAIN epoch = Relays /\ DOMAIN cursor = Relays
  /\ DOMAIN sync = Relays /\ DOMAIN seen = Relays
  /\ \A r \in Relays :
       /\ Sound(stores[r])
       /\ epoch[r] \in Nat \ {0}
       /\ DOMAIN cursor[r] = PeersOf[r] /\ DOMAIN seen[r] = PeersOf[r]
       /\ DOMAIN sync[r] = {"peer", "pages", "page"}

CursorsOK ==
  \A r \in Relays : \A p \in PeersOf[r] :
    CursorOK(cursor[r][p], epoch[p], stores[p], seen[r][p])

PagesOK ==
  \A r \in Relays : sync[r].page # <<>> =>
    LET p == sync[r].peer
        g == Head(sync[r].page)
    IN  p \in PeersOf[r] /\ PageOK(g) /\ PageFits(g, cursor[r][p], epoch[p], stores[p])

MeshInv == RelaysOK /\ CursorsOK /\ PagesOK

\* A peer is another relay.
LEMMA PeersAreOthers ==
  \A r \in Relays : \A p \in PeersOf[r] : p \in Relays /\ p # r
BY MeshConstants

\* One store moves on: cursors and pages keep up.
LEMMA StoreMoves ==
  ASSUME MeshInv, NEW q \in Relays, NEW n, Sound(n), Follows(n, stores[q])
  PROVE  LET after == [stores EXCEPT ![q] = n]
         IN  /\ DOMAIN after = Relays
             /\ \A r \in Relays : Sound(after[r]) /\ Follows(after[r], stores[r])
             /\ \A r \in Relays : \A p \in PeersOf[r] :
                  CursorOK(cursor[r][p], epoch[p], after[p], seen[r][p])
             /\ \A r \in Relays : sync[r].page # <<>> =>
                  PageFits(Head(sync[r].page), cursor[r][sync[r].peer],
                           epoch[sync[r].peer], after[sync[r].peer])
<1> DEFINE after == [stores EXCEPT ![q] = n]
<1>1. /\ DOMAIN after = Relays /\ after[q] = n
      /\ \A r \in Relays : r # q => after[r] = stores[r]
  BY DEF MeshInv, RelaysOK
<1>2. \A r \in Relays : Sound(stores[r]) /\ epoch[r] \in Nat
  BY DEF MeshInv, RelaysOK
<1> HIDE DEF after
<1>3. \A r \in Relays : Sound(after[r]) /\ Follows(after[r], stores[r])
  BY <1>1, <1>2, FollowsItself
<1>4. ASSUME NEW r \in Relays, NEW p \in PeersOf[r]
      PROVE  CursorOK(cursor[r][p], epoch[p], after[p], seen[r][p])
  <2>1. p \in Relays /\ CursorOK(cursor[r][p], epoch[p], stores[p], seen[r][p])
    BY PeersAreOthers DEF MeshInv, CursorsOK
  <2> QED
    BY <1>2, <1>3, <2>1, CursorFollows
<1>5. ASSUME NEW r \in Relays, sync[r].page # <<>>
      PROVE  PageFits(Head(sync[r].page), cursor[r][sync[r].peer],
                      epoch[sync[r].peer], after[sync[r].peer])
  <2> DEFINE p == sync[r].peer
             g == Head(sync[r].page)
  <2>1. p \in PeersOf[r] /\ PageOK(g) /\ PageFits(g, cursor[r][p], epoch[p], stores[p])
    BY <1>5 DEF MeshInv, PagesOK
  <2>2. p \in Relays /\ cursor[r][p].seq \in Nat
    BY <2>1, PeersAreOthers DEF MeshInv, CursorsOK, CursorOK
  <2> HIDE DEF p, g
  <2>3. PageFits(g, cursor[r][p], epoch[p], after[p])
    BY <1>2, <1>3, <2>1, <2>2, PageFollows
  <2> QED
    BY <2>3 DEF p, g
<1> QED
  BY <1>1, <1>3, <1>4, <1>5 DEF after

\* A call of a client, or the sweep.
LEMMA ClientStep ==
  ASSUME MeshInv, NEW q \in Relays, NEW n, Sound(n), Follows(n, stores[q]), At(q, n)
  PROVE  MeshInv'
<1>1. /\ stores' = [stores EXCEPT ![q] = n] /\ epoch' = epoch /\ cursor' = cursor
      /\ sync' = sync /\ seen' = seen /\ clock' = clock
  BY DEF At
<1>2. /\ DOMAIN stores' = Relays
      /\ \A r \in Relays : Sound(stores'[r])
      /\ \A r \in Relays : \A p \in PeersOf[r] :
           CursorOK(cursor[r][p], epoch[p], stores'[p], seen[r][p])
      /\ \A r \in Relays : sync[r].page # <<>> =>
           PageFits(Head(sync[r].page), cursor[r][sync[r].peer],
                    epoch[sync[r].peer], stores'[sync[r].peer])
  BY <1>1, StoreMoves
<1>3. RelaysOK'
  BY <1>1, <1>2 DEF MeshInv, RelaysOK
<1>4. CursorsOK'
  BY <1>1, <1>2 DEF CursorsOK
<1>5. PagesOK'
  BY <1>1, <1>2 DEF MeshInv, PagesOK
<1> QED
  BY <1>3, <1>4, <1>5 DEF MeshInv

\* POST /messages.
LEMMA PostMessageFollows ==
  ASSUME NEW s, Sound(s), NEW m \in MessageIDs, NEW tag \in Tags \cup {None},
         NEW requested \in Nat, clock \in Nat
  PROVE  LET n == AddMessageWithGrant(s, m, tag, requested, NoCredential, clock).store
         IN  Sound(n) /\ Follows(n, s)
<1> DEFINE n == AddMessageWithGrant(s, m, tag, requested, NoCredential, clock).store
<1>1. NoCredential \in Callers
  BY DEF Callers
<1>2. CASE n = s
  BY <1>2, FollowsItself
<1>3. CASE n # s
  <2>0. PICK e \in Nat : Posted(n, s, m, tag, e, NoCredential, clock)
    BY <1>1, <1>3, AddMessageCases
  <2> HIDE DEF n
  <2> DEFINE mid == insertAck(s, NodeReceived[m], e, tag)
  <2>1. /\ addMessageError(s, m, e, NoCredential, clock) = "ok"
        /\ NodeReceived[m] \notin DOMAIN s.acks
        /\ n = addMessageLocked(mid, m, tag, e, NoCredential)
    BY <2>0 DEF Posted
  <2>2. NodeReceived[m] \in AckIDs
    BY Bodies
  <2>3. Sound(mid) /\ ArrivalsKept(mid, s) /\ Queued(mid) = Queued(s)
    BY <2>1, <2>2, InsertAckSound, InsertAckKeeps
  <2>4. m \notin Queued(s)
    BY <2>1, NoError DEF Queued
  <2> HIDE DEF mid
  <2>5. Sound(n) /\ ArrivalsKept(n, mid)
    BY <1>1, <2>1, <2>3, <2>4, AddMessageSound, AddMessageKeeps DEF Queued, mid
  <2> QED
    BY <2>3, <2>5, KeptFollows, FollowsTwice DEF n
<1> QED
  BY <1>2, <1>3

\* POST /acks.
LEMMA PostAckFollows ==
  ASSUME NEW s, Sound(s), NEW a \in AckIDs, NEW requested \in Nat, NEW proof, NEW untagged,
         clock \in Nat
  PROVE  LET n == AddAckWithGrant(s, a, requested, NoCredential, proof, untagged, clock).store
         IN  Sound(n) /\ Follows(n, s)
<1> DEFINE n == AddAckWithGrant(s, a, requested, NoCredential, proof, untagged, clock).store
<1>1. NoCredential \in Callers
  BY DEF Callers
<1>2. CASE n = s
  BY <1>2, FollowsItself
<1>3. CASE n # s
  <2>1. PICK e \in Nat : ExternalAck(n, s, a, e, BoundTo(s, ackKey(a)))
    BY <1>1, <1>3, AddAckCases
  <2>2. BoundTo(s, ackKey(a)) \in Tags \cup {None}
    BY BoundToType DEF Sound
  <2> HIDE DEF n
  <2> QED
    BY <2>1, <2>2, ExternalAckSound, ExternalAckKeeps, KeptFollows DEF n
<1> QED
  BY <1>2, <1>3

\* A purge.
LEMMA PurgeFollows ==
  ASSUME NEW s, Sound(s), NEW h \in PurgeHashes, clock \in Nat
  PROVE  LET n == PurgeOwner(s, h, clock)
         IN  Sound(n) /\ Follows(n, s)
<1> DEFINE n == PurgeOwner(s, h, clock)
           e == clock + DefaultTTL
<1>1. e \in Nat
  BY QueueConstants
<1>2. Buries(n, s, h, e)
  BY DEF Buries, PurgeOwner
<1>3. Sound(n)
  BY <1>1, StorePurgeSound, PurgeOwnerSound DEF PurgeOwner
<1> HIDE DEF n, e
<1> QED
  BY <1>1, <1>2, <1>3, BuriesKeeps, KeptFollows DEF n

\* The sweep.
LEMMA PruneFollows ==
  ASSUME NEW s, Sound(s), NEW t
  PROVE  LET n == PruneExpired(s, t)
         IN  Sound(n) /\ Follows(n, s)
<1>1. Sweeps(PruneExpired(s, t), s, t)
  BY DEF Sweeps
<1> QED
  BY <1>1, PruneSound, SweepsKeep, KeptFollows

\* An answered request: the page fits the cursor it was asked with.
LEMMA FetchStep ==
  ASSUME MeshInv, NEW q \in Relays, NEW p \in PeersOf[q], Fetch(q, p)
  PROVE  MeshInv'
<1> DEFINE swept == PruneExpired(stores[p], clock)
           g == SnapshotSince(swept, epoch[p], cursor[q][p].seq)
<1>1. /\ stores' = [stores EXCEPT ![p] = swept]
      /\ sync' = [sync EXCEPT ![q] = [peer |-> p, pages |-> sync[q].pages + 1, page |-> <<g>>]]
      /\ epoch' = epoch /\ cursor' = cursor /\ seen' = seen /\ clock' = clock
  BY DEF Fetch
<1>2. p \in Relays /\ Sound(stores[p]) /\ epoch[p] \in Nat \ {0}
  BY PeersAreOthers DEF MeshInv, RelaysOK
<1>3. Sound(swept) /\ Follows(swept, stores[p])
  BY <1>2, PruneFollows
<1> HIDE DEF swept
<1>4. /\ DOMAIN stores' = Relays
      /\ \A r \in Relays : Sound(stores'[r])
      /\ \A r \in Relays : \A o \in PeersOf[r] :
           CursorOK(cursor[r][o], epoch[o], stores'[o], seen[r][o])
      /\ \A r \in Relays : sync[r].page # <<>> =>
           PageFits(Head(sync[r].page), cursor[r][sync[r].peer],
                    epoch[sync[r].peer], stores'[sync[r].peer])
  BY <1>1, <1>2, <1>3, StoreMoves
<1>5. stores'[p] = swept
  BY <1>1, <1>2 DEF MeshInv, RelaysOK
<1>6. PageOK(g) /\ PageFits(g, cursor[q][p], epoch[p], swept)
  <2>1. CursorOK(cursor[q][p], epoch[p], swept, seen[q][p])
    BY <1>4, <1>5
  <2> QED
    BY <1>2, <1>3, <2>1, SnapshotFits
<1> HIDE DEF g
<1>7. /\ DOMAIN sync' = Relays
      /\ sync'[q] = [peer |-> p, pages |-> sync[q].pages + 1, page |-> <<g>>]
      /\ \A r \in Relays : r # q => sync'[r] = sync[r]
  BY <1>1 DEF MeshInv, RelaysOK
<1>8. RelaysOK'
  <2>1. \A r \in Relays : DOMAIN sync'[r] = {"peer", "pages", "page"}
    BY <1>7 DEF MeshInv, RelaysOK
  <2> QED
    BY <1>1, <1>4, <1>7, <2>1 DEF MeshInv, RelaysOK
<1>9. CursorsOK'
  BY <1>1, <1>4 DEF CursorsOK
<1>10. PagesOK'
  <2> SUFFICES ASSUME NEW r \in Relays, sync'[r].page # <<>>
               PROVE  LET o == sync'[r].peer
                          h == Head(sync'[r].page)
                      IN  o \in PeersOf[r] /\ PageOK(h)
                          /\ PageFits(h, cursor[r][o], epoch[o], stores'[o])
    BY <1>1 DEF PagesOK
  <2>1. CASE r = q
    <3>1. sync'[r].peer = p /\ Head(sync'[r].page) = g
      BY <1>7, <2>1
    <3> QED
      BY <1>5, <1>6, <2>1, <3>1
  <2>2. CASE r # q
    <3>1. sync'[r] = sync[r]
      BY <1>7, <2>2
    <3> QED
      BY <1>4, <3>1 DEF MeshInv, PagesOK
  <2> QED
    BY <2>1, <2>2
<1> QED
  BY <1>8, <1>9, <1>10 DEF MeshInv

\* A relay that has no page on its way has none to fit.
LEMMA IdleOK ==
  /\ Idle.page = <<>>
  /\ DOMAIN Idle = {"peer", "pages", "page"}
BY DEF Idle

\* A lost answer.
LEMMA FetchFailsStep ==
  ASSUME MeshInv, NEW q \in Relays, FetchFails(q)
  PROVE  MeshInv'
<1>1. /\ sync' = [sync EXCEPT ![q] = Idle] /\ stores' = stores /\ epoch' = epoch
      /\ cursor' = cursor /\ seen' = seen /\ clock' = clock
  BY DEF FetchFails
<1>2. /\ DOMAIN sync' = Relays /\ sync'[q] = Idle
      /\ \A r \in Relays : r # q => sync'[r] = sync[r]
  BY <1>1 DEF MeshInv, RelaysOK
<1>3. RelaysOK'
  <2>1. \A r \in Relays : DOMAIN sync'[r] = {"peer", "pages", "page"}
    BY <1>2, IdleOK DEF MeshInv, RelaysOK
  <2> QED
    BY <1>1, <1>2, <2>1 DEF MeshInv, RelaysOK
<1>4. CursorsOK'
  BY <1>1 DEF MeshInv, CursorsOK
<1>5. PagesOK'
  BY <1>1, <1>2, IdleOK DEF MeshInv, PagesOK
<1> QED
  BY <1>3, <1>4, <1>5 DEF MeshInv
\* After a page is worked off there is none.
LEMMA NextPageOK ==
  ASSUME MeshInv, NEW q \in Relays, NEW goOn, NextPage(q, goOn)
  PROVE  /\ DOMAIN sync' = Relays
         /\ sync'[q].page = <<>> /\ DOMAIN sync'[q] = {"peer", "pages", "page"}
         /\ \A r \in Relays : r # q => sync'[r] = sync[r]
<1> DEFINE next == IF goOn /\ sync[q].pages < PagesPerSync
                   THEN [sync[q] EXCEPT !.page = <<>>] ELSE Idle
<1>1. DOMAIN sync = Relays /\ DOMAIN sync[q] = {"peer", "pages", "page"}
  BY DEF MeshInv, RelaysOK
<1>2. next.page = <<>> /\ DOMAIN next = {"peer", "pages", "page"}
  BY <1>1, IdleOK
<1>3. sync' = [sync EXCEPT ![q] = next]
  BY DEF NextPage
<1> HIDE DEF next
<1> QED
  BY <1>1, <1>2, <1>3

\* The peer restarted: the cursor goes back to zero in its new life.
LEMMA StartOverStep ==
  ASSUME MeshInv, NEW q \in Relays, StartOver(q)
  PROVE  MeshInv'
<1> DEFINE p == sync[q].peer
           g == Head(sync[q].page)
           zero == [epoch |-> g.epoch, seq |-> 0]
<1>1. /\ sync[q].page # <<>> /\ cursor' = [cursor EXCEPT ![q][p] = zero]
      /\ stores' = stores /\ epoch' = epoch /\ seen' = seen /\ clock' = clock
      /\ NextPage(q, TRUE)
  BY DEF StartOver
<1>2. p \in PeersOf[q] /\ PageOK(g) /\ PageFits(g, cursor[q][p], epoch[p], stores[p])
  BY <1>1 DEF MeshInv, PagesOK
<1> HIDE DEF p, g
<1>3. /\ DOMAIN sync' = Relays
      /\ sync'[q].page = <<>> /\ DOMAIN sync'[q] = {"peer", "pages", "page"}
      /\ \A r \in Relays : r # q => sync'[r] = sync[r]
  BY <1>1, NextPageOK
<1> HIDE DEF zero
<1>4. /\ DOMAIN cursor' = Relays
      /\ \A r \in Relays : DOMAIN cursor'[r] = PeersOf[r]
      /\ \A r \in Relays : \A o \in PeersOf[r] :
           cursor'[r][o] = IF r = q /\ o = p THEN zero ELSE cursor[r][o]
  BY <1>1, <1>2 DEF MeshInv, RelaysOK
<1>5. RelaysOK'
  <2>1. \A r \in Relays : DOMAIN sync'[r] = {"peer", "pages", "page"}
    BY <1>3 DEF MeshInv, RelaysOK
  <2> QED
    BY <1>1, <1>3, <1>4, <2>1 DEF MeshInv, RelaysOK
<1>6. CursorOK(zero, epoch[p], stores[p], seen[q][p])
  <2>1. p \in Relays
    BY <1>2, PeersAreOthers
  <2>2. /\ g.epoch \in Nat /\ epoch[p] \in Nat /\ g.epoch <= epoch[p] /\ Sound(stores[p])
    BY <1>2, <2>1 DEF PageOK, PageFits, MeshInv, RelaysOK
  <2> QED
    BY <2>2, CursorAtZero DEF zero
<1>7. CursorsOK'
  BY <1>1, <1>4, <1>6 DEF MeshInv, CursorsOK
<1>8. PagesOK'
  <2> SUFFICES ASSUME NEW r \in Relays, sync'[r].page # <<>>
               PROVE  LET o == sync'[r].peer
                          h == Head(sync'[r].page)
                      IN  o \in PeersOf[r] /\ PageOK(h)
                          /\ PageFits(h, cursor'[r][o], epoch[o], stores[o])
    BY <1>1 DEF PagesOK
  <2>1. r # q /\ sync'[r] = sync[r]
    BY <1>3
  <2> DEFINE o == sync[r].peer
             h == Head(sync[r].page)
  <2>2. o \in PeersOf[r] /\ PageOK(h) /\ PageFits(h, cursor[r][o], epoch[o], stores[o])
    BY <2>1 DEF MeshInv, PagesOK
  <2>3. cursor'[r][o] = cursor[r][o]
    BY <1>4, <2>1, <2>2
  <2> QED
    BY <2>1, <2>2, <2>3
<1> QED
  BY <1>5, <1>7, <1>8 DEF MeshInv

\* What importing a page does to the importer's store.
LEMMA ImportEffect ==
  ASSUME MeshInv, NEW q \in Relays, Import(q)
  PROVE  \E n : /\ stores' = [stores EXCEPT ![q] = n]
                /\ Sound(n) /\ Follows(n, stores[q]) /\ StaysClean(n, stores[q])
<1> DEFINE p == sync[q].peer
           g == Head(sync[q].page)
<1>1. /\ sync[q].page # <<>>
      /\ \E tombstones \in SetToSeqs(Tombstones(g)) :
           stores' = [stores EXCEPT ![q] = ImportSnapshot(stores[q], g, tombstones)]
  BY DEF Import
<1>2. PageOK(g) /\ Sound(stores[q]) /\ clock \in Nat
  BY <1>1 DEF MeshInv, PagesOK, RelaysOK
<1> HIDE DEF g
<1>3. PICK tombstones \in SetToSeqs(Tombstones(g)) :
             stores' = [stores EXCEPT ![q] = ImportSnapshot(stores[q], g, tombstones)]
  BY <1>1
<1> DEFINE n == ImportSnapshot(stores[q], g, tombstones)
<1>4. Sound(n) /\ Follows(n, stores[q]) /\ StaysClean(n, stores[q])
  BY <1>2, ImportSnapshotClean
<1> HIDE DEF n
<1>5. stores' = [stores EXCEPT ![q] = n]
  BY <1>3 DEF n
<1> QED
  BY <1>4, <1>5

\* The page is imported and the cursor moves to where it ended.
LEMMA ImportStep ==
  ASSUME MeshInv, NEW q \in Relays, Import(q)
  PROVE  MeshInv'
<1> DEFINE p == sync[q].peer
           g == Head(sync[q].page)
           mark == cursor[q][p]
           given == {x.seq : x \in g.records}
           moved == [epoch |-> g.epoch, seq |-> g.nextSeq]
           got == IF g.epoch = epoch[p] THEN seen[q][p] \cup given ELSE seen[q][p]
<1>1. /\ sync[q].page # <<>> /\ ~Restarted(mark, g)
      /\ cursor' = [cursor EXCEPT ![q][p] = IF g.nextSeq >= mark.seq THEN moved ELSE mark]
      /\ seen' = [seen EXCEPT ![q][p] = got]
      /\ NextPage(q, g.more /\ g.nextSeq > mark.seq)
      /\ epoch' = epoch /\ clock' = clock
  BY DEF Import
<1>2. p \in PeersOf[q] /\ PageOK(g) /\ PageFits(g, mark, epoch[p], stores[p])
  BY <1>1 DEF MeshInv, PagesOK
<1>3. p \in Relays /\ p # q /\ Sound(stores[p]) /\ epoch[p] \in Nat
  BY <1>2, PeersAreOthers DEF MeshInv, RelaysOK
<1>4. CursorOK(mark, epoch[p], stores[p], seen[q][p])
  BY <1>2 DEF MeshInv, CursorsOK
<1>5. CursorOK(moved, epoch[p], stores[p], got)
  BY <1>1, <1>2, <1>3, <1>4, CursorMoves
<1>6. g.nextSeq >= mark.seq
  BY <1>2, <1>4 DEF PageOK, PageFits, CursorOK
<1>7. PICK n : /\ stores' = [stores EXCEPT ![q] = n]
               /\ Sound(n) /\ Follows(n, stores[q])
  BY ImportEffect
<1>8. /\ DOMAIN stores' = Relays
      /\ \A r \in Relays : Sound(stores'[r])
      /\ \A r \in Relays : \A o \in PeersOf[r] :
           CursorOK(cursor[r][o], epoch[o], stores'[o], seen[r][o])
      /\ \A r \in Relays : sync[r].page # <<>> =>
           PageFits(Head(sync[r].page), cursor[r][sync[r].peer],
                    epoch[sync[r].peer], stores'[sync[r].peer])
  BY <1>7, StoreMoves
<1>9. stores'[p] = stores[p]
  BY <1>3, <1>7 DEF MeshInv, RelaysOK
<1>10. /\ DOMAIN sync' = Relays
       /\ sync'[q].page = <<>> /\ DOMAIN sync'[q] = {"peer", "pages", "page"}
       /\ \A r \in Relays : r # q => sync'[r] = sync[r]
  BY <1>1, NextPageOK
<1> HIDE DEF p, g, mark, given, moved, got
<1>11. /\ DOMAIN cursor' = Relays
       /\ \A r \in Relays : DOMAIN cursor'[r] = PeersOf[r]
       /\ \A r \in Relays : \A o \in PeersOf[r] :
            cursor'[r][o] = IF r = q /\ o = p THEN moved ELSE cursor[r][o]
  BY <1>1, <1>2, <1>6 DEF MeshInv, RelaysOK
<1>12. /\ DOMAIN seen' = Relays
       /\ \A r \in Relays : DOMAIN seen'[r] = PeersOf[r]
       /\ \A r \in Relays : \A o \in PeersOf[r] :
            seen'[r][o] = IF r = q /\ o = p THEN got ELSE seen[r][o]
  BY <1>1, <1>2 DEF MeshInv, RelaysOK
<1>13. RelaysOK'
  <2>1. \A r \in Relays : DOMAIN sync'[r] = {"peer", "pages", "page"}
    BY <1>10 DEF MeshInv, RelaysOK
  <2> QED
    BY <1>1, <1>8, <1>10, <1>11, <1>12, <2>1 DEF MeshInv, RelaysOK
<1>14. CursorsOK'
  <2> SUFFICES ASSUME NEW r \in Relays, NEW o \in PeersOf[r]
               PROVE  CursorOK(cursor'[r][o], epoch[o], stores'[o], seen'[r][o])
    BY <1>1 DEF CursorsOK
  <2>1. CASE r = q /\ o = p
    BY <1>5, <1>9, <1>11, <1>12, <2>1
  <2>2. CASE ~(r = q /\ o = p)
    BY <1>8, <1>11, <1>12, <2>2
  <2> QED
    BY <2>1, <2>2
<1>15. PagesOK'
  <2> SUFFICES ASSUME NEW r \in Relays, sync'[r].page # <<>>
               PROVE  LET o == sync'[r].peer
                          h == Head(sync'[r].page)
                      IN  o \in PeersOf[r] /\ PageOK(h)
                          /\ PageFits(h, cursor'[r][o], epoch[o], stores'[o])
    BY <1>1 DEF PagesOK
  <2>1. r # q /\ sync'[r] = sync[r]
    BY <1>10
  <2> DEFINE o == sync[r].peer
             h == Head(sync[r].page)
  <2>2. o \in PeersOf[r] /\ PageOK(h) /\ PageFits(h, cursor[r][o], epoch[o], stores'[o])
    BY <1>8, <2>1 DEF MeshInv, PagesOK
  <2>3. cursor'[r][o] = cursor[r][o]
    BY <1>11, <2>1, <2>2
  <2> QED
    BY <2>1, <2>2, <2>3
<1> QED
  BY <1>13, <1>14, <1>15 DEF MeshInv

\* A restart: whatever others hold of the old life no longer counts.
LEMMA RestartStep ==
  ASSUME MeshInv, NEW q \in Relays, Restart(q)
  PROVE  MeshInv'
<1>1. /\ stores' = [stores EXCEPT ![q] = NewStore]
      /\ epoch' = [epoch EXCEPT ![q] = epoch[q] + 1]
      /\ cursor' = [cursor EXCEPT ![q] = [p \in PeersOf[q] |-> NoCursor]]
      /\ sync' = [sync EXCEPT ![q] = Idle]
      /\ seen' = [x \in Relays |->
                    [p \in PeersOf[x] |-> IF q \in {x, p} THEN {} ELSE seen[x][p]]]
      /\ clock' = clock
  BY DEF Restart
<1>2. /\ DOMAIN stores' = Relays /\ stores'[q] = NewStore
      /\ \A r \in Relays : r # q => stores'[r] = stores[r]
  BY <1>1 DEF MeshInv, RelaysOK
<1>3. /\ DOMAIN epoch' = Relays /\ epoch'[q] = epoch[q] + 1
      /\ \A r \in Relays : r # q => epoch'[r] = epoch[r]
  BY <1>1 DEF MeshInv, RelaysOK
<1>4. /\ DOMAIN cursor' = Relays /\ cursor'[q] = [p \in PeersOf[q] |-> NoCursor]
      /\ \A r \in Relays : r # q => cursor'[r] = cursor[r]
  BY <1>1 DEF MeshInv, RelaysOK
<1>5. /\ DOMAIN sync' = Relays /\ sync'[q] = Idle
      /\ \A r \in Relays : r # q => sync'[r] = sync[r]
  BY <1>1 DEF MeshInv, RelaysOK
<1>6. /\ DOMAIN seen' = Relays
      /\ \A r \in Relays : DOMAIN seen'[r] = PeersOf[r]
      /\ \A r \in Relays : \A p \in PeersOf[r] :
           r # q /\ p # q => seen'[r][p] = seen[r][p]
  BY <1>1
<1>7. \A r \in Relays : Sound(stores[r]) /\ epoch[r] \in Nat \ {0}
  BY DEF MeshInv, RelaysOK
<1>8. \A r \in Relays : Sound(stores'[r]) /\ epoch'[r] \in Nat \ {0}
  BY <1>2, <1>3, <1>7, NewStoreSound
<1>9. RelaysOK'
  <2>1. \A r \in Relays : DOMAIN sync'[r] = {"peer", "pages", "page"}
    BY <1>5, IdleOK DEF MeshInv, RelaysOK
  <2>2. \A r \in Relays : DOMAIN cursor'[r] = PeersOf[r]
    BY <1>4 DEF MeshInv, RelaysOK
  <2> QED
    BY <1>1, <1>2, <1>3, <1>4, <1>5, <1>6, <1>8, <2>1, <2>2 DEF MeshInv, RelaysOK
<1>10. CursorsOK'
  <2> SUFFICES ASSUME NEW r \in Relays, NEW p \in PeersOf[r]
               PROVE  CursorOK(cursor'[r][p], epoch'[p], stores'[p], seen'[r][p])
    BY DEF CursorsOK
  <2>1. p \in Relays /\ p # r /\ CursorOK(cursor[r][p], epoch[p], stores[p], seen[r][p])
    BY PeersAreOthers DEF MeshInv, CursorsOK
  <2>2. CASE r = q
    <3>1. cursor'[r][p] = [epoch |-> 0, seq |-> 0]
      BY <1>4, <2>2 DEF NoCursor
    <3> QED
      BY <1>8, <2>1, <3>1, CursorAtZero
  <2>3. CASE r # q /\ p = q
    BY <1>3, <1>4, <1>7, <2>1, <2>3, CursorOutlived
  <2>4. CASE r # q /\ p # q
    BY <1>2, <1>3, <1>4, <1>6, <2>1, <2>4
  <2> QED
    BY <2>2, <2>3, <2>4
<1>11. PagesOK'
  <2> SUFFICES ASSUME NEW r \in Relays, sync'[r].page # <<>>
               PROVE  LET o == sync'[r].peer
                          h == Head(sync'[r].page)
                      IN  o \in PeersOf[r] /\ PageOK(h)
                          /\ PageFits(h, cursor'[r][o], epoch'[o], stores'[o])
    BY DEF PagesOK
  <2>1. r # q /\ sync'[r] = sync[r] /\ cursor'[r] = cursor[r]
    BY <1>4, <1>5, IdleOK
  <2> DEFINE o == sync[r].peer
             h == Head(sync[r].page)
  <2>2. o \in PeersOf[r] /\ PageOK(h) /\ PageFits(h, cursor[r][o], epoch[o], stores[o])
    BY <2>1 DEF MeshInv, PagesOK
  <2>3. o \in Relays
    BY <2>2, PeersAreOthers
  <2> HIDE DEF o, h
  <2>4. PageFits(h, cursor[r][o], epoch'[o], stores'[o])
    BY <1>2, <1>3, <1>7, <2>2, <2>3, PageOutlived
  <2> QED
    BY <2>1, <2>2, <2>4 DEF o, h
<1> QED
  BY <1>9, <1>10, <1>11 DEF MeshInv

\* Time passes.
LEMMA ClockStep ==
  ASSUME MeshInv, ClockTick
  PROVE  MeshInv'
<1>1. /\ clock' = clock + 1 /\ stores' = stores /\ epoch' = epoch /\ cursor' = cursor
      /\ sync' = sync /\ seen' = seen
  BY DEF ClockTick
<1>2. RelaysOK'
  BY <1>1 DEF MeshInv, RelaysOK
<1>3. CursorsOK'
  BY <1>1 DEF MeshInv, CursorsOK
<1>4. PagesOK'
  BY <1>1 DEF MeshInv, PagesOK
<1> QED
  BY <1>2, <1>3, <1>4 DEF MeshInv

\* Every step keeps the invariant.
LEMMA MeshInvStep == MeshInv /\ [MeshNext]_meshVars => MeshInv'
<1> SUFFICES ASSUME MeshInv, [MeshNext]_meshVars
             PROVE  MeshInv'
  OBVIOUS
<1>0. clock \in Nat /\ \A r \in Relays : Sound(stores[r])
  BY DEF MeshInv, RelaysOK
<1>1. ASSUME NEW r \in Relays, NEW m \in MessageIDs, NEW tag \in Tags,
             NEW requested \in Expiries, PostMessageAt(r, m, tag, requested)
      PROVE  MeshInv'
  <2>1. requested \in Nat /\ tag \in Tags \cup {None}
    BY MeshConstants
  <2> QED
    BY <1>0, <1>1, <2>1, PostMessageFollows, ClientStep DEF PostMessageAt
<1>2. ASSUME NEW r \in Relays, NEW a \in AckIDs \ OwnAcks, NEW tag \in Tags,
             NEW requested \in Expiries, PostAckAt(r, a, tag, requested)
      PROVE  MeshInv'
  <2>1. requested \in Nat
    BY MeshConstants
  <2> QED
    BY <1>0, <1>2, <2>1, PostAckFollows, ClientStep DEF PostAckAt
<1>3. ASSUME NEW r \in Relays, NEW hash \in PurgeHashes, PurgeAt(r, hash)
      PROVE  MeshInv'
  BY <1>0, <1>3, PurgeFollows, ClientStep DEF PurgeAt
<1>4. ASSUME NEW r \in Relays, PruneAt(r)
      PROVE  MeshInv'
  BY <1>0, <1>4, PruneFollows, ClientStep DEF PruneAt
<1>5. ASSUME NEW r \in Relays, NEW p \in PeersOf[r], Fetch(r, p)
      PROVE  MeshInv'
  BY <1>5, FetchStep
<1>6. ASSUME NEW r \in Relays, FetchFails(r)
      PROVE  MeshInv'
  BY <1>6, FetchFailsStep
<1>7. ASSUME NEW r \in Relays, StartOver(r)
      PROVE  MeshInv'
  BY <1>7, StartOverStep
<1>8. ASSUME NEW r \in Relays, Import(r)
      PROVE  MeshInv'
  BY <1>8, ImportStep
<1>9. ASSUME NEW r \in Relays, Restart(r)
      PROVE  MeshInv'
  BY <1>9, RestartStep
<1>10. CASE ClockTick
  BY <1>10, ClockStep
<1>11. CASE UNCHANGED meshVars
  <2>1. /\ stores' = stores /\ epoch' = epoch /\ cursor' = cursor /\ sync' = sync
        /\ seen' = seen /\ clock' = clock
    BY <1>11 DEF meshVars
  <2> QED
    BY <2>1 DEF MeshInv, RelaysOK, CursorsOK, PagesOK
<1> QED
  BY <1>1, <1>2, <1>3, <1>4, <1>5, <1>6, <1>7, <1>8, <1>9, <1>10, <1>11 DEF MeshNext

\* It holds at the start, where every cursor is at zero.
LEMMA MeshInvInit == MeshInit => MeshInv
<1> SUFFICES ASSUME MeshInit
             PROVE  MeshInv
  OBVIOUS
<1>1. /\ stores = [r \in Relays |-> NewStore] /\ epoch = [r \in Relays |-> 1]
      /\ cursor = [r \in Relays |-> [p \in PeersOf[r] |-> NoCursor]]
      /\ sync = [r \in Relays |-> Idle]
      /\ seen = [r \in Relays |-> [p \in PeersOf[r] |-> {}]]
      /\ clock = 1
  BY DEF MeshInit
<1>2. RelaysOK
  BY <1>1, NewStoreSound, IdleOK DEF RelaysOK
<1>3. CursorsOK
  <2> SUFFICES ASSUME NEW r \in Relays, NEW p \in PeersOf[r]
               PROVE  CursorOK(cursor[r][p], epoch[p], stores[p], seen[r][p])
    BY DEF CursorsOK
  <2>1. cursor[r][p] = [epoch |-> 0, seq |-> 0] /\ epoch[p] = 1 /\ stores[p] = NewStore
    BY <1>1, PeersAreOthers DEF NoCursor
  <2> QED
    BY <2>1, NewStoreSound, CursorAtZero
<1>4. PagesOK
  BY <1>1, IdleOK DEF PagesOK
<1> QED
  BY <1>2, <1>3, <1>4 DEF MeshInv

-----------------------------------------------------------------------------
(***************************************************************************)
(* The theorems.                                                           *)
(***************************************************************************)
(***************************************************************************)
(* The invariant holds always: stores are sound, cursors and pages belong  *)
(* to the peer's current life or say nothing of it.                        *)
(***************************************************************************)
THEOREM MeshInvariance == MeshSpec => []MeshInv
<1>1. MeshInit => MeshInv
  BY MeshInvInit
<1>2. MeshInv /\ [MeshNext]_meshVars => MeshInv'
  BY MeshInvStep
<1> QED
  BY <1>1, <1>2, PTL DEF MeshSpec

(***************************************************************************)
(* SyncPeer's cursor skips nothing, whatever the pool looks like, however  *)
(* large pages are and whoever restarts: what a peer still holds up to it  *)
(* was on a page this relay imported.                                      *)
(***************************************************************************)
THEOREM CursorsSkipNothing == MeshSpec => []NothingSkipped
<1>1. MeshInv => NothingSkipped
  <2> SUFFICES ASSUME MeshInv, NEW r \in Relays, NEW p \in PeersOf[r],
                      cursor[r][p].epoch = epoch[p],
                      NEW x \in Arrivals(stores[p]), x.seq <= cursor[r][p].seq
               PROVE  x.seq \in seen[r][p]
    BY DEF NothingSkipped
  <2>1. Sound(stores[p]) /\ CursorOK(cursor[r][p], epoch[p], stores[p], seen[r][p])
    BY PeersAreOthers DEF MeshInv, RelaysOK, CursorsOK
  <2>2. x.seq \in Numbers(stores[p])
    BY <2>1, NumbersOfArrivals
  <2> QED
    BY <2>1, <2>2 DEF CursorOK
<1> QED
  BY <1>1, MeshInvariance, PTL

(***************************************************************************)
(* ImportSnapshot brings nothing back: a message it adds is neither        *)
(* settled nor purged at the importer once the page is worked off, however *)
(* many tombstones, messages and acks of whatever age the page holds.      *)
(***************************************************************************)
THEOREM ImportsReviveNothing == MeshSpec => NothingRevived
<1>1. ASSUME MeshInv, NEW r \in Relays, Import(r),
             NEW m \in Queued(stores'[r]) \ Queued(stores[r])
      PROVE  ~hasTerminalAck(stores'[r], m) /\ ~Purged(stores'[r], m, clock)
  <2>1. PICK n : /\ stores' = [stores EXCEPT ![r] = n]
                 /\ Sound(n) /\ StaysClean(n, stores[r])
    BY <1>1, ImportEffect
  <2>2. stores'[r] = n
    BY <1>1, <2>1 DEF MeshInv, RelaysOK
  <2>3. ~Done(n, m)
    BY <2>1, <2>2 DEF StaysClean
  <2>4. m \in MessageIDs
    BY <2>1, <2>2 DEF Sound, IsStore, IsMap, Queued
  <2> QED
    BY <2>2, <2>3, <2>4 DEF Done, Settled
<1>2. MeshInv /\ [MeshNext]_meshVars =>
        [\A r \in Relays : Import(r) =>
           \A m \in Queued(stores'[r]) \ Queued(stores[r]) :
             ~hasTerminalAck(stores'[r], m) /\ ~Purged(stores'[r], m, clock)]_meshVars
  BY <1>1
<1> QED
  BY <1>2, MeshInvariance, PTL DEF MeshSpec, NothingRevived

-----------------------------------------------------------------------------
(***************************************************************************)
(* What /health says of the pool.  Health walks the configured list and    *)
(* stops at the first peer that was never synced, while what is true is    *)
(* said of the set of peers: the list holds every peer once, so that       *)
(* counting places counts peers.                                           *)
(*                                                                         *)
(* What Health reads agrees with what happened: a peer has a time of       *)
(* success exactly if a pull from it ever succeeded, that time is at most  *)
(* the real one on a wall clock that was never set back, and a peer that   *)
(* has answered is failing exactly if its last pull failed.                *)
(***************************************************************************)
StatusTrue(url) ==
  /\ truth[url].at = Never <=> status[url].LastSuccessAt = Never
  /\ truth[url].at = Never => ~truth[url].good
  /\ truth[url].at # Never =>
       /\ truth[url].at \in Nat
       /\ status[url].LastSuccessAt \in Nat
       /\ status[url].LastSuccessAt <= truth[url].at + MaxBack
       /\ status[url].failing <=> ~truth[url].good

PoolInv ==
  /\ status \in [Peers -> [LastSuccessAt : Int, failing : BOOLEAN]]
  /\ truth \in [Peers -> [at : Int, good : BOOLEAN]]
  /\ \A url \in Peers : StatusTrue(url)
  /\ elapsed \in Nat /\ back \in 0..MaxBack
  /\ Targets # <<>> => turn \in DOMAIN Targets

\* NewPool's list: the configured urls, each of them once.
LEMMA TargetsOnce ==
  /\ Targets \in Seq(STRING)
  /\ Len(Targets) \in Nat /\ DOMAIN Targets = 1..Len(Targets)
  /\ \A i \in DOMAIN Targets : Targets[i] \in Peers
  /\ \A url \in Peers : \E i \in DOMAIN Targets : Targets[i] = url
  /\ \A i, j \in DOMAIN Targets : Targets[i] = Targets[j] => i = j
  /\ Targets = <<>> <=> Peers = {}
<1> DEFINE I == {i \in DOMAIN PeerURLs :
                   /\ PeerURLs[i] # ""
                   /\ \A j \in 1..(i - 1) : PeerURLs[j] # PeerURLs[i]}
<1>0. PeerURLs \in Seq(STRING) /\ Len(PeerURLs) \in Nat /\ DOMAIN PeerURLs = 1..Len(PeerURLs)
  BY PeerPoolConstants, LenProperties
<1>1. I \subseteq DOMAIN PeerURLs
  OBVIOUS
<1>2. \A i, k \in I : PeerURLs[i] = PeerURLs[k] => i = k
  <2> SUFFICES ASSUME NEW i \in I, NEW k \in I, PeerURLs[i] = PeerURLs[k], i # k
               PROVE  FALSE
    OBVIOUS
  <2>1. i \in 1..Len(PeerURLs) /\ k \in 1..Len(PeerURLs)
    BY <1>0, <1>1
  <2>2. /\ \A j \in 1..(i - 1) : PeerURLs[j] # PeerURLs[i]
        /\ \A j \in 1..(k - 1) : PeerURLs[j] # PeerURLs[k]
    OBVIOUS
  <2> HIDE DEF I
  <2>3. i \in 1..(k - 1) \/ k \in 1..(i - 1)
    BY <1>0, <2>1
  <2> QED
    BY <2>2, <2>3
<1>3. Targets = Picked(PeerURLs, I)
  BY DEF Targets
<1> HIDE DEF I
<1>4. /\ Cardinality(I) \in Nat
      /\ Targets \in Seq(STRING)
      /\ Len(Targets) = Cardinality(I)
      /\ DOMAIN Targets = 1..Cardinality(I)
      /\ \A n \in 1..Cardinality(I) :
           \E i \in I : Place(I, i) = n /\ Targets[n] = PeerURLs[i]
  BY <1>0, <1>1, <1>3, PickedPlaces
<1>5. Peers = {Targets[i] : i \in DOMAIN Targets}
  BY DEF Peers, ToSet
<1>6. ASSUME NEW i \in DOMAIN Targets, NEW j \in DOMAIN Targets, Targets[i] = Targets[j]
      PROVE  i = j
  <2>1. PICK k \in I : Place(I, k) = i /\ Targets[i] = PeerURLs[k]
    BY <1>4
  <2>2. PICK l \in I : Place(I, l) = j /\ Targets[j] = PeerURLs[l]
    BY <1>4
  <2>3. k = l
    BY <1>2, <1>6, <2>1, <2>2
  <2> QED
    BY <2>1, <2>2, <2>3
<1>7. Targets = <<>> <=> Peers = {}
  <2>1. Targets = <<>> => Peers = {}
    BY <1>5
  <2>2. ASSUME Peers = {}
        PROVE  Targets = <<>>
    <3>1. DOMAIN Targets = {}
      BY <1>5, <2>2
    <3>2. Len(Targets) = 0
      BY <1>4, <3>1
    <3> QED
      BY <1>4, <3>2, EmptySeq
  <2> QED
    BY <2>1, <2>2
<1>8. /\ \A i \in DOMAIN Targets : Targets[i] \in Peers
      /\ \A url \in Peers : \E i \in DOMAIN Targets : Targets[i] = url
  BY <1>5
<1> QED
  BY <1>4, <1>6, <1>7, <1>8

\* The pool has finitely many peers.
LEMMA PeersFinite ==
  IsFiniteSet(Peers) /\ IsFiniteSet(DOMAIN Targets)
<1>1. IsFiniteSet(DOMAIN Targets)
  <2>1. 1 \in Int /\ Len(Targets) \in Int /\ DOMAIN Targets = 1..Len(Targets)
    BY TargetsOnce
  <2> QED
    BY <2>1, FS_Interval
<1> DEFINE f == [i \in DOMAIN Targets |-> Targets[i]]
<1>2. f \in [DOMAIN Targets -> Peers] /\ \A url \in Peers : \E i \in DOMAIN Targets : f[i] = url
  BY TargetsOnce
<1>3. f \in Surjection(DOMAIN Targets, Peers)
  BY <1>2 DEF Surjection
<1> HIDE DEF f
<1> QED
  BY <1>1, <1>3, FS_Surjection

-----------------------------------------------------------------------------
\* The relay boots: no peer was pulled from.
LEMMA PoolBoots == ASSUME PoolInit PROVE PoolInv
<1>1. MaxBack \in Nat /\ Never \in Int
  BY PeerPoolConstants DEF Never
<1>2. Targets # <<>> => 1 \in DOMAIN Targets
  <2>1. /\ Len(Targets) \in Nat /\ DOMAIN Targets = 1..Len(Targets)
        /\ Len(Targets) = 0 => Targets = <<>>
    BY TargetsOnce, EmptySeq
  <2> QED
    BY <2>1
<1>3. \A url \in Peers : StatusTrue(url)
  BY DEF PoolInit, StatusTrue, Never
<1>4. /\ status \in [Peers -> [LastSuccessAt : Int, failing : BOOLEAN]]
      /\ truth \in [Peers -> [at : Int, good : BOOLEAN]]
  BY <1>1 DEF PoolInit
<1>5. elapsed \in Nat /\ back \in 0..MaxBack /\ turn = 1
  BY <1>1 DEF PoolInit
<1> QED
  BY <1>2, <1>3, <1>4, <1>5 DEF PoolInv

\* A pull records what happened, by the wall clock of the moment.
LEMMA PoolSync == ASSUME PoolInv, SyncNext PROVE PoolInv'
<1> DEFINE u == Targets[turn]
<1>a. Targets # <<>>
  BY DEF SyncNext
<1>b. turn \in DOMAIN Targets
  BY <1>a DEF PoolInv
<1>0. u \in Peers
  BY <1>b, TargetsOnce
<1>1. elapsed' = elapsed /\ back' = back
  BY DEF SyncNext
<1>2. turn' \in DOMAIN Targets
  <2>1. Len(Targets) \in Nat /\ DOMAIN Targets = 1..Len(Targets)
    BY TargetsOnce
  <2>2. turn' = IF turn = Len(Targets) THEN 1 ELSE turn + 1
    BY DEF SyncNext
  <2> QED
    BY <1>b, <2>1, <2>2
<1>3. /\ status' = IF u \in up THEN [status EXCEPT ![u] = [LastSuccessAt |-> Now, failing |-> FALSE]]
                   ELSE [status EXCEPT ![u].failing = TRUE]
      /\ truth' = [truth EXCEPT ![u] = [at |-> IF u \in up THEN elapsed ELSE @.at, good |-> u \in up]]
  BY DEF SyncNext, RecordSuccess, RecordFailure
<1>4. elapsed \in Nat /\ back \in Nat /\ back <= MaxBack /\ MaxBack \in Nat
  BY PeerPoolConstants DEF PoolInv
<1>5. Now \in Nat /\ Now <= elapsed + MaxBack /\ elapsed # Never /\ Now # Never
  BY <1>4 DEF Now, Never
<1> HIDE DEF u
<1>t. /\ status \in [Peers -> [LastSuccessAt : Int, failing : BOOLEAN]]
      /\ truth \in [Peers -> [at : Int, good : BOOLEAN]]
  BY DEF PoolInv
<1>6. CASE u \in up
  <2>1. /\ status' \in [Peers -> [LastSuccessAt : Int, failing : BOOLEAN]]
        /\ truth' \in [Peers -> [at : Int, good : BOOLEAN]]
        /\ \A url \in Peers \ {u} : status'[url] = status[url] /\ truth'[url] = truth[url]
        /\ status'[u] = [LastSuccessAt |-> Now, failing |-> FALSE]
        /\ truth'[u] = [at |-> elapsed, good |-> TRUE]
    <3>1. status' = [status EXCEPT ![u] = [LastSuccessAt |-> Now, failing |-> FALSE]]
      BY <1>3, <1>6
    <3>2. truth' = [truth EXCEPT ![u] = [at |-> elapsed, good |-> TRUE]]
      <4>1. (u \in up) = TRUE
        BY <1>6
      <4> QED
        BY <1>3, <4>1, Zenon
    <3> QED
      BY <1>0, <1>4, <1>5, <1>t, <3>1, <3>2
  <2>2. ASSUME NEW url \in Peers
        PROVE  StatusTrue(url)'
    <3>1. StatusTrue(url)
      BY DEF PoolInv
    <3>2. CASE url # u
      BY <2>1, <3>1, <3>2 DEF StatusTrue
    <3>3. CASE url = u
      BY <1>4, <1>5, <2>1, <3>3 DEF StatusTrue
    <3> QED
      BY <3>2, <3>3
  <2>3. elapsed' \in Nat /\ back' \in 0..MaxBack /\ (Targets # <<>> => turn' \in DOMAIN Targets)
    BY <1>1, <1>2, <1>4
  <2> QED
    BY <2>1, <2>2, <2>3 DEF PoolInv
<1>7. CASE u \notin up
  <2>1. /\ status' \in [Peers -> [LastSuccessAt : Int, failing : BOOLEAN]]
        /\ truth' \in [Peers -> [at : Int, good : BOOLEAN]]
        /\ \A url \in Peers \ {u} : status'[url] = status[url] /\ truth'[url] = truth[url]
        /\ status'[u].LastSuccessAt = status[u].LastSuccessAt /\ status'[u].failing
        /\ truth'[u].at = truth[u].at /\ ~truth'[u].good
    <3>1. status' = [status EXCEPT ![u].failing = TRUE]
      BY <1>3, <1>7
    <3>2. truth' = [truth EXCEPT ![u] = [at |-> truth[u].at, good |-> FALSE]]
      <4>1. (u \in up) = FALSE
        BY <1>7
      <4> QED
        BY <1>3, <4>1, Zenon
    <3> QED
      BY <1>0, <1>t, <3>1, <3>2
  <2>2. ASSUME NEW url \in Peers
        PROVE  StatusTrue(url)'
    <3>1. StatusTrue(url)
      BY DEF PoolInv
    <3>2. CASE url # u
      BY <2>1, <3>1, <3>2 DEF StatusTrue
    <3>3. CASE url = u
      BY <2>1, <3>1, <3>3 DEF StatusTrue
    <3> QED
      BY <3>2, <3>3
  <2>3. elapsed' \in Nat /\ back' \in 0..MaxBack /\ (Targets # <<>> => turn' \in DOMAIN Targets)
    BY <1>1, <1>2, <1>4
  <2> QED
    BY <2>1, <2>2, <2>3 DEF PoolInv
<1> QED
  BY <1>6, <1>7

(***************************************************************************)
(* What a relay records of its peers is what happened, in every reachable  *)
(* state (RecordSuccess and RecordFailure in internal/peer/pool.go).       *)
(***************************************************************************)
THEOREM PoolInvariance == PoolSpec => []PoolInv
<1>1. PoolInit => PoolInv
  BY PoolBoots
<1>2. PoolInv /\ [PoolNext]_poolVars => PoolInv'
  <2> SUFFICES ASSUME PoolInv, [PoolNext]_poolVars
               PROVE  PoolInv'
    OBVIOUS
  <2>0. MaxBack \in Nat /\ MaxElapsed \in Nat
    BY PeerPoolConstants
  <2>1. CASE SyncNext
    BY <2>1, PoolSync
  <2>2. CASE \E url \in Peers : Flip(url)
    BY <2>2 DEF Flip, PoolInv, StatusTrue
  <2>3. CASE WallTick
    BY <2>0, <2>3 DEF WallTick, PoolInv, StatusTrue
  <2>4. CASE SetBack
    BY <2>0, <2>4 DEF SetBack, PoolInv, StatusTrue
  <2>5. CASE Resolve \/ Elapse \/ \E interfaces \in Hosts : Move(interfaces)
    BY <2>5 DEF Resolve, Elapse, Move, PoolInv, StatusTrue
  <2>6. CASE UNCHANGED poolVars
    BY <2>6 DEF poolVars, PoolInv, StatusTrue
  <2> QED
    BY <2>1, <2>2, <2>3, <2>4, <2>5, <2>6 DEF PoolNext
<1> QED
  BY <1>1, <1>2, PTL DEF PoolSpec

-----------------------------------------------------------------------------
(***************************************************************************)
(* The age /health publishes.                                              *)
(***************************************************************************)
\* The age of a peer that was ever pulled from is a number, none younger than
\* the real one but for what the clock was set back.
LEMMA AgeHonest ==
  ASSUME PoolInv, NEW url \in Peers, truth[url].at # Never
  PROVE  /\ Now \in Nat
         /\ Age(url, Now) \in Nat /\ Age(url, Now) <= Now
         /\ Age(url, Now) + back >= elapsed - truth[url].at
<1> DEFINE at == truth[url].at
           last == status[url].LastSuccessAt
<1>1. at \in Nat /\ last \in Nat /\ last <= at + MaxBack
  BY DEF PoolInv, StatusTrue
<1>2. elapsed \in Nat /\ back \in Nat /\ back <= MaxBack /\ MaxBack \in Nat
  BY PeerPoolConstants DEF PoolInv
<1>3. Age(url, Now) = IF Now - last < 0 THEN 0 ELSE Now - last
  BY DEF Age
<1>4. Now = elapsed + MaxBack - back
  BY DEF Now
<1> HIDE DEF at, last
<1>5. /\ Now \in Nat
      /\ Age(url, Now) \in Nat /\ Age(url, Now) <= Now
      /\ Age(url, Now) + back >= elapsed - at
  BY <1>1, <1>2, <1>3, <1>4
<1> QED
  BY <1>5 DEF at

\* Health's loop stops before the end exactly if it meets a peer never synced.
LEMMA LoopEnds ==
  ASSUME PoolInv
  PROVE  /\ (\E i \in Visited : ~Synced(Targets[i])) <=> \E url \in Peers : truth[url].at = Never
         /\ (\A url \in Peers : truth[url].at # Never) => Visited = DOMAIN Targets
<1>1. \A url \in Peers : Synced(url) <=> truth[url].at # Never
  BY DEF PoolInv, StatusTrue, Synced
<1>2. Visited \subseteq DOMAIN Targets
  BY DEF Visited
<1>3. /\ Len(Targets) \in Nat /\ DOMAIN Targets = 1..Len(Targets)
      /\ \A i \in DOMAIN Targets : Targets[i] \in Peers
      /\ \A url \in Peers : \E i \in DOMAIN Targets : Targets[i] = url
  BY TargetsOnce
<1>4. ASSUME NEW i \in Visited, ~Synced(Targets[i])
      PROVE  \E url \in Peers : truth[url].at = Never
  BY <1>1, <1>2, <1>3, <1>4
<1>5. ASSUME NEW url \in Peers, truth[url].at = Never
      PROVE  \E i \in Visited : ~Synced(Targets[i])
  <2> DEFINE T == {i \in DOMAIN Targets : ~Synced(Targets[i])}
  <2>1. T \subseteq Nat /\ T # {}
    <3>1. T \subseteq DOMAIN Targets
      OBVIOUS
    <3>2. PICK i \in DOMAIN Targets : Targets[i] = url
      BY <1>3
    <3>3. i \in T
      BY <1>1, <1>5, <3>2
    <3> HIDE DEF T
    <3> QED
      BY <1>3, <3>1, <3>3
  <2>2. PICK i \in T : \A k \in T : i <= k
    <3> HIDE DEF T
    <3> QED
      BY <2>1, LeastNumber
  <2>3. i \in DOMAIN Targets /\ ~Synced(Targets[i])
    OBVIOUS
  <2>4. ASSUME NEW j \in 1..(i - 1)
        PROVE  Synced(Targets[j])
    <3>1. j \in DOMAIN Targets /\ ~(i <= j)
      BY <1>3, <2>3
    <3>2. j \notin T
      BY <2>2, <3>1
    <3> QED
      BY <3>1, <3>2
  <2>5. i \in Visited
    BY <2>3, <2>4 DEF Visited
  <2> QED
    BY <2>3, <2>5
<1>6. ASSUME \A url \in Peers : truth[url].at # Never
      PROVE  Visited = DOMAIN Targets
  <2>1. ASSUME NEW i \in DOMAIN Targets, NEW j \in 1..(i - 1)
        PROVE  Synced(Targets[j])
    <3>1. j \in DOMAIN Targets
      BY <1>3
    <3> QED
      BY <1>1, <1>3, <1>6, <3>1
  <2> QED
    BY <2>1 DEF Visited
<1> QED
  BY <1>4, <1>5, <1>6

\* Health counts, among the peers it visits, those whose last pull succeeded.
LEMMA ReachableHonest ==
  ASSUME PoolInv
  PROVE  LET answered == {url \in Peers : truth[url].good}
         IN  /\ Reachable <= Cardinality(answered)
             /\ (\A url \in Peers : truth[url].at # Never) => Reachable = Cardinality(answered)
<1> DEFINE answered == {url \in Peers : truth[url].good}
           R == {i \in Visited : Synced(Targets[i]) /\ ~status[Targets[i]].failing}
           f == [i \in R |-> Targets[i]]
<1>1. R \subseteq DOMAIN Targets
  BY DEF Visited
<1>2. ASSUME NEW i \in R
      PROVE  Targets[i] \in answered
  <2>1. Targets[i] \in Peers /\ Synced(Targets[i]) /\ ~status[Targets[i]].failing
    BY <1>1, TargetsOnce
  <2>2. StatusTrue(Targets[i])
    BY <2>1 DEF PoolInv
  <2>3. truth[Targets[i]].good
    BY <2>1, <2>2 DEF StatusTrue, Synced
  <2> QED
    BY <2>1, <2>3
<1>3. IsFiniteSet(answered)
  BY PeersFinite, FS_Subset
<1>4. \A i, j \in R : Targets[i] = Targets[j] => i = j
  BY <1>1, TargetsOnce
<1>5. f \in Injection(R, answered)
  <2> HIDE DEF R, answered
  <2> QED
    BY <1>2, <1>4 DEF Injection, IsInjective
<1>6. Cardinality(R) <= Cardinality(answered)
  <2> HIDE DEF R, answered, f
  <2> QED
    BY <1>3, <1>5, FS_Injection
<1>7. ASSUME \A url \in Peers : truth[url].at # Never
      PROVE  Cardinality(R) = Cardinality(answered)
  <2>1. ASSUME NEW url \in answered
        PROVE  \E i \in R : Targets[i] = url
    <3>1. PICK i \in DOMAIN Targets : Targets[i] = url
      BY TargetsOnce
    <3>2. i \in Visited
      BY <1>7, LoopEnds
    <3>3. url \in Peers /\ truth[url].good /\ truth[url].at # Never
      BY <1>7
    <3>4. StatusTrue(url)
      BY <3>3 DEF PoolInv
    <3>5. Synced(url) /\ ~status[url].failing
      BY <3>3, <3>4 DEF StatusTrue, Synced
    <3>6. i \in R
      BY <3>1, <3>2, <3>5
    <3> QED
      BY <3>1, <3>6
  <2>2. f \in Surjection(R, answered)
    <3> HIDE DEF R, answered
    <3> QED
      BY <1>2, <2>1 DEF Surjection
  <2> HIDE DEF R, answered, f
  <2> QED
    BY <1>3, <1>5, <2>2, FS_Injection
<1>8. Reachable = Cardinality(R)
  BY DEF Reachable
<1> HIDE DEF R, f
<1> QED
  BY <1>6, <1>7, <1>8

\* Health publishes -1, or the age of the peer that was synced longest ago.
LEMMA OldestHonest ==
  ASSUME PoolInv, Peers # {}
  PROVE  LET never == {url \in Peers : truth[url].at = Never}
         IN  /\ (OldestSyncAge(Now) = -1) = (never # {})
             /\ never = {} =>
                  \A url \in Peers : OldestSyncAge(Now) + back >= elapsed - truth[url].at
<1> DEFINE never == {url \in Peers : truth[url].at = Never}
           T == {Age(url, Now) : url \in Peers}
           oldest == OldestSyncAge(Now)
<1>1. CASE never # {}
  <2>1. \E i \in Visited : ~Synced(Targets[i])
    BY <1>1, LoopEnds
  <2>2. oldest = -1
    BY <2>1 DEF OldestSyncAge
  <2> QED
    BY <1>1, <2>2
<1>2. CASE never = {}
  <2>0. \A url \in Peers : truth[url].at # Never
    BY <1>2
  <2>1. ~\E i \in Visited : ~Synced(Targets[i])
    BY <2>0, LoopEnds
  <2>2. oldest = CHOOSE age \in T : \A other \in Peers : Age(other, Now) <= age
    BY <2>1 DEF OldestSyncAge
  <2>3. \A url \in Peers : /\ Now \in Nat /\ Age(url, Now) \in Nat /\ Age(url, Now) <= Now
                            /\ Age(url, Now) + back >= elapsed - truth[url].at
    BY <2>0, AgeHonest
  <2>4. \E age \in T : \A other \in Peers : Age(other, Now) <= age
    <3>1. T \subseteq Nat /\ T # {} /\ Now \in Nat /\ \A y \in T : y <= Now
      BY <2>3
    <3>2. \A url \in Peers : Age(url, Now) \in T
      OBVIOUS
    <3> HIDE DEF T
    <3>3. Max(T) \in T /\ \A y \in T : y <= Max(T)
      BY <3>1, GreatestNumber
    <3> QED
      BY <3>2, <3>3
  <2>5. oldest \in T /\ \A other \in Peers : Age(other, Now) <= oldest
    <3> HIDE DEF T, oldest
    <3> QED
      BY <2>2, <2>4
  <2>6. oldest \in Nat
    BY <2>3, <2>5
  <2>7. back \in Int /\ elapsed \in Int /\ \A url \in Peers : truth[url].at \in Int
    <3>1. MaxBack \in Nat
      BY PeerPoolConstants
    <3> QED
      BY <3>1 DEF PoolInv
  <2> HIDE DEF oldest, T
  <2>8. \A url \in Peers : oldest + back >= elapsed - truth[url].at
    <3> SUFFICES ASSUME NEW url \in Peers
                 PROVE  oldest + back >= elapsed - truth[url].at
      OBVIOUS
    <3> DEFINE age == Age(url, Now)
               at == truth[url].at
    <3>1. age \in Nat /\ age + back >= elapsed - at /\ age <= oldest /\ at \in Int
      BY <2>3, <2>5, <2>7
    <3> HIDE DEF age, at
    <3>2. oldest + back >= elapsed - at
      BY <2>6, <2>7, <3>1
    <3> QED
      BY <3>2 DEF at
  <2>9. oldest # -1
    BY <2>6
  <2> QED
    BY <1>2, <2>8, <2>9 DEF oldest
<1> QED
  BY <1>1, <1>2

(***************************************************************************)
(* What Health publishes never flatters the pool, for any configured list  *)
(* of peers, in every order of pulls, outages and clock changes.           *)
(***************************************************************************)
THEOREM HealthIsHonest == PoolSpec => []HealthHonest
<1>1. PoolInv => HealthHonest
  <2> SUFFICES ASSUME PoolInv, Peers # {}
               PROVE  HealthHonest
    BY DEF HealthHonest
  <2> DEFINE never == {url \in Peers : truth[url].at = Never}
  <2>1. /\ (OldestSyncAge(Now) = -1) = (never # {})
        /\ never = {} =>
             \A url \in Peers : OldestSyncAge(Now) + back >= elapsed - truth[url].at
    BY OldestHonest
  <2>2. never = {} => \A url \in Peers : truth[url].at # Never
    OBVIOUS
  <2>3. LET answered == {url \in Peers : truth[url].good}
        IN  /\ Reachable <= Cardinality(answered)
            /\ never = {} => Reachable = Cardinality(answered)
    BY <2>2, ReachableHonest
  <2> QED
    BY <2>1, <2>3 DEF HealthHonest
<1> QED
  BY <1>1, PoolInvariance, PTL
=============================================================================
