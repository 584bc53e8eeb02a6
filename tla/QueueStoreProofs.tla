-------------------------- MODULE QueueStoreProofs --------------------------
(***************************************************************************)
(* Theorems about the queue of one relay, for every value of the constants *)
(* of QueueStore.  All of the store is changed through four helpers:       *)
(* insertAck, addMessageLocked, deleteMessages and deleteAcks, and through *)
(* the tombstone map.  So each part of an invariant is shown to survive    *)
(* each helper; an operation is then a chain of helpers.                   *)
(*                                                                         *)
(* First part: types, arrival numbers, deletion indexes and tombstones.    *)
(* Second part: counters and tag bindings are exact, and what is checked   *)
(* against them therefore holds: quotas, caps, windows, who may delete a   *)
(* message, and the room for the node's own acks.                          *)
(* Third part: what a single step does: arrival numbers and bindings are   *)
(* stable, a purge is complete, and every step is a step of Mailbox.       *)
(***************************************************************************)
EXTENDS QueueMailbox, FiniteSetTheorems, TLAPS

-----------------------------------------------------------------------------
\* map[k] = v keeps a map a map from K to V.
LEMMA PutMap ==
  ASSUME NEW K, NEW V, NEW map, IsMap(map, K, V), NEW k \in K, NEW v \in V
  PROVE  IsMap(Put(map, k, v), K, V)
BY DEF IsMap, Put

\* delete keeps a map a map from K to V.
LEMMA WithoutMap ==
  ASSUME NEW K, NEW V, NEW map, IsMap(map, K, V), NEW keys
  PROVE  IsMap(Without(map, keys), K, V)
BY DEF IsMap, Without

(***************************************************************************)
(* The four helpers as relations between the fields of the store before    *)
(* (s) and after (n).                                                      *)
(***************************************************************************)
InsertedAck(n, s, a, expiresAt, tag) ==
  /\ n = [f \in Fields |-> n[f]]
  /\ n.messages = s.messages /\ n.stamps = s.stamps
  /\ n.acks = Put(s.acks, a, [expiresAt |-> expiresAt, tag |-> tag])
  /\ n.purges = s.purges
  /\ n.pairCounts = s.pairCounts
  /\ n.credentialCounts = s.credentialCounts
  /\ n.messageCredential = s.messageCredential
  /\ n.seq = s.seq + 1
  /\ n.messageSeq = s.messageSeq
  /\ n.ackSeq = Put(s.ackSeq, a, s.seq + 1)
  /\ n.messageTags = bindMessageTag(s.messageTags, ackKey(a), tag)
  /\ n.messagesByPurge = s.messagesByPurge
  /\ n.acksByMessage = indexAdd(s.acksByMessage, ackKey(a), a)

AddedMessage(n, s, m, tag, expiresAt, c) ==
  /\ n = [f \in Fields |-> n[f]]
  /\ n.messages = Put(s.messages, m, expiresAt)
  /\ n.stamps = Put(s.stamps, m, tag)
  /\ n.acks = s.acks
  /\ n.purges = s.purges
  /\ n.pairCounts = Put(s.pairCounts, pairKey(m), Count(s.pairCounts, pairKey(m)) + 1)
  /\ n.credentialCounts = IF c = NoCredential THEN s.credentialCounts
       ELSE Put(s.credentialCounts, c, Count(s.credentialCounts, c) + 1)
  /\ n.messageCredential = IF c = NoCredential THEN s.messageCredential
       ELSE Put(s.messageCredential, m, c)
  /\ n.seq = s.seq + 1
  /\ n.messageSeq = Put(s.messageSeq, m, s.seq + 1)
  /\ n.ackSeq = s.ackSeq
  /\ n.messageTags = bindMessageTag(s.messageTags, m, tag)
  /\ n.messagesByPurge = indexAdd(s.messagesByPurge, purgeKey(m), m)
  /\ n.acksByMessage = s.acksByMessage

DeletedMessages(n, s, gone) ==
  LET charged == gone \cap DOMAIN s.messageCredential
      released == [m \in DOMAIN s.messageTags |-> IF m \in gone THEN 1 ELSE 0]
      owned == [h \in DOMAIN s.messagesByPurge |-> {m \in gone : purgeKey(m) = h}]
      inLane == [k \in DOMAIN s.pairCounts |-> Cardinality({m \in gone : pairKey(m) = k})]
      chargedTo == [c \in DOMAIN s.credentialCounts |->
                      Cardinality({m \in charged : s.messageCredential[m] = c})]
  IN  /\ n = [f \in Fields |-> n[f]]
      /\ n.messages = Without(s.messages, gone)
      /\ n.stamps = Without(s.stamps, gone)
      /\ n.acks = s.acks
      /\ n.purges = s.purges
      /\ n.pairCounts = Discount(s.pairCounts, inLane)
      /\ n.credentialCounts = Discount(s.credentialCounts, chargedTo)
      /\ n.messageCredential = Without(s.messageCredential, charged)
      /\ n.seq = s.seq
      /\ n.messageSeq = Without(s.messageSeq, gone)
      /\ n.ackSeq = s.ackSeq
      /\ n.messageTags = releaseMessageTags(s.messageTags, released)
      /\ n.messagesByPurge = indexRemove(s.messagesByPurge, owned)
      /\ n.acksByMessage = s.acksByMessage

DeletedAcks(n, s, gone) ==
  LET naming(m) == {a \in gone : ackKey(a) = m}
      released == [m \in DOMAIN s.messageTags |-> Cardinality(naming(m))]
      dropped == [m \in DOMAIN s.acksByMessage |-> naming(m)]
  IN  /\ n = [f \in Fields |-> n[f]]
      /\ n.messages = s.messages /\ n.stamps = s.stamps
      /\ n.acks = Without(s.acks, gone)
      /\ n.purges = s.purges
      /\ n.pairCounts = s.pairCounts
      /\ n.credentialCounts = s.credentialCounts
      /\ n.messageCredential = s.messageCredential
      /\ n.seq = s.seq
      /\ n.messageSeq = s.messageSeq
      /\ n.ackSeq = Without(s.ackSeq, gone)
      /\ n.messageTags = releaseMessageTags(s.messageTags, released)
      /\ n.messagesByPurge = s.messagesByPurge
      /\ n.acksByMessage = indexRemove(s.acksByMessage, dropped)

NewPurges(n, s, purges) ==
  /\ n = [f \in Fields |-> n[f]]
  /\ \A f \in Fields \ {"purges"} : n[f] = s[f]
  /\ n.purges = purges

\* What insertAck writes, field by field.
LEMMA InsertAckFields ==
  ASSUME NEW s, IsStore(s), NEW a, NEW expiresAt, NEW tag
  PROVE  InsertedAck(insertAck(s, a, expiresAt, tag), s, a, expiresAt, tag)
BY DEF IsStore, Fields, insertAck, InsertedAck

\* What addMessageLocked writes, field by field.
LEMMA AddMessageFields ==
  ASSUME NEW s, IsStore(s), NEW m, NEW tag, NEW expiresAt, NEW c
  PROVE  AddedMessage(addMessageLocked(s, m, tag, expiresAt, c), s, m, tag, expiresAt, c)
BY DEF IsStore, Fields, addMessageLocked, AddedMessage

\* What the deletion of messages writes, field by field.
LEMMA DeleteMessagesFields ==
  ASSUME NEW s, IsStore(s), NEW ids
  PROVE  DeletedMessages(deleteMessages(s, ids), s, ids \cap DOMAIN s.messages)
BY DEF IsStore, Fields, deleteMessages, DeletedMessages

\* What the deletion of acks writes, field by field.
LEMMA DeleteAcksFields ==
  ASSUME NEW s, IsStore(s), NEW ids
  PROVE  DeletedAcks(deleteAcks(s, ids), s, ids \cap DOMAIN s.acks)
BY DEF IsStore, Fields, deleteAcks, DeletedAcks

\* A new tombstone map leaves every other field alone.
LEMMA PurgesFields ==
  ASSUME NEW s, IsStore(s), NEW purges
  PROVE  NewPurges([s EXCEPT !.purges = purges], s, purges)
BY DEF IsStore, Fields, NewPurges

-----------------------------------------------------------------------------
\* bindMessageTagLocked keeps the bindings well typed.
LEMMA BindMap ==
  ASSUME NEW tags, IsMap(tags, MessageIDs, [tag : Tags \cup {None}, records : Nat]),
         NEW m \in MessageIDs, NEW tag \in Tags \cup {None}
  PROVE  IsMap(bindMessageTag(tags, m, tag), MessageIDs,
               [tag : Tags \cup {None}, records : Nat])
<1> DEFINE old == IF m \in DOMAIN tags THEN tags[m] ELSE [tag |-> None, records |-> 0]
           new == [tag |-> IF old.tag = None THEN tag ELSE old.tag,
                   records |-> old.records + 1]
<1>1. old \in [tag : Tags \cup {None}, records : Nat]
  BY DEF IsMap
<1>2. new \in [tag : Tags \cup {None}, records : Nat]
  BY <1>1
<1> HIDE DEF new
<1>3. IsMap(Put(tags, m, new), MessageIDs, [tag : Tags \cup {None}, records : Nat])
  BY <1>2, PutMap
<1> QED
  BY <1>3 DEF bindMessageTag, new

\* releaseMessageTagLocked keeps the bindings well typed.
LEMMA ReleaseMap ==
  ASSUME NEW tags, IsMap(tags, MessageIDs, [tag : Tags \cup {None}, records : Nat]),
         NEW dropped \in [DOMAIN tags -> Nat]
  PROVE  IsMap(releaseMessageTags(tags, dropped), MessageIDs,
               [tag : Tags \cup {None}, records : Nat])
BY DEF IsMap, releaseMessageTags

\* Decrementing counters keeps them natural numbers.
LEMMA DiscountMap ==
  ASSUME NEW K, NEW map, IsMap(map, K, Nat), NEW dropped \in [DOMAIN map -> Nat]
  PROVE  IsMap(Discount(map, dropped), K, Nat)
BY DEF IsMap, Discount

\* indexAddLocked keeps an index a map to sets of ids.
LEMMA IndexAddMap ==
  ASSUME NEW K, NEW I, NEW index, IsMap(index, K, SUBSET I),
         NEW key \in K \cup {None}, NEW id \in I
  PROVE  IsMap(indexAdd(index, key, id), K, SUBSET I)
<1> DEFINE ids == (IF key \in DOMAIN index THEN index[key] ELSE {}) \cup {id}
<1>1. ids \in SUBSET I
  BY DEF IsMap
<1> HIDE DEF ids
<1>2. CASE key = None
  BY <1>2 DEF indexAdd
<1>3. CASE key # None
  <2>1. IsMap(Put(index, key, ids), K, SUBSET I)
    BY <1>1, <1>3, PutMap
  <2> QED
    BY <1>3, <2>1 DEF indexAdd, ids
<1> QED
  BY <1>2, <1>3

\* indexRemoveLocked keeps an index a map to sets of ids.
LEMMA IndexRemoveMap ==
  ASSUME NEW K, NEW I, NEW index, IsMap(index, K, SUBSET I), NEW dropped
  PROVE  IsMap(indexRemove(index, dropped), K, SUBSET I)
BY DEF IsMap, indexRemove

\* The maps of a store are finite: its ids are.
LEMMA FiniteParts ==
  /\ \A S \in SUBSET MessageIDs : IsFiniteSet(S) /\ Cardinality(S) \in Nat
  /\ \A S \in SUBSET AckIDs : IsFiniteSet(S) /\ Cardinality(S) \in Nat
BY QueueConstants, FS_Subset, FS_CardinalityType

\* What an envelope, an ack and a coupled ack are made of.
LEMMA Bodies ==
  /\ \A m \in MessageIDs : /\ purgeKey(m) \in PurgeHashes \cup {None}
                           /\ pairKey(m) \in Lanes
                           /\ NodeReceived[m] \in AckIDs
                           /\ ackKey(NodeReceived[m]) = m
  /\ \A a \in AckIDs : ackKey(a) \in MessageIDs
<1>1. ASSUME NEW m \in MessageIDs
      PROVE  /\ purgeKey(m) \in PurgeHashes \cup {None}
             /\ pairKey(m) \in Lanes
  <2>1. EnvelopeOf[m] \in Envelopes
    BY QueueConstants
  <2> QED
    BY <2>1 DEF Envelopes, purgeKey, pairKey, Lanes
<1>2. ASSUME NEW m \in MessageIDs
      PROVE  NodeReceived[m] \in AckIDs /\ ackKey(NodeReceived[m]) = m
  <2>1. /\ NodeReceived[m] \in AckIDs
        /\ AckOf[NodeReceived[m]] = [messageID |-> m, type |-> "node_received"]
    BY QueueConstants
  <2> QED
    BY <2>1 DEF ackKey
<1>3. ASSUME NEW a \in AckIDs
      PROVE  ackKey(a) \in MessageIDs
  <2>1. AckOf[a] \in AckBodies
    BY QueueConstants
  <2> QED
    BY <2>1 DEF AckBodies, ackKey
<1> QED
  BY <1>1, <1>2, <1>3

\* The empty store is well typed.
LEMMA NewStoreType == IsStore(NewStore)
<1>1. NewStore = [f \in Fields |-> NewStore[f]]
  BY DEF NewStore, Fields
<1> QED
  BY <1>1 DEF IsStore, NewStore, EmptyMap, IsMap

\* Inserting an ack keeps the store well typed.
LEMMA InsertAckType ==
  ASSUME NEW s, IsStore(s), NEW a \in AckIDs, NEW expiresAt \in Nat,
         NEW tag \in Tags \cup {None}
  PROVE  IsStore(insertAck(s, a, expiresAt, tag))
<1> DEFINE n == insertAck(s, a, expiresAt, tag)
           v == [expiresAt |-> expiresAt, tag |-> tag]
           V == [expiresAt : Nat, tag : Tags \cup {None}]
<1>0. InsertedAck(n, s, a, expiresAt, tag)
  BY InsertAckFields
<1> HIDE DEF n
<1>1. IsMap(n.acks, AckIDs, V)
  <2>1. v \in V
    OBVIOUS
  <2>2. IsMap(s.acks, AckIDs, V) /\ n.acks = Put(s.acks, a, v)
    BY <1>0 DEF IsStore, InsertedAck
  <2> HIDE DEF v, V
  <2> QED
    BY <2>1, <2>2, PutMap
<1>2. n.seq \in Nat /\ IsMap(n.ackSeq, AckIDs, Nat)
  <2>1. s.seq + 1 \in Nat /\ n.seq = s.seq + 1
    BY <1>0 DEF IsStore, InsertedAck
  <2>2. IsMap(s.ackSeq, AckIDs, Nat) /\ n.ackSeq = Put(s.ackSeq, a, s.seq + 1)
    BY <1>0 DEF IsStore, InsertedAck
  <2> QED
    BY <2>1, <2>2, PutMap
<1>3. IsMap(n.messageTags, MessageIDs, [tag : Tags \cup {None}, records : Nat])
  <2>1. /\ IsMap(s.messageTags, MessageIDs, [tag : Tags \cup {None}, records : Nat])
        /\ n.messageTags = bindMessageTag(s.messageTags, ackKey(a), tag)
    BY <1>0 DEF IsStore, InsertedAck
  <2> QED
    BY <2>1, BindMap, Bodies
<1>4. IsMap(n.acksByMessage, MessageIDs, SUBSET AckIDs)
  <2>1. /\ IsMap(s.acksByMessage, MessageIDs, SUBSET AckIDs)
        /\ n.acksByMessage = indexAdd(s.acksByMessage, ackKey(a), a)
    BY <1>0 DEF IsStore, InsertedAck
  <2> QED
    BY <2>1, IndexAddMap, Bodies
<1>5. IsStore(n)
  BY <1>0, <1>1, <1>2, <1>3, <1>4 DEF IsStore, InsertedAck
<1> QED
  BY <1>5 DEF n

\* Queuing a message keeps the store well typed.
LEMMA AddMessageType ==
  ASSUME NEW s, IsStore(s), NEW m \in MessageIDs, NEW tag \in Tags \cup {None},
         NEW expiresAt \in Nat, NEW c \in Callers
  PROVE  IsStore(addMessageLocked(s, m, tag, expiresAt, c))
<1> DEFINE n == addMessageLocked(s, m, tag, expiresAt, c)
<1>0. AddedMessage(n, s, m, tag, expiresAt, c)
  BY AddMessageFields
<1> HIDE DEF n
<1>1. IsMap(n.messages, MessageIDs, Nat)
  <2>1. IsMap(s.messages, MessageIDs, Nat) /\ n.messages = Put(s.messages, m, expiresAt)
    BY <1>0 DEF IsStore, AddedMessage
  <2> QED
    BY <2>1, PutMap
<1>b. IsMap(n.stamps, MessageIDs, Tags \cup {None}) /\ DOMAIN n.stamps = DOMAIN n.messages
  <2>1. /\ IsMap(s.stamps, MessageIDs, Tags \cup {None})
        /\ DOMAIN s.stamps = DOMAIN s.messages
        /\ n.stamps = Put(s.stamps, m, tag) /\ n.messages = Put(s.messages, m, expiresAt)
    BY <1>0 DEF IsStore, AddedMessage
  <2>2. DOMAIN n.stamps = DOMAIN n.messages
    BY <2>1 DEF Put
  <2> QED
    BY <2>1, <2>2, PutMap
<1>2. n.seq \in Nat /\ IsMap(n.messageSeq, MessageIDs, Nat)
  <2>1. s.seq + 1 \in Nat /\ n.seq = s.seq + 1
    BY <1>0 DEF IsStore, AddedMessage
  <2>2. IsMap(s.messageSeq, MessageIDs, Nat) /\ n.messageSeq = Put(s.messageSeq, m, s.seq + 1)
    BY <1>0 DEF IsStore, AddedMessage
  <2> QED
    BY <2>1, <2>2, PutMap
<1>3. IsMap(n.pairCounts, Lanes, Nat)
  <2>1. IsMap(s.pairCounts, Lanes, Nat)
    BY DEF IsStore
  <2>2. Count(s.pairCounts, pairKey(m)) + 1 \in Nat
    BY <2>1 DEF Count, IsMap
  <2>3. n.pairCounts = Put(s.pairCounts, pairKey(m), Count(s.pairCounts, pairKey(m)) + 1)
    BY <1>0 DEF AddedMessage
  <2> QED
    BY <2>1, <2>2, <2>3, PutMap, Bodies
<1>4. /\ IsMap(n.credentialCounts, Credentials, Nat)
      /\ IsMap(n.messageCredential, MessageIDs, Credentials)
  <2>1. /\ IsMap(s.credentialCounts, Credentials, Nat)
        /\ IsMap(s.messageCredential, MessageIDs, Credentials)
    BY DEF IsStore
  <2>2. CASE c = NoCredential
    BY <1>0, <2>1, <2>2 DEF AddedMessage
  <2>3. CASE c # NoCredential
    <3>1. c \in Credentials
      BY <2>3 DEF Callers
    <3>2. Count(s.credentialCounts, c) + 1 \in Nat
      BY <2>1 DEF Count, IsMap
    <3>3. /\ n.credentialCounts = Put(s.credentialCounts, c, Count(s.credentialCounts, c) + 1)
          /\ n.messageCredential = Put(s.messageCredential, m, c)
      BY <1>0, <2>3 DEF AddedMessage
    <3> QED
      BY <2>1, <3>1, <3>2, <3>3, PutMap
  <2> QED
    BY <2>2, <2>3
<1>5. IsMap(n.messageTags, MessageIDs, [tag : Tags \cup {None}, records : Nat])
  <2>1. /\ IsMap(s.messageTags, MessageIDs, [tag : Tags \cup {None}, records : Nat])
        /\ n.messageTags = bindMessageTag(s.messageTags, m, tag)
    BY <1>0 DEF IsStore, AddedMessage
  <2> QED
    BY <2>1, BindMap, Bodies
<1>6. IsMap(n.messagesByPurge, PurgeHashes, SUBSET MessageIDs)
  <2>1. /\ IsMap(s.messagesByPurge, PurgeHashes, SUBSET MessageIDs)
        /\ n.messagesByPurge = indexAdd(s.messagesByPurge, purgeKey(m), m)
    BY <1>0 DEF IsStore, AddedMessage
  <2> QED
    BY <2>1, IndexAddMap, Bodies
<1>7. IsStore(n)
  BY <1>0, <1>1, <1>b, <1>2, <1>3, <1>4, <1>5, <1>6 DEF IsStore, AddedMessage
<1> QED
  BY <1>7 DEF n

\* Deleting messages keeps the store well typed.
LEMMA DeleteMessagesType ==
  ASSUME NEW s, IsStore(s), NEW ids
  PROVE  IsStore(deleteMessages(s, ids))
<1> DEFINE n == deleteMessages(s, ids)
           gone == ids \cap DOMAIN s.messages
           charged == gone \cap DOMAIN s.messageCredential
           released == [m \in DOMAIN s.messageTags |-> IF m \in gone THEN 1 ELSE 0]
           owned == [h \in DOMAIN s.messagesByPurge |-> {m \in gone : purgeKey(m) = h}]
           inLane == [k \in DOMAIN s.pairCounts |-> Cardinality({m \in gone : pairKey(m) = k})]
           chargedTo == [c \in DOMAIN s.credentialCounts |->
                           Cardinality({m \in charged : s.messageCredential[m] = c})]
<1>0. DeletedMessages(n, s, gone)
  BY DeleteMessagesFields
<1> HIDE DEF n
<1>a. /\ n.pairCounts = Discount(s.pairCounts, inLane)
      /\ n.credentialCounts = Discount(s.credentialCounts, chargedTo)
      /\ n.messageTags = releaseMessageTags(s.messageTags, released)
      /\ n.messagesByPurge = indexRemove(s.messagesByPurge, owned)
  BY <1>0 DEF DeletedMessages
<1>1. gone \subseteq MessageIDs /\ charged \subseteq MessageIDs
  BY DEF IsStore, IsMap
<1>2. /\ IsMap(n.messages, MessageIDs, Nat)
      /\ IsMap(n.messageSeq, MessageIDs, Nat)
      /\ IsMap(n.messageCredential, MessageIDs, Credentials)
  <2>1. /\ IsMap(s.messages, MessageIDs, Nat) /\ n.messages = Without(s.messages, gone)
        /\ IsMap(s.messageSeq, MessageIDs, Nat) /\ n.messageSeq = Without(s.messageSeq, gone)
        /\ IsMap(s.messageCredential, MessageIDs, Credentials)
        /\ n.messageCredential = Without(s.messageCredential, charged)
    BY <1>0 DEF IsStore, DeletedMessages
  <2> QED
    BY <2>1, WithoutMap
<1>b. IsMap(n.stamps, MessageIDs, Tags \cup {None}) /\ DOMAIN n.stamps = DOMAIN n.messages
  <2>1. /\ IsMap(s.stamps, MessageIDs, Tags \cup {None})
        /\ DOMAIN s.stamps = DOMAIN s.messages
        /\ n.stamps = Without(s.stamps, gone) /\ n.messages = Without(s.messages, gone)
    BY <1>0 DEF IsStore, DeletedMessages
  <2>2. DOMAIN n.stamps = DOMAIN n.messages
    BY <2>1 DEF Without
  <2> QED
    BY <2>1, <2>2, WithoutMap
<1>3. /\ inLane \in [DOMAIN s.pairCounts -> Nat]
      /\ chargedTo \in [DOMAIN s.credentialCounts -> Nat]
      /\ released \in [DOMAIN s.messageTags -> Nat]
  <2>1. \A k : Cardinality({m \in gone : pairKey(m) = k}) \in Nat
    <3> TAKE k
    <3>1. {m \in gone : pairKey(m) = k} \in SUBSET MessageIDs
      BY <1>1
    <3> QED
      BY <3>1, FiniteParts
  <2>2. \A c : Cardinality({m \in charged : s.messageCredential[m] = c}) \in Nat
    <3> TAKE c
    <3>1. {m \in charged : s.messageCredential[m] = c} \in SUBSET MessageIDs
      BY <1>1
    <3> QED
      BY <3>1, FiniteParts
  <2> QED
    BY <2>1, <2>2
<1> HIDE DEF inLane, chargedTo, released, owned
<1>4. /\ IsMap(n.pairCounts, Lanes, Nat)
      /\ IsMap(n.credentialCounts, Credentials, Nat)
  <2>1. IsMap(s.pairCounts, Lanes, Nat) /\ IsMap(s.credentialCounts, Credentials, Nat)
    BY DEF IsStore
  <2> QED
    BY <1>a, <1>3, <2>1, DiscountMap
<1>5. IsMap(n.messageTags, MessageIDs, [tag : Tags \cup {None}, records : Nat])
  <2>1. IsMap(s.messageTags, MessageIDs, [tag : Tags \cup {None}, records : Nat])
    BY DEF IsStore
  <2> QED
    BY <1>a, <1>3, <2>1, ReleaseMap
<1>6. IsMap(n.messagesByPurge, PurgeHashes, SUBSET MessageIDs)
  <2>1. IsMap(s.messagesByPurge, PurgeHashes, SUBSET MessageIDs)
    BY DEF IsStore
  <2> QED
    BY <1>a, <2>1, IndexRemoveMap
<1>7. IsStore(n)
  BY <1>0, <1>2, <1>b, <1>4, <1>5, <1>6 DEF IsStore, DeletedMessages
<1> QED
  BY <1>7 DEF n

\* Deleting acks keeps the store well typed.
LEMMA DeleteAcksType ==
  ASSUME NEW s, IsStore(s), NEW ids
  PROVE  IsStore(deleteAcks(s, ids))
<1> DEFINE n == deleteAcks(s, ids)
           gone == ids \cap DOMAIN s.acks
           naming(m) == {a \in gone : ackKey(a) = m}
           released == [m \in DOMAIN s.messageTags |-> Cardinality(naming(m))]
           dropped == [m \in DOMAIN s.acksByMessage |-> naming(m)]
<1>0. DeletedAcks(n, s, gone)
  BY DeleteAcksFields
<1> HIDE DEF n
<1>a. /\ n.messageTags = releaseMessageTags(s.messageTags, released)
      /\ n.acksByMessage = indexRemove(s.acksByMessage, dropped)
  BY <1>0 DEF DeletedAcks
<1>1. gone \subseteq AckIDs
  BY DEF IsStore, IsMap
<1>2. /\ IsMap(n.acks, AckIDs, [expiresAt : Nat, tag : Tags \cup {None}])
      /\ IsMap(n.ackSeq, AckIDs, Nat)
  <2>1. /\ IsMap(s.acks, AckIDs, [expiresAt : Nat, tag : Tags \cup {None}])
        /\ n.acks = Without(s.acks, gone)
        /\ IsMap(s.ackSeq, AckIDs, Nat) /\ n.ackSeq = Without(s.ackSeq, gone)
    BY <1>0 DEF IsStore, DeletedAcks
  <2> QED
    BY <2>1, WithoutMap
<1>3. released \in [DOMAIN s.messageTags -> Nat]
  <2>1. \A m : Cardinality(naming(m)) \in Nat
    <3> TAKE m
    <3>1. naming(m) \in SUBSET AckIDs
      BY <1>1
    <3> QED
      BY <3>1, FiniteParts
  <2> QED
    BY <2>1
<1> HIDE DEF released, dropped
<1>4. IsMap(n.messageTags, MessageIDs, [tag : Tags \cup {None}, records : Nat])
  <2>1. IsMap(s.messageTags, MessageIDs, [tag : Tags \cup {None}, records : Nat])
    BY DEF IsStore
  <2> QED
    BY <1>a, <1>3, <2>1, ReleaseMap
<1>5. IsMap(n.acksByMessage, MessageIDs, SUBSET AckIDs)
  <2>1. IsMap(s.acksByMessage, MessageIDs, SUBSET AckIDs)
    BY DEF IsStore
  <2> QED
    BY <1>a, <2>1, IndexRemoveMap
<1>6. IsStore(n)
  BY <1>0, <1>2, <1>4, <1>5 DEF IsStore, DeletedAcks
<1> QED
  BY <1>6 DEF n

\* A new tombstone map keeps the store well typed.
LEMMA PurgesType ==
  ASSUME NEW s, IsStore(s), NEW purges, IsMap(purges, PurgeHashes, Nat)
  PROVE  IsStore([s EXCEPT !.purges = purges])
<1> DEFINE n == [s EXCEPT !.purges = purges]
<1>1. NewPurges(n, s, purges)
  BY PurgesFields
<1> HIDE DEF n
<1>2. IsStore(n)
  BY <1>1 DEF IsStore, NewPurges, Fields
<1> QED
  BY <1>2 DEF n

-----------------------------------------------------------------------------
(***************************************************************************)
(* What an operation may do to the store, in terms of the helpers.         *)
(***************************************************************************)
\* The expiry is a time, and lies within the ceiling from now.
LEMMA ClampExpiry ==
  ASSUME NEW requested \in Nat, NEW ceiling \in Nat, NEW t \in Nat
  PROVE  /\ clampExpiry(requested, ceiling, t) \in Nat
         /\ clampExpiry(requested, ceiling, t) <= t + ceiling
BY QueueConstants DEF clampExpiry

\* A credential's term never raises the cap of the box.
LEMMA LowerOf ==
  ASSUME NEW box \in Nat, NEW credential \in Nat
  PROVE  lowerOf(box, credential) \in Nat /\ lowerOf(box, credential) <= box
BY DEF lowerOf

\* The terms of a caller are natural numbers.
LEMMA TermsType ==
  ASSUME NEW c \in Callers
  PROVE  /\ TermsOf[c].slots \in Nat
         /\ TermsOf[c].maxPerPair \in Nat
         /\ TermsOf[c].retention \in Nat
<1>1. TermsOf[c] \in Terms
  BY QueueConstants DEF Callers
<1> QED
  BY <1>1 DEF Terms

\* What POST /messages leaves when it admits: the coupled ack, then the message.
Posted(n, s, m, tag, e, c, t) ==
  /\ e <= t + lowerOf(MaxTTL, TermsOf[c].retention)
  /\ addMessageError(s, m, e, c, t) = "ok"
  /\ NodeReceived[m] \notin DOMAIN s.acks
  /\ ~(Cardinality(DOMAIN s.acks) >= maxAcks)
  /\ n = addMessageLocked(insertAck(s, NodeReceived[m], e, tag), m, tag, e, c)

\* POST /messages refuses, or couples an ack and queues the message.
LEMMA AddMessageCases ==
  ASSUME NEW s, NEW m \in MessageIDs, NEW tag, NEW requested \in Nat, NEW c \in Callers,
         NEW t \in Nat
  PROVE  LET n == AddMessageWithGrant(s, m, tag, requested, c, t).store
         IN  n = s \/ \E e \in Nat : Posted(n, s, m, tag, e, c, t)
<1> DEFINE ceiling == lowerOf(MaxTTL, TermsOf[c].retention)
           e == clampExpiry(requested, ceiling, t)
           error == addMessageError(s, m, e, c, t)
           coupled == addAckLocked(s, NodeReceived[m], e, tag, t)
           n == AddMessageWithGrant(s, m, tag, requested, c, t).store
<1>1. ceiling \in Nat
  BY TermsType, LowerOf, QueueConstants
<1> HIDE DEF ceiling
<1>2. e \in Nat /\ e <= t + ceiling
  BY <1>1, ClampExpiry
<1> HIDE DEF e
<1>3. n = IF error # "ok" THEN s
          ELSE IF coupled.err # "ok" THEN s
          ELSE addMessageLocked(coupled.store, m, tag, e, c)
  BY DEF AddMessageWithGrant, Refused, Accepted, e, ceiling
<1>4. CASE error = "ok" /\ coupled.err = "ok"
  <2>1. /\ NodeReceived[m] \notin DOMAIN s.acks
        /\ ~(Cardinality(DOMAIN s.acks) >= maxAcks)
        /\ coupled.store = insertAck(s, NodeReceived[m], e, tag)
    BY <1>4 DEF addAckLocked, addAckWithin, Refused, Accepted
  <2> QED
    BY <1>2, <1>3, <1>4, <2>1 DEF ceiling, Posted
<1>5. CASE ~(error = "ok" /\ coupled.err = "ok")
  BY <1>3, <1>5
<1> QED
  BY <1>4, <1>5

(***************************************************************************)
(* An ack from outside is inserted with some tag, and deletes its message  *)
(* if it is of a type that does.                                           *)
(***************************************************************************)
ExternalAck(n, s, a, e, tag) ==
  /\ e \in Nat
  /\ a \notin DOMAIN s.acks
  /\ ~(Cardinality(DOMAIN s.acks) >= externalAckCapacity)
  /\ \/ ~deletesQueuedMessage(AckOf[a].type) /\ n = insertAck(s, a, e, tag)
     \/ /\ deletesQueuedMessage(AckOf[a].type)
        /\ n = deleteMessages(insertAck(s, a, e, tag), {ackKey(a)})

\* POST /acks refuses, or takes an ack in under the bound tag.
LEMMA AddAckCases ==
  ASSUME NEW s, NEW a \in AckIDs, NEW requested \in Nat, NEW c \in Callers,
         NEW proof, NEW untagged, NEW t \in Nat
  PROVE  LET n == AddAckWithGrant(s, a, requested, c, proof, untagged, t).store
         IN  \/ n = s
             \/ \E e \in Nat :
                  /\ e <= t + MaxTTL
                  /\ ExternalAck(n, s, a, e, BoundTo(s, ackKey(a)))
                  /\ ackKey(a) \in DOMAIN s.messageTags
                       => permits(proof, untagged, s.messageTags[ackKey(a)].tag)
<1> DEFINE ceiling == lowerOf(MaxTTL, TermsOf[c].retention)
           e == clampExpiry(requested, ceiling, t)
           m == ackKey(a)
           tag == BoundTo(s, m)
           added == addExternalAckLocked(s, a, e, tag, t)
           n == AddAckWithGrant(s, a, requested, c, proof, untagged, t).store
<1>1. ceiling \in Nat /\ ceiling <= MaxTTL
  BY TermsType, LowerOf, QueueConstants
<1> HIDE DEF ceiling
<1>2. e \in Nat /\ e <= t + MaxTTL
  BY <1>1, ClampExpiry, QueueConstants
<1>3. \/ n = s
      \/ /\ m \in DOMAIN s.messageTags => permits(proof, untagged, tag)
         /\ \/ added.err # "ok" /\ n = added.store
            \/ ~deletesQueuedMessage(AckOf[a].type) /\ n = added.store
            \/ /\ deletesQueuedMessage(AckOf[a].type) /\ added.err = "ok"
               /\ n = deleteMessages(added.store, {m})
  BY DEF AddAckWithGrant, Refused, Accepted, BoundTo, ceiling
<1> HIDE DEF e
<1>4. \/ added.store = s /\ added.err # "ok"
      \/ /\ a \notin DOMAIN s.acks /\ added.err = "ok"
         /\ ~(Cardinality(DOMAIN s.acks) >= externalAckCapacity)
         /\ added.store = insertAck(s, a, e, tag)
  BY DEF addExternalAckLocked, addAckWithin, Refused, Accepted
<1> HIDE DEF n, added
<1>5. \/ n = s
      \/ /\ ExternalAck(n, s, a, e, tag)
         /\ m \in DOMAIN s.messageTags => permits(proof, untagged, tag)
  BY <1>2, <1>3, <1>4 DEF ExternalAck
<1> QED
  BY <1>2, <1>5 DEF n, BoundTo

\* A replicated ack is skipped, or taken in under the tag it carries.
LEMMA ImportAckCases ==
  ASSUME NEW s, NEW a \in AckIDs, NEW requested \in Nat, NEW tag, NEW t \in Nat
  PROVE  LET n == importAck(s, a, requested, tag, t)
         IN  \/ n = s
             \/ \E e \in Nat : e <= t + MaxTTL /\ ExternalAck(n, s, a, e, tag)
<1> DEFINE e == clampExpiry(requested, MaxTTL, t)
           added == addExternalAckLocked(s, a, e, tag, t)
           n == importAck(s, a, requested, tag, t)
<1>1. e \in Nat /\ e <= t + MaxTTL
  BY ClampExpiry, QueueConstants
<1>2. \/ n = s
      \/ /\ ~deletesQueuedMessage(AckOf[a].type) /\ added.err = "ok"
         /\ n = added.store
      \/ /\ deletesQueuedMessage(AckOf[a].type) /\ added.err = "ok"
         /\ n = deleteMessages(added.store, {ackKey(a)})
  BY DEF importAck
<1> HIDE DEF e
<1>3. \/ added.err # "ok"
      \/ /\ a \notin DOMAIN s.acks
         /\ ~(Cardinality(DOMAIN s.acks) >= externalAckCapacity)
         /\ added.store = insertAck(s, a, e, tag)
  BY DEF addExternalAckLocked, addAckWithin, Refused, Accepted
<1> HIDE DEF n, added
<1>4. n = s \/ ExternalAck(n, s, a, e, tag)
  BY <1>1, <1>2, <1>3 DEF ExternalAck
<1> QED
  BY <1>1, <1>4 DEF n

\* A replicated message is skipped, or queued and charged to nobody.
LEMMA ImportMessageCases ==
  ASSUME NEW s, NEW m \in MessageIDs, NEW tag, NEW requested \in Nat, NEW t \in Nat
  PROVE  LET n == importMessage(s, m, tag, requested, t)
         IN  \/ n = s
             \/ \E e \in Nat :
                  /\ e <= t + MaxTTL
                  /\ ~Expired(e, t)
                  /\ m \notin DOMAIN s.messages
                  /\ ~Purged(s, m, t)
                  /\ ~(Cardinality(DOMAIN s.messages) >= MaxMessages)
                  /\ n = addMessageLocked(s, m, tag, e, NoCredential)
<1> DEFINE e == clampExpiry(requested, MaxTTL, t)
<1>1. e \in Nat /\ e <= t + MaxTTL
  BY ClampExpiry, QueueConstants
<1> QED
  BY <1>1 DEF importMessage

-----------------------------------------------------------------------------
(***************************************************************************)
(* The deletion indexes.  Each of the four helpers keeps them exact.       *)
(***************************************************************************)
\* Inserting an ack keeps the deletion indexes exact.
LEMMA InsertAckIndexes ==
  ASSUME NEW s, IsStore(s), IndexesAgreeIn(s), NEW a \in AckIDs, NEW e, NEW tag
  PROVE  IndexesAgreeIn(insertAck(s, a, e, tag))
<1> DEFINE n == insertAck(s, a, e, tag)
<1>0. InsertedAck(n, s, a, e, tag)
  BY InsertAckFields
<1> HIDE DEF n
<1>1. ackKey(a) \in MessageIDs /\ ackKey(a) # None
  BY Bodies, QueueConstants
<1>2. /\ n.messages = s.messages
      /\ n.messagesByPurge = s.messagesByPurge
      /\ DOMAIN n.acks = DOMAIN s.acks \cup {a}
      /\ n.acksByMessage =
           Put(s.acksByMessage, ackKey(a),
               (IF ackKey(a) \in DOMAIN s.acksByMessage
                THEN s.acksByMessage[ackKey(a)] ELSE {}) \cup {a})
  BY <1>0, <1>1 DEF InsertedAck, Put, indexAdd
<1>3. IndexesAgreeIn(n)
  BY <1>1, <1>2 DEF IndexesAgreeIn, Put, Naming, Queued
<1> QED
  BY <1>3 DEF n

\* Queuing a message keeps the deletion indexes exact.
LEMMA AddMessageIndexes ==
  ASSUME NEW s, IsStore(s), IndexesAgreeIn(s), NEW m \in MessageIDs, NEW tag, NEW e, NEW c
  PROVE  IndexesAgreeIn(addMessageLocked(s, m, tag, e, c))
<1> DEFINE n == addMessageLocked(s, m, tag, e, c)
           h == purgeKey(m)
<1>0. AddedMessage(n, s, m, tag, e, c)
  BY AddMessageFields
<1> HIDE DEF n
<1>1. h \in PurgeHashes \cup {None} /\ None \notin PurgeHashes
  BY Bodies, QueueConstants
<1>2. /\ DOMAIN n.messages = DOMAIN s.messages \cup {m}
      /\ n.messagesByPurge = indexAdd(s.messagesByPurge, h, m)
      /\ n.acks = s.acks
      /\ n.acksByMessage = s.acksByMessage
  BY <1>0 DEF AddedMessage, Put
<1>3. ASSUME h = None PROVE IndexesAgreeIn(n)
  <2>1. n.messagesByPurge = s.messagesByPurge
    BY <1>2, <1>3 DEF indexAdd
  <2>2. ASSUME NEW g \in PurgeHashes
        PROVE  {x \in Queued(n) : purgeKey(x) = g} = {x \in Queued(s) : purgeKey(x) = g}
    <3>1. g # purgeKey(m)
      BY <1>1, <1>3
    <3> QED
      BY <1>2, <3>1 DEF Queued
  <2> QED
    BY <1>2, <2>1, <2>2 DEF IndexesAgreeIn, Naming
<1>4. ASSUME h # None PROVE IndexesAgreeIn(n)
  <2>1. n.messagesByPurge =
          Put(s.messagesByPurge, h,
              (IF h \in DOMAIN s.messagesByPurge THEN s.messagesByPurge[h] ELSE {}) \cup {m})
    BY <1>2, <1>4 DEF indexAdd
  <2> QED
    BY <1>1, <1>2, <1>4, <2>1 DEF IndexesAgreeIn, Naming, Queued, Put
<1> QED
  BY <1>3, <1>4 DEF n

\* Deleting messages keeps the deletion indexes exact.
LEMMA DeleteMessagesIndexes ==
  ASSUME NEW s, IsStore(s), IndexesAgreeIn(s), NEW ids
  PROVE  IndexesAgreeIn(deleteMessages(s, ids))
<1> DEFINE n == deleteMessages(s, ids)
           gone == ids \cap DOMAIN s.messages
           owned == [h \in DOMAIN s.messagesByPurge |-> {m \in gone : purgeKey(m) = h}]
<1>0. DeletedMessages(n, s, gone)
  BY DeleteMessagesFields
<1> HIDE DEF n
<1>1. /\ DOMAIN n.messages = DOMAIN s.messages \ gone
      /\ n.messagesByPurge = indexRemove(s.messagesByPurge, owned)
      /\ n.acks = s.acks
      /\ n.acksByMessage = s.acksByMessage
  BY <1>0 DEF DeletedMessages, Without
<1>2. \A h \in PurgeHashes :
        (IF h \in DOMAIN n.messagesByPurge THEN n.messagesByPurge[h] ELSE {})
          = {m \in Queued(n) : purgeKey(m) = h}
  <2> TAKE h \in PurgeHashes
  <2>1. (IF h \in DOMAIN s.messagesByPurge THEN s.messagesByPurge[h] ELSE {})
          = {m \in Queued(s) : purgeKey(m) = h}
    BY DEF IndexesAgreeIn
  <2>2. {m \in Queued(n) : purgeKey(m) = h}
          = {m \in Queued(s) : purgeKey(m) = h} \ {m \in gone : purgeKey(m) = h}
    BY <1>1 DEF Queued
  <2>3. h \in DOMAIN s.messagesByPurge => owned[h] = {m \in gone : purgeKey(m) = h}
    OBVIOUS
  <2> HIDE DEF owned
  <2> QED
    BY <1>1, <2>1, <2>2, <2>3 DEF indexRemove
<1>3. \A h \in DOMAIN n.messagesByPurge : n.messagesByPurge[h] # {}
  BY <1>1 DEF indexRemove
<1>4. IndexesAgreeIn(n)
  BY <1>1, <1>2, <1>3 DEF IndexesAgreeIn, Naming
<1> QED
  BY <1>4 DEF n

\* Deleting acks keeps the deletion indexes exact.
LEMMA DeleteAcksIndexes ==
  ASSUME NEW s, IsStore(s), IndexesAgreeIn(s), NEW ids
  PROVE  IndexesAgreeIn(deleteAcks(s, ids))
<1> DEFINE n == deleteAcks(s, ids)
           gone == ids \cap DOMAIN s.acks
           dropped == [m \in DOMAIN s.acksByMessage |-> {a \in gone : ackKey(a) = m}]
<1>0. DeletedAcks(n, s, gone)
  BY DeleteAcksFields
<1> HIDE DEF n
<1>1. /\ n.messages = s.messages
      /\ n.messagesByPurge = s.messagesByPurge
      /\ DOMAIN n.acks = DOMAIN s.acks \ gone
      /\ n.acksByMessage = indexRemove(s.acksByMessage, dropped)
  BY <1>0 DEF DeletedAcks, Without
<1>2. IndexesAgreeIn(n)
  BY <1>1 DEF IndexesAgreeIn, Naming, Queued, indexRemove
<1> QED
  BY <1>2 DEF n

\* Tombstones do not touch the deletion indexes.
LEMMA PurgesIndexes ==
  ASSUME NEW s, IsStore(s), IndexesAgreeIn(s), NEW purges
  PROVE  IndexesAgreeIn([s EXCEPT !.purges = purges])
<1> DEFINE n == [s EXCEPT !.purges = purges]
<1>1. NewPurges(n, s, purges)
  BY PurgesFields
<1> HIDE DEF n
<1>2. /\ n.messages = s.messages
      /\ n.messagesByPurge = s.messagesByPurge
      /\ n.acks = s.acks
      /\ n.acksByMessage = s.acksByMessage
  BY <1>1 DEF NewPurges, Fields
<1>3. IndexesAgreeIn(n)
  BY <1>2 DEF IndexesAgreeIn, Naming, Queued
<1> QED
  BY <1>3 DEF n

-----------------------------------------------------------------------------
(***************************************************************************)
(* Arrival numbers.  A record that is inserted must not be there already.  *)
(***************************************************************************)
\* A new ack gets an arrival number nobody has.
LEMMA InsertAckArrivals ==
  ASSUME NEW s, IsStore(s), ArrivalsAgreeIn(s), NEW a \in AckIDs, NEW e, NEW tag,
         a \notin DOMAIN s.acks
  PROVE  ArrivalsAgreeIn(insertAck(s, a, e, tag))
<1> DEFINE n == insertAck(s, a, e, tag)
<1>0. InsertedAck(n, s, a, e, tag)
  BY InsertAckFields
<1> HIDE DEF n
<1>1. /\ n.messages = s.messages
      /\ n.messageSeq = s.messageSeq
      /\ DOMAIN n.acks = DOMAIN s.acks \cup {a}
      /\ DOMAIN n.ackSeq = DOMAIN s.ackSeq \cup {a}
      /\ n.ackSeq[a] = s.seq + 1
      /\ \A b \in DOMAIN s.ackSeq : b # a => n.ackSeq[b] = s.ackSeq[b]
      /\ n.seq = s.seq + 1
      /\ s.seq \in Nat
  BY <1>0 DEF InsertedAck, Put, IsStore
<1>2. ArrivalsAgreeIn(n)
  BY <1>1 DEF ArrivalsAgreeIn, Queued
<1> QED
  BY <1>2 DEF n

\* A new message gets an arrival number nobody has.
LEMMA AddMessageArrivals ==
  ASSUME NEW s, IsStore(s), ArrivalsAgreeIn(s), NEW m \in MessageIDs, NEW tag,
         NEW e, NEW c, m \notin DOMAIN s.messages
  PROVE  ArrivalsAgreeIn(addMessageLocked(s, m, tag, e, c))
<1> DEFINE n == addMessageLocked(s, m, tag, e, c)
<1>0. AddedMessage(n, s, m, tag, e, c)
  BY AddMessageFields
<1> HIDE DEF n
<1>1. /\ n.acks = s.acks
      /\ n.ackSeq = s.ackSeq
      /\ DOMAIN n.messages = DOMAIN s.messages \cup {m}
      /\ DOMAIN n.messageSeq = DOMAIN s.messageSeq \cup {m}
      /\ n.messageSeq[m] = s.seq + 1
      /\ \A x \in DOMAIN s.messageSeq : x # m => n.messageSeq[x] = s.messageSeq[x]
      /\ n.seq = s.seq + 1
      /\ s.seq \in Nat
  BY <1>0 DEF AddedMessage, Put, IsStore
<1>2. ArrivalsAgreeIn(n)
  BY <1>1 DEF ArrivalsAgreeIn, Queued
<1> QED
  BY <1>2 DEF n

\* Deleted messages take their arrival numbers with them.
LEMMA DeleteMessagesArrivals ==
  ASSUME NEW s, IsStore(s), ArrivalsAgreeIn(s), NEW ids
  PROVE  ArrivalsAgreeIn(deleteMessages(s, ids))
<1> DEFINE n == deleteMessages(s, ids)
           gone == ids \cap DOMAIN s.messages
<1>0. DeletedMessages(n, s, gone)
  BY DeleteMessagesFields
<1> HIDE DEF n
<1>1. /\ n.acks = s.acks
      /\ n.ackSeq = s.ackSeq
      /\ DOMAIN n.messages = DOMAIN s.messages \ gone
      /\ DOMAIN n.messageSeq = DOMAIN s.messageSeq \ gone
      /\ \A m \in DOMAIN n.messageSeq : n.messageSeq[m] = s.messageSeq[m]
      /\ n.seq = s.seq
  BY <1>0 DEF DeletedMessages, Without
<1>2. ArrivalsAgreeIn(n)
  BY <1>1 DEF ArrivalsAgreeIn, Queued
<1> QED
  BY <1>2 DEF n

\* Deleted acks take their arrival numbers with them.
LEMMA DeleteAcksArrivals ==
  ASSUME NEW s, IsStore(s), ArrivalsAgreeIn(s), NEW ids
  PROVE  ArrivalsAgreeIn(deleteAcks(s, ids))
<1> DEFINE n == deleteAcks(s, ids)
           gone == ids \cap DOMAIN s.acks
<1>0. DeletedAcks(n, s, gone)
  BY DeleteAcksFields
<1> HIDE DEF n
<1>1. /\ n.messages = s.messages
      /\ n.messageSeq = s.messageSeq
      /\ DOMAIN n.acks = DOMAIN s.acks \ gone
      /\ DOMAIN n.ackSeq = DOMAIN s.ackSeq \ gone
      /\ \A a \in DOMAIN n.ackSeq : n.ackSeq[a] = s.ackSeq[a]
      /\ n.seq = s.seq
  BY <1>0 DEF DeletedAcks, Without
<1>2. ArrivalsAgreeIn(n)
  BY <1>1 DEF ArrivalsAgreeIn, Queued
<1> QED
  BY <1>2 DEF n

\* Tombstones have no arrival numbers.
LEMMA PurgesArrivals ==
  ASSUME NEW s, IsStore(s), ArrivalsAgreeIn(s), NEW purges
  PROVE  ArrivalsAgreeIn([s EXCEPT !.purges = purges])
<1> DEFINE n == [s EXCEPT !.purges = purges]
<1>1. NewPurges(n, s, purges)
  BY PurgesFields
<1> HIDE DEF n
<1>2. /\ n.messages = s.messages /\ n.messageSeq = s.messageSeq
      /\ n.acks = s.acks /\ n.ackSeq = s.ackSeq /\ n.seq = s.seq
  BY <1>1 DEF NewPurges, Fields
<1>3. ArrivalsAgreeIn(n)
  BY <1>2 DEF ArrivalsAgreeIn, Queued
<1> QED
  BY <1>3 DEF n

-----------------------------------------------------------------------------
(***************************************************************************)
(* The part of the inductive invariant that does not look at the clock.    *)
(***************************************************************************)
Sound(s) ==
  /\ IsStore(s)
  /\ IndexesAgreeIn(s)
  /\ ArrivalsAgreeIn(s)

\* The empty store is sound.
LEMMA NewStoreSound == Sound(NewStore)
<1>1. /\ NewStore.messages = EmptyMap /\ NewStore.acks = EmptyMap
      /\ NewStore.messageSeq = EmptyMap /\ NewStore.ackSeq = EmptyMap
      /\ NewStore.messagesByPurge = EmptyMap /\ NewStore.acksByMessage = EmptyMap
  BY DEF NewStore
<1>2. DOMAIN EmptyMap = {}
  BY DEF EmptyMap
<1>3. IndexesAgreeIn(NewStore)
  BY <1>1, <1>2 DEF IndexesAgreeIn, Naming, Queued
<1>4. ArrivalsAgreeIn(NewStore)
  BY <1>1, <1>2 DEF ArrivalsAgreeIn, Queued
<1> QED
  BY <1>3, <1>4, NewStoreType DEF Sound

\* Inserting an ack keeps a store sound.
LEMMA InsertAckSound ==
  ASSUME NEW s, Sound(s), NEW a \in AckIDs, NEW e \in Nat, NEW tag \in Tags \cup {None},
         a \notin DOMAIN s.acks
  PROVE  Sound(insertAck(s, a, e, tag))
BY InsertAckType, InsertAckIndexes, InsertAckArrivals DEF Sound

\* Queuing a message keeps a store sound.
LEMMA AddMessageSound ==
  ASSUME NEW s, Sound(s), NEW m \in MessageIDs, NEW tag \in Tags \cup {None},
         NEW e \in Nat, NEW c \in Callers, m \notin DOMAIN s.messages
  PROVE  Sound(addMessageLocked(s, m, tag, e, c))
BY AddMessageType, AddMessageIndexes, AddMessageArrivals DEF Sound

\* Deleting messages keeps a store sound.
LEMMA DeleteMessagesSound ==
  ASSUME NEW s, Sound(s), NEW ids
  PROVE  Sound(deleteMessages(s, ids))
BY DeleteMessagesType, DeleteMessagesIndexes, DeleteMessagesArrivals DEF Sound

\* Deleting acks keeps a store sound.
LEMMA DeleteAcksSound ==
  ASSUME NEW s, Sound(s), NEW ids
  PROVE  Sound(deleteAcks(s, ids))
BY DeleteAcksType, DeleteAcksIndexes, DeleteAcksArrivals DEF Sound

\* A new tombstone map keeps a store sound.
LEMMA PurgesSound ==
  ASSUME NEW s, Sound(s), NEW purges, IsMap(purges, PurgeHashes, Nat)
  PROVE  Sound([s EXCEPT !.purges = purges])
BY PurgesType, PurgesIndexes, PurgesArrivals DEF Sound

\* An ack from outside keeps a store sound.
LEMMA ExternalAckSound ==
  ASSUME NEW s, Sound(s), NEW n, NEW a \in AckIDs, NEW e, NEW tag \in Tags \cup {None},
         ExternalAck(n, s, a, e, tag)
  PROVE  Sound(n)
BY InsertAckSound, DeleteMessagesSound DEF ExternalAck

\* The tag an ack is recorded with is a tag or empty.
LEMMA BoundToType ==
  ASSUME NEW s, IsStore(s), NEW m
  PROVE  BoundTo(s, m) \in Tags \cup {None}
<1>1. IsMap(s.messageTags, MessageIDs, [tag : Tags \cup {None}, records : Nat])
  BY DEF IsStore
<1> QED
  BY <1>1 DEF BoundTo, IsMap

\* Recording a tombstone keeps a store sound.
LEMMA StorePurgeSound ==
  ASSUME NEW s, Sound(s), NEW h \in PurgeHashes, NEW e \in Nat
  PROVE  Sound(storePurgeLocked(s, h, e))
<1>1. IsMap(Put(s.purges, h, e), PurgeHashes, Nat)
  BY PutMap DEF Sound, IsStore
<1> QED
  BY <1>1, PurgesSound DEF storePurgeLocked

\* Removing an owner's records keeps a store sound.
LEMMA PurgeOwnerSound ==
  ASSUME NEW s, Sound(s), NEW h
  PROVE  Sound(purgeOwnerLocked(s, h))
BY DeleteMessagesSound, DeleteAcksSound DEF purgeOwnerLocked

\* A sweep keeps a store sound.
LEMMA PruneSound ==
  ASSUME NEW s, Sound(s), NEW t
  PROVE  Sound(PruneExpired(s, t))
<1> DEFINE n == deleteAcks(deleteMessages(s, ExpiredMessages(s, t)), ExpiredAcks(s, t))
<1>1. Sound(n)
  BY DeleteMessagesSound, DeleteAcksSound
<1> HIDE DEF n
<1>2. IsMap(Without(n.purges, ExpiredPurges(s, t)), PurgeHashes, Nat)
  BY <1>1, WithoutMap DEF Sound, IsStore
<1>3. Sound([n EXCEPT !.purges = Without(n.purges, ExpiredPurges(s, t))])
  BY <1>1, <1>2, PurgesSound
<1> QED
  BY <1>3 DEF PruneExpired, n

-----------------------------------------------------------------------------
(***************************************************************************)
(* Tombstones.  What each helper does to the queued ids and to the         *)
(* tombstones.                                                             *)
(***************************************************************************)
\* An ack leaves the queued messages and the tombstones alone.
LEMMA InsertAckHeld ==
  ASSUME NEW s, IsStore(s), NEW a, NEW e, NEW tag
  PROVE  /\ Queued(insertAck(s, a, e, tag)) = Queued(s)
         /\ insertAck(s, a, e, tag).purges = s.purges
<1> DEFINE n == insertAck(s, a, e, tag)
<1>1. InsertedAck(n, s, a, e, tag)
  BY InsertAckFields
<1> HIDE DEF n
<1>2. Queued(n) = Queued(s) /\ n.purges = s.purges
  BY <1>1 DEF InsertedAck, Queued
<1> QED
  BY <1>2 DEF n

\* Queuing m adds exactly m to the queued messages.
LEMMA AddMessageHeld ==
  ASSUME NEW s, IsStore(s), NEW m, NEW tag, NEW e, NEW c
  PROVE  /\ Queued(addMessageLocked(s, m, tag, e, c)) = Queued(s) \cup {m}
         /\ addMessageLocked(s, m, tag, e, c).purges = s.purges
<1> DEFINE n == addMessageLocked(s, m, tag, e, c)
<1>1. AddedMessage(n, s, m, tag, e, c)
  BY AddMessageFields
<1> HIDE DEF n
<1>2. Queued(n) = Queued(s) \cup {m} /\ n.purges = s.purges
  BY <1>1 DEF AddedMessage, Queued, Put
<1> QED
  BY <1>2 DEF n

\* Deletion only removes queued messages.
LEMMA DeleteMessagesHeld ==
  ASSUME NEW s, IsStore(s), NEW ids
  PROVE  /\ Queued(deleteMessages(s, ids)) = Queued(s) \ ids
         /\ deleteMessages(s, ids).purges = s.purges
<1> DEFINE n == deleteMessages(s, ids)
           gone == ids \cap DOMAIN s.messages
<1>1. DeletedMessages(n, s, gone)
  BY DeleteMessagesFields
<1> HIDE DEF n
<1>2. Queued(n) = Queued(s) \ ids /\ n.purges = s.purges
  BY <1>1 DEF DeletedMessages, Queued, Without
<1> QED
  BY <1>2 DEF n

\* Deleting acks leaves messages and tombstones alone.
LEMMA DeleteAcksHeld ==
  ASSUME NEW s, IsStore(s), NEW ids
  PROVE  /\ Queued(deleteAcks(s, ids)) = Queued(s)
         /\ deleteAcks(s, ids).purges = s.purges
<1> DEFINE n == deleteAcks(s, ids)
<1>1. DeletedAcks(n, s, ids \cap DOMAIN s.acks)
  BY DeleteAcksFields
<1> HIDE DEF n
<1>2. Queued(n) = Queued(s) /\ n.purges = s.purges
  BY <1>1 DEF DeletedAcks, Queued
<1> QED
  BY <1>2 DEF n

\* An ack from outside only removes queued messages.
LEMMA ExternalAckHeld ==
  ASSUME NEW s, Sound(s), NEW n, NEW a \in AckIDs, NEW e, NEW tag \in Tags \cup {None},
         ExternalAck(n, s, a, e, tag)
  PROVE  Queued(n) \subseteq Queued(s) /\ n.purges = s.purges
<1>1. e \in Nat /\ IsStore(insertAck(s, a, e, tag))
  BY InsertAckType DEF Sound, ExternalAck
<1> QED
  BY <1>1, InsertAckHeld, DeleteMessagesHeld DEF ExternalAck, Sound

\* The index finds every message of the owner, so a purge leaves none.
LEMMA PurgeOwnerHeld ==
  ASSUME NEW s, Sound(s), NEW h \in PurgeHashes
  PROVE  /\ Queued(purgeOwnerLocked(s, h)) = {m \in Queued(s) : purgeKey(m) # h}
         /\ purgeOwnerLocked(s, h).purges = s.purges
<1> DEFINE owned == IF h \in DOMAIN s.messagesByPurge THEN s.messagesByPurge[h] ELSE {}
           naming == {a \in AckIDs : /\ ackKey(a) \in owned \cap DOMAIN s.acksByMessage
                                     /\ a \in s.acksByMessage[ackKey(a)]}
           mid == deleteMessages(s, owned)
<1>1. owned = {m \in Queued(s) : purgeKey(m) = h}
  BY DEF Sound, IndexesAgreeIn
<1> HIDE DEF owned
<1>2. IsStore(mid) /\ Queued(mid) = Queued(s) \ owned /\ mid.purges = s.purges
  BY DeleteMessagesType, DeleteMessagesHeld DEF Sound
<1> HIDE DEF mid, naming
<1>3. /\ Queued(deleteAcks(mid, naming)) = Queued(mid)
      /\ deleteAcks(mid, naming).purges = mid.purges
  BY <1>2, DeleteAcksHeld
<1>4. purgeOwnerLocked(s, h) = deleteAcks(mid, naming)
  BY DEF purgeOwnerLocked, mid, naming, owned
<1> QED
  BY <1>1, <1>2, <1>3, <1>4

\* A tombstone is recorded, or there is no room for it.
LEMMA StorePurgeHeld ==
  ASSUME NEW s, Sound(s), NEW h, NEW e
  PROVE  LET n == storePurgeLocked(s, h, e)
         IN  /\ Queued(n) = Queued(s)
             /\ n.purges = s.purges \/ n.purges = Put(s.purges, h, e)
<1> DEFINE n == [s EXCEPT !.purges = Put(s.purges, h, e)]
<1>1. NewPurges(n, s, Put(s.purges, h, e))
  BY PurgesFields DEF Sound
<1> HIDE DEF n
<1>2. n.messages = s.messages /\ n.purges = Put(s.purges, h, e)
  BY <1>1 DEF NewPurges, Fields
<1> QED
  BY <1>2 DEF storePurgeLocked, Queued, n

\* A sweep removes messages and tombstones, and adds none.
LEMMA PruneHeld ==
  ASSUME NEW s, Sound(s), NEW t
  PROVE  LET n == PruneExpired(s, t)
         IN  /\ Queued(n) \subseteq Queued(s)
             /\ n.purges = Without(s.purges, ExpiredPurges(s, t))
<1> DEFINE mid == deleteMessages(s, ExpiredMessages(s, t))
           low == deleteAcks(mid, ExpiredAcks(s, t))
           purges == Without(low.purges, ExpiredPurges(s, t))
           n == [low EXCEPT !.purges = purges]
<1>1. IsStore(mid) /\ Queued(mid) \subseteq Queued(s) /\ mid.purges = s.purges
  BY DeleteMessagesType, DeleteMessagesHeld DEF Sound
<1> HIDE DEF mid
<1>2. IsStore(low) /\ Queued(low) = Queued(mid) /\ low.purges = mid.purges
  BY <1>1, DeleteAcksType, DeleteAcksHeld
<1> HIDE DEF low
<1>3. NewPurges(n, low, purges)
  BY <1>2, PurgesFields
<1> HIDE DEF n
<1>4. n.messages = low.messages /\ n.purges = purges
  BY <1>3 DEF NewPurges, Fields
<1>5. PruneExpired(s, t) = n
  BY DEF PruneExpired, n, low, mid
<1> QED
  BY <1>1, <1>2, <1>4, <1>5 DEF Queued

\* Fewer messages and fewer tombstones cannot break the rule.
LEMMA StayOutKept ==
  ASSUME NEW s, NEW n, NEW t, PurgedStayOutIn(s, t), Queued(n) \subseteq Queued(s),
         \A h \in DOMAIN n.purges : h \in DOMAIN s.purges /\ n.purges[h] = s.purges[h]
  PROVE  PurgedStayOutIn(n, t)
BY DEF PurgedStayOutIn, Purged

\* A purge leaves no message its tombstone speaks for.
LEMMA PurgeStayOut ==
  ASSUME NEW s, Sound(s), NEW h \in PurgeHashes, NEW e \in Nat, NEW t,
         PurgedStayOutIn(s, t)
  PROVE  PurgedStayOutIn(purgeOwnerLocked(storePurgeLocked(s, h, e), h), t)
<1> DEFINE mid == storePurgeLocked(s, h, e)
           n == purgeOwnerLocked(mid, h)
<1>1. /\ Sound(mid)
      /\ Queued(mid) = Queued(s)
      /\ mid.purges = s.purges \/ mid.purges = Put(s.purges, h, e)
  BY StorePurgeSound, StorePurgeHeld
<1> HIDE DEF mid
<1>2. Queued(n) = {m \in Queued(mid) : purgeKey(m) # h} /\ n.purges = mid.purges
  BY <1>1, PurgeOwnerHeld
<1> HIDE DEF n
<1>3. PurgedStayOutIn(n, t)
  BY <1>1, <1>2 DEF PurgedStayOutIn, Purged, Put
<1> QED
  BY <1>3 DEF n, mid

-----------------------------------------------------------------------------
(***************************************************************************)
(* The inductive invariant.  PurgedStayOut is not inductive alone: a purge *)
(* finds the owner's mail by index, so the index has to be exact.          *)
(***************************************************************************)
IInv == Sound(store) /\ now \in Nat \ {0} /\ PurgedStayOut

\* A handler's clock reading is a time that has passed.
LEMMA ReadingsType ==
  ASSUME IInv, NEW t \in Readings
  PROVE  t \in Nat /\ t <= now
BY DEF IInv, Readings

\* A tombstone that is alive now was alive when a waiting handler read the clock.
LEMMA AdmittedStaysOut ==
  ASSUME NEW s, IsStore(s), NEW m \in MessageIDs, NEW t \in Nat, NEW u \in Nat,
         t <= u, ~Purged(s, m, t)
  PROVE  ~Purged(s, m, u)
<1>1. IsMap(s.purges, PurgeHashes, Nat)
  BY DEF IsStore
<1> QED
  BY <1>1 DEF Purged, Expired, IsMap

\* A message that is admitted was neither queued nor purged.
LEMMA NoError ==
  ASSUME NEW s, NEW m, NEW e, NEW c, NEW t, addMessageError(s, m, e, c, t) = "ok"
  PROVE  m \notin DOMAIN s.messages /\ ~Purged(s, m, t)
BY DEF addMessageError

\* POST /messages preserves the invariant.
LEMMA PostMessageStep ==
  ASSUME IInv, NEW t \in Readings, NEW m \in MessageIDs, NEW tag \in Tags \cup {None},
         NEW requested \in Requests, NEW c \in Callers, PostMessage(m, tag, requested, c, t)
  PROVE  IInv'
<1>1. t \in Nat /\ t <= now /\ requested \in Nat /\ now' = now
  BY ReadingsType, StoreConstants DEF PostMessage
<1>2. ASSUME store' = store PROVE IInv'
  BY <1>1, <1>2 DEF IInv, PurgedStayOut
<1>3. ASSUME NEW e \in Nat,
             addMessageError(store, m, e, c, t) = "ok",
             NodeReceived[m] \notin DOMAIN store.acks,
             store' = addMessageLocked(
               insertAck(store, NodeReceived[m], e, tag), m, tag, e, c)
      PROVE  IInv'
  <2> DEFINE mid == insertAck(store, NodeReceived[m], e, tag)
  <2>1. m \notin DOMAIN store.messages /\ ~Purged(store, m, t)
    BY <1>3, NoError
  <2>2. Sound(mid) /\ Queued(mid) = Queued(store) /\ mid.purges = store.purges
    BY <1>3, InsertAckSound, InsertAckHeld, Bodies DEF IInv, Sound
  <2> HIDE DEF mid
  <2>3. /\ Sound(store')
        /\ Queued(store') = Queued(store) \cup {m}
        /\ store'.purges = store.purges
    <3>1. m \notin DOMAIN mid.messages
      BY <2>1, <2>2 DEF Queued
    <3>2. store' = addMessageLocked(mid, m, tag, e, c)
      BY <1>3 DEF mid
    <3>3. Sound(store')
      BY <2>2, <3>1, <3>2, <1>3, AddMessageSound
    <3>4. IsStore(mid)
      BY <2>2 DEF Sound
    <3>5. Queued(store') = Queued(mid) \cup {m} /\ store'.purges = mid.purges
      <4>1. /\ Queued(addMessageLocked(mid, m, tag, e, c)) = Queued(mid) \cup {m}
            /\ addMessageLocked(mid, m, tag, e, c).purges = mid.purges
        BY <3>4, AddMessageHeld
      <4> QED
        BY <3>2, <4>1
    <3> QED
      BY <2>2, <3>3, <3>5
  <2>4. ~Purged(store, m, now)
    BY <1>1, <2>1, AdmittedStaysOut DEF IInv, Sound
  <2>5. PurgedStayOutIn(store', now)
    BY <2>3, <2>4 DEF IInv, PurgedStayOut, PurgedStayOutIn, Purged
  <2> QED
    BY <1>1, <2>3, <2>5 DEF IInv, PurgedStayOut
<1>4. store' = AddMessageWithGrant(store, m, tag, requested, c, t).store
  BY DEF PostMessage
<1>5. store' = store \/ \E e \in Nat : Posted(store', store, m, tag, e, c, t)
  BY <1>1, <1>4, AddMessageCases
<1>6. \/ store' = store
      \/ \E e \in Nat :
           /\ addMessageError(store, m, e, c, t) = "ok"
           /\ NodeReceived[m] \notin DOMAIN store.acks
           /\ store' = addMessageLocked(
                insertAck(store, NodeReceived[m], e, tag), m, tag, e, c)
  BY <1>5 DEF Posted
<1> QED
  BY <1>2, <1>3, <1>6

\* POST /acks and a replicated ack preserve the invariant.
LEMMA ExternalAckStep ==
  ASSUME IInv, NEW a \in AckIDs, NEW tag \in Tags \cup {None}, now' = now,
         store' = store \/ \E e \in Nat : ExternalAck(store', store, a, e, tag)
  PROVE  IInv'
<1>1. /\ Sound(store')
      /\ Queued(store') \subseteq Queued(store)
      /\ store'.purges = store.purges
  BY ExternalAckSound, ExternalAckHeld DEF IInv
<1>2. PurgedStayOutIn(store', now)
  BY <1>1, StayOutKept DEF IInv, PurgedStayOut
<1> QED
  BY <1>1, <1>2 DEF IInv, PurgedStayOut

\* The fetches, the snapshot and the cleanup preserve the invariant.
LEMMA SweepStep ==
  ASSUME IInv, NEW t, GetMessages(t) \/ GetAcks(t) \/ Prune(t)
  PROVE  IInv'
<1>1. CASE GetMessages(t)
  <2>1. /\ Sound(store')
        /\ Queued(store') \subseteq Queued(store)
        /\ store'.purges = store.purges
    BY <1>1, DeleteMessagesSound, DeleteMessagesHeld
       DEF IInv, Sound, GetMessages, MessagesForRecipient
  <2>2. PurgedStayOutIn(store', now)
    BY <2>1, StayOutKept DEF IInv, PurgedStayOut
  <2> QED
    BY <1>1, <2>1, <2>2 DEF IInv, PurgedStayOut, GetMessages
<1>2. CASE GetAcks(t)
  <2>1. /\ Sound(store')
        /\ Queued(store') \subseteq Queued(store)
        /\ store'.purges = store.purges
    BY <1>2, DeleteAcksSound, DeleteAcksHeld DEF IInv, Sound, GetAcks, AcksForSender
  <2>2. PurgedStayOutIn(store', now)
    BY <2>1, StayOutKept DEF IInv, PurgedStayOut
  <2> QED
    BY <1>2, <2>1, <2>2 DEF IInv, PurgedStayOut, GetAcks
<1>3. CASE Prune(t)
  <2>1. /\ Sound(store')
        /\ Queued(store') \subseteq Queued(store)
        /\ store'.purges = Without(store.purges, ExpiredPurges(store, t))
    BY <1>3, PruneSound, PruneHeld DEF IInv, Prune
  <2>2. PurgedStayOutIn(store', now)
    BY <2>1, StayOutKept DEF IInv, PurgedStayOut, Without
  <2> QED
    BY <1>3, <2>1, <2>2 DEF IInv, PurgedStayOut, Prune
<1> QED
  BY <1>1, <1>2, <1>3

\* A purge, own or replicated, preserves the invariant.
LEMMA PurgeStep ==
  ASSUME IInv, NEW h \in PurgeHashes, NEW e \in Nat, now' = now,
         store' = purgeOwnerLocked(storePurgeLocked(store, h, e), h)
  PROVE  IInv'
<1>1. Sound(store')
  BY StorePurgeSound, PurgeOwnerSound DEF IInv
<1>2. PurgedStayOutIn(store', now)
  BY PurgeStayOut DEF IInv, PurgedStayOut
<1> QED
  BY <1>1, <1>2 DEF IInv, PurgedStayOut

\* A replicated message preserves the invariant.
LEMMA ImportMessageStep ==
  ASSUME IInv, NEW t \in Readings, NEW m \in MessageIDs, NEW tag \in Tags \cup {None},
         NEW e \in Requests, ImportMessage(m, tag, e, t)
  PROVE  IInv'
<1>1. /\ t \in Nat /\ t <= now /\ e \in Nat /\ now' = now
      /\ NoCredential \in Callers
  BY ReadingsType, StoreConstants DEF ImportMessage, Callers
<1>2. ASSUME store' = store PROVE IInv'
  BY <1>1, <1>2 DEF IInv, PurgedStayOut
<1>3. ASSUME NEW x \in Nat, m \notin DOMAIN store.messages, ~Purged(store, m, t),
             store' = addMessageLocked(store, m, tag, x, NoCredential)
      PROVE  IInv'
  <2>1. /\ Sound(store')
        /\ Queued(store') = Queued(store) \cup {m}
        /\ store'.purges = store.purges
    BY <1>1, <1>3, AddMessageSound, AddMessageHeld DEF IInv, Sound
  <2>2. ~Purged(store, m, now)
    BY <1>1, <1>3, AdmittedStaysOut DEF IInv, Sound
  <2>3. PurgedStayOutIn(store', now)
    BY <2>1, <2>2 DEF IInv, PurgedStayOut, PurgedStayOutIn, Purged
  <2> QED
    BY <1>1, <2>1, <2>3 DEF IInv, PurgedStayOut
<1> QED
  BY <1>1, <1>2, <1>3, ImportMessageCases DEF ImportMessage

\* Time only kills tombstones, so it preserves the invariant.
LEMMA TickStep ==
  ASSUME IInv, Tick
  PROVE  IInv'
<1>1. now \in Nat /\ now' = now + 1 /\ store' = store /\ IsStore(store)
  BY DEF IInv, Tick, Sound
<1>2. ASSUME NEW m \in Queued(store) PROVE ~Purged(store, m, now + 1)
  <2>1. m \in MessageIDs
    BY <1>1 DEF IsStore, IsMap, Queued
  <2> QED
    BY <1>1, <2>1, AdmittedStaysOut DEF IInv, PurgedStayOut, PurgedStayOutIn
<1> QED
  BY <1>1, <1>2 DEF IInv, PurgedStayOut, PurgedStayOutIn

\* A record arrives with a tag or without one.
LEMMA StampsType ==
  /\ \A m \in MessageIDs : StampsOf[m] \subseteq Tags \cup {None}
  /\ \A a \in AckIDs : StampsOf[ackKey(a)] \cup {None} \subseteq Tags \cup {None}
BY StoreConstants, Bodies

\* Every step of the relay preserves the invariant.
LEMMA InvStep == IInv /\ [Next]_vars => IInv'
<1> SUFFICES ASSUME IInv, [Next]_vars PROVE IInv'
  OBVIOUS
<1>1. ASSUME NEW t \in Readings, NEW m \in MessageIDs, NEW tag \in StampsOf[m],
             NEW requested \in Requests, NEW c \in Callers,
             PostMessage(m, tag, requested, c, t)
      PROVE  IInv'
  BY <1>1, StampsType, PostMessageStep
<1>2. ASSUME NEW t \in Readings, NEW a \in AckIDs, NEW requested \in Requests,
             NEW c \in Callers, NEW proof, PostAck(a, requested, c, proof, t)
      PROVE  IInv'
  <2>1. t \in Nat /\ requested \in Nat
    BY ReadingsType, StoreConstants
  <2>2. \/ store' = store
        \/ \E e \in Nat : ExternalAck(store', store, a, e, BoundTo(store, ackKey(a)))
    BY <1>2, <2>1, AddAckCases DEF PostAck
  <2>3. BoundTo(store, ackKey(a)) \in Tags \cup {None} /\ now' = now
    BY <1>2, BoundToType DEF IInv, Sound, PostAck
  <2> QED
    BY <2>2, <2>3, ExternalAckStep
<1>3. ASSUME NEW t \in Readings, GetMessages(t) \/ GetAcks(t) \/ Prune(t)
      PROVE  IInv'
  BY <1>3, SweepStep
<1>4. ASSUME NEW h \in PurgeHashes, Purge(h)
      PROVE  IInv'
  <2>1. now + DefaultTTL \in Nat
    BY QueueConstants DEF IInv
  <2> QED
    BY <1>4, <2>1, PurgeStep DEF Purge, PurgeOwner
<1>5. ASSUME NEW t \in Readings, NEW h \in PurgeHashes, NEW e \in Requests,
             ImportPurge(h, e, t)
      PROVE  IInv'
  <2>1. CASE Expired(e, t)
    BY <1>5, <2>1 DEF ImportPurge, importPurge, IInv, PurgedStayOut
  <2>2. CASE ~Expired(e, t)
    BY <1>5, <2>2, PurgeStep, StoreConstants DEF ImportPurge, importPurge
  <2> QED
    BY <2>1, <2>2
<1>6. ASSUME NEW t \in Readings, NEW m \in MessageIDs, NEW tag \in StampsOf[m],
             NEW e \in Requests, ImportMessage(m, tag, e, t)
      PROVE  IInv'
  BY <1>6, StampsType, ImportMessageStep
<1>7. ASSUME NEW t \in Readings, NEW a \in AckIDs, NEW e \in Requests,
             NEW tag \in StampsOf[ackKey(a)] \cup {None}, ImportAck(a, e, tag, t)
      PROVE  IInv'
  <2>1. t \in Nat /\ e \in Nat /\ tag \in Tags \cup {None} /\ now' = now
    BY <1>7, ReadingsType, StoreConstants, StampsType DEF ImportAck
  <2>2. store' = store \/ \E x \in Nat : ExternalAck(store', store, a, x, tag)
    BY <1>7, <2>1, ImportAckCases DEF ImportAck
  <2> QED
    BY <2>1, <2>2, ExternalAckStep
<1>8. CASE Tick
  BY <1>8, TickStep
<1>9. CASE UNCHANGED vars
  BY <1>9 DEF IInv, PurgedStayOut, vars
<1> QED
  BY <1>1, <1>2, <1>3, <1>4, <1>5, <1>6, <1>7, <1>8, <1>9 DEF Next

(***************************************************************************)
(* The inductive invariant holds in every reachable state of a relay's     *)
(* queue, for any ids, caps, windows and clock bounds.                     *)
(***************************************************************************)
THEOREM Invariance == Spec => []IInv
<1>1. Init => IInv
  <2>1. DOMAIN NewStore.messages = {}
    BY DEF NewStore, EmptyMap
  <2> QED
    BY <2>1, NewStoreSound DEF Init, IInv, PurgedStayOut, PurgedStayOutIn, Queued
<1> QED
  BY <1>1, InvStep, PTL DEF Spec

(***************************************************************************)
(* The maps of queue.Store always hold what they are declared for.         *)
(***************************************************************************)
THEOREM TypeCorrect == Spec => []TypeOK
<1>1. IInv => TypeOK
  BY DEF IInv, Sound, TypeOK
<1> QED
  BY <1>1, Invariance, PTL

(***************************************************************************)
(* After DELETE /profile/purge, or its replica, no message of that owner   *)
(* is queued while the tombstone lives: not by a retried POST /messages,   *)
(* not by a page of a peer, not by a handler whose clock reading is older  *)
(* than the purge.                                                         *)
(***************************************************************************)
THEOREM PurgeSafe == Spec => []PurgedStayOut
<1>1. IInv => PurgedStayOut
  BY DEF IInv
<1> QED
  BY <1>1, Invariance, PTL

(***************************************************************************)
(* messagesByPurge and acksByMessage list exactly the records held, so     *)
(* that purgeOwnerLocked and hasTerminalAckLocked miss nothing and leak    *)
(* nothing.                                                                *)
(***************************************************************************)
THEOREM IndexesExact == Spec => []IndexesAgree
<1>1. IInv => IndexesAgree
  BY DEF IInv, Sound, IndexesAgree
<1> QED
  BY <1>1, Invariance, PTL

(***************************************************************************)
(* Arrival numbers are unique, at most seq, and kept for exactly the       *)
(* records held: what SnapshotSince needs to page without skipping or      *)
(* repeating a record.                                                     *)
(***************************************************************************)
THEOREM ArrivalsExact == Spec => []ArrivalsAgree
<1>1. IInv => ArrivalsAgree
  BY DEF IInv, Sound, ArrivalsAgree
<1> QED
  BY <1>1, Invariance, PTL

-----------------------------------------------------------------------------
(***************************************************************************)
(* Counters, bindings and limits.                                          *)
(***************************************************************************)
(***************************************************************************)
(* Counting.                                                               *)
(***************************************************************************)
\* What is left of a finite set when a part of it is taken away.
LEMMA CardinalityMinus ==
  ASSUME NEW S, IsFiniteSet(S), NEW T \in SUBSET S
  PROVE  /\ Cardinality(S \ T) = Cardinality(S) - Cardinality(T)
         /\ Cardinality(T) <= Cardinality(S)
         /\ Cardinality(S) \in Nat /\ Cardinality(T) \in Nat
<1>1. S \cap T = T
  OBVIOUS
<1>2. IsFiniteSet(T) /\ Cardinality(T) <= Cardinality(S)
  BY FS_Subset
<1>3. Cardinality(S \ T) = Cardinality(S) - Cardinality(T)
  BY <1>1, FS_Difference
<1> QED
  BY <1>2, <1>3, FS_CardinalityType

\* A part of a finite set is finite and no larger.
LEMMA CardinalityPart ==
  ASSUME NEW S, IsFiniteSet(S), NEW T, T \subseteq S
  PROVE  /\ IsFiniteSet(T)
         /\ Cardinality(T) <= Cardinality(S)
         /\ Cardinality(S) \in Nat /\ Cardinality(T) \in Nat
BY FS_Subset, FS_CardinalityType

\* One more element.
LEMMA CardinalityPlus ==
  ASSUME NEW S, IsFiniteSet(S), NEW x, x \notin S
  PROVE  /\ IsFiniteSet(S \cup {x})
         /\ Cardinality(S \cup {x}) = Cardinality(S) + 1
         /\ Cardinality(S) \in Nat
BY FS_AddElement, FS_CardinalityType

\* The parts of the ack lane.
LEMMA LaneSizes ==
  /\ MaxMessages \in Nat /\ maxAcks \in Nat /\ externalAckCapacity \in Nat
  /\ maxAcks = externalAckCapacity + MaxMessages
BY QueueConstants DEF maxAcks, externalAckCapacity

\* A counter after its decrements; it has no key when nothing is left.
LEMMA DiscountCount ==
  ASSUME NEW K, NEW map, IsMap(map, K, Nat), NEW dropped \in [DOMAIN map -> Nat]
  PROVE  LET left == Discount(map, dropped)
         IN  /\ \A k : Count(left, k) =
                  IF k \in DOMAIN map /\ map[k] > dropped[k]
                  THEN map[k] - dropped[k] ELSE 0
             /\ \A k \in DOMAIN left : left[k] > 0
BY DEF IsMap, Discount, Count

\* A counter after an increment.
LEMMA PutCount ==
  ASSUME NEW map, NEW k, NEW v
  PROVE  \A x : Count(Put(map, k, v), x) = IF x = k THEN v ELSE Count(map, x)
BY DEF Put, Count

-----------------------------------------------------------------------------
(***************************************************************************)
(* The lane and credential counters.                                       *)
(***************************************************************************)
\* Queuing a message that is not queued counts it once.
LEMMA AddMessageCounters ==
  ASSUME NEW s, IsStore(s), CountersAgreeIn(s), NEW m \in MessageIDs, NEW tag, NEW e,
         NEW c \in Callers, m \notin DOMAIN s.messages
  PROVE  CountersAgreeIn(addMessageLocked(s, m, tag, e, c))
<1> DEFINE n == addMessageLocked(s, m, tag, e, c)
<1>0. AddedMessage(n, s, m, tag, e, c)
  BY AddMessageFields
<1> HIDE DEF n
<1>1. /\ Queued(n) = Queued(s) \cup {m}
      /\ n.pairCounts = Put(s.pairCounts, pairKey(m), Count(s.pairCounts, pairKey(m)) + 1)
      /\ Queued(s) \in SUBSET MessageIDs /\ m \notin Queued(s)
      /\ IsMap(s.pairCounts, Lanes, Nat)
      /\ IsMap(s.credentialCounts, Credentials, Nat)
      /\ IsMap(s.messageCredential, MessageIDs, Credentials)
  BY <1>0 DEF AddedMessage, Put, Queued, IsStore, IsMap
<1>2. m \notin DOMAIN s.messageCredential
  BY <1>1 DEF CountersAgreeIn
<1>3. \A k \in Lanes : Count(n.pairCounts, k) = Cardinality(InLane(n, k))
  <2> TAKE k \in Lanes
  <2>1. IsFiniteSet(InLane(s, k)) /\ Count(s.pairCounts, k) = Cardinality(InLane(s, k))
    BY <1>1, FiniteParts DEF InLane, CountersAgreeIn
  <2>2. CASE k = pairKey(m)
    <3>1. InLane(n, k) = InLane(s, k) \cup {m} /\ m \notin InLane(s, k)
      BY <1>1, <2>2 DEF InLane
    <3>2. Cardinality(InLane(n, k)) = Cardinality(InLane(s, k)) + 1
      BY <2>1, <3>1, FS_AddElement
    <3> QED
      BY <1>1, <2>1, <2>2, <3>2, PutCount
  <2>3. CASE k # pairKey(m)
    <3>1. InLane(n, k) = InLane(s, k)
      BY <1>1, <2>3 DEF InLane
    <3> QED
      BY <1>1, <2>1, <2>3, <3>1, PutCount
  <2> QED
    BY <2>2, <2>3
<1>4. \A k \in DOMAIN n.pairCounts : n.pairCounts[k] > 0
  BY <1>1 DEF CountersAgreeIn, Put, Count, IsMap
<1>5. CASE c = NoCredential
  <2>1. /\ n.credentialCounts = s.credentialCounts
        /\ n.messageCredential = s.messageCredential
    BY <1>0, <1>5 DEF AddedMessage
  <2> QED
    BY <1>1, <1>3, <1>4, <2>1 DEF CountersAgreeIn, ChargedTo, n
<1>6. CASE c # NoCredential
  <2>1. /\ n.credentialCounts = Put(s.credentialCounts, c, Count(s.credentialCounts, c) + 1)
        /\ n.messageCredential = Put(s.messageCredential, m, c)
    BY <1>0, <1>6 DEF AddedMessage
  <2>2. DOMAIN n.messageCredential \subseteq Queued(n)
    BY <1>1, <2>1 DEF CountersAgreeIn, Put
  <2>3. \A d \in DOMAIN n.credentialCounts : n.credentialCounts[d] > 0
    BY <1>1, <2>1 DEF CountersAgreeIn, Put, Count, IsMap
  <2>4. \A d \in Credentials : Count(n.credentialCounts, d) = Cardinality(ChargedTo(n, d))
    <3> TAKE d \in Credentials
    <3>1. ChargedTo(s, d) \in SUBSET MessageIDs /\ m \notin ChargedTo(s, d)
      BY <1>1, <1>2 DEF ChargedTo, IsMap
    <3>2. /\ IsFiniteSet(ChargedTo(s, d))
          /\ Count(s.credentialCounts, d) = Cardinality(ChargedTo(s, d))
      BY <3>1, FiniteParts DEF CountersAgreeIn
    <3>3. CASE d = c
      <4>1. ChargedTo(n, d) = ChargedTo(s, d) \cup {m}
        BY <2>1, <3>3 DEF ChargedTo, Put
      <4>2. Cardinality(ChargedTo(n, d)) = Cardinality(ChargedTo(s, d)) + 1
        BY <3>1, <3>2, <4>1, FS_AddElement
      <4> QED
        BY <2>1, <3>2, <3>3, <4>2, PutCount
    <3>4. CASE d # c
      <4>1. ChargedTo(n, d) = ChargedTo(s, d)
        BY <1>2, <2>1, <3>4 DEF ChargedTo, Put
      <4> QED
        BY <2>1, <3>2, <3>4, <4>1, PutCount
    <3> QED
      BY <3>3, <3>4
  <2> QED
    BY <1>3, <1>4, <2>2, <2>3, <2>4 DEF CountersAgreeIn, n
<1> QED
  BY <1>5, <1>6

\* Deleted messages are discounted from their lanes and their credentials.
LEMMA DeleteMessagesCounters ==
  ASSUME NEW s, IsStore(s), CountersAgreeIn(s), NEW ids
  PROVE  CountersAgreeIn(deleteMessages(s, ids))
<1> DEFINE n == deleteMessages(s, ids)
           gone == ids \cap DOMAIN s.messages
           charged == gone \cap DOMAIN s.messageCredential
           inLane == [k \in DOMAIN s.pairCounts |-> Cardinality({m \in gone : pairKey(m) = k})]
           chargedTo == [c \in DOMAIN s.credentialCounts |->
                           Cardinality({m \in charged : s.messageCredential[m] = c})]
<1>0. DeletedMessages(n, s, gone)
  BY DeleteMessagesFields
<1> HIDE DEF n
<1>1. /\ Queued(n) = Queued(s) \ gone
      /\ n.pairCounts = Discount(s.pairCounts, inLane)
      /\ n.credentialCounts = Discount(s.credentialCounts, chargedTo)
      /\ n.messageCredential = Without(s.messageCredential, charged)
  BY <1>0 DEF DeletedMessages, Without, Queued
<1>2. /\ Queued(s) \in SUBSET MessageIDs
      /\ IsMap(s.pairCounts, Lanes, Nat)
      /\ IsMap(s.credentialCounts, Credentials, Nat)
      /\ IsMap(s.messageCredential, MessageIDs, Credentials)
      /\ DOMAIN s.messageCredential \subseteq Queued(s)
  BY DEF Queued, IsStore, IsMap, CountersAgreeIn
<1>3. ASSUME NEW k
      PROVE  LET part == {m \in gone : pairKey(m) = k}
             IN  /\ part \in SUBSET InLane(s, k) /\ IsFiniteSet(InLane(s, k))
                 /\ InLane(n, k) = InLane(s, k) \ part
                 /\ Cardinality(part) \in Nat
  <2>1. {m \in gone : pairKey(m) = k} \in SUBSET MessageIDs /\ InLane(s, k) \in SUBSET MessageIDs
    BY <1>2 DEF InLane, Queued
  <2> QED
    BY <1>1, <1>2, <2>1, FiniteParts DEF InLane, Queued
<1>4. ASSUME NEW c
      PROVE  LET part == {m \in charged : s.messageCredential[m] = c}
             IN  /\ part \in SUBSET ChargedTo(s, c) /\ IsFiniteSet(ChargedTo(s, c))
                 /\ ChargedTo(n, c) = ChargedTo(s, c) \ part
                 /\ Cardinality(part) \in Nat
  <2>1. /\ {m \in charged : s.messageCredential[m] = c} \in SUBSET MessageIDs
        /\ ChargedTo(s, c) \in SUBSET MessageIDs
    BY <1>2 DEF ChargedTo
  <2>2. ChargedTo(n, c) = ChargedTo(s, c) \ {m \in charged : s.messageCredential[m] = c}
    BY <1>1 DEF ChargedTo, Without
  <2> QED
    BY <2>1, <2>2, FiniteParts DEF ChargedTo
<1>5. /\ inLane \in [DOMAIN s.pairCounts -> Nat]
      /\ chargedTo \in [DOMAIN s.credentialCounts -> Nat]
  BY <1>3, <1>4
<1>6. ASSUME NEW k \in Lanes PROVE Count(n.pairCounts, k) = Cardinality(InLane(n, k))
  <2> DEFINE part == {m \in gone : pairKey(m) = k}
  <2>1. /\ Cardinality(InLane(n, k)) = Cardinality(InLane(s, k)) - Cardinality(part)
        /\ Cardinality(part) <= Cardinality(InLane(s, k))
        /\ Cardinality(InLane(s, k)) \in Nat /\ Cardinality(part) \in Nat
    BY <1>3, CardinalityMinus
  <2>2. k \in DOMAIN s.pairCounts => inLane[k] = Cardinality(part)
    OBVIOUS
  <2>3. Count(s.pairCounts, k) = Cardinality(InLane(s, k))
    BY DEF CountersAgreeIn
  <2> HIDE DEF part, inLane
  <2> QED
    BY <1>1, <1>2, <1>5, <2>1, <2>2, <2>3, DiscountCount DEF Count
<1>7. ASSUME NEW c \in Credentials
      PROVE  Count(n.credentialCounts, c) = Cardinality(ChargedTo(n, c))
  <2> DEFINE part == {m \in charged : s.messageCredential[m] = c}
  <2>1. /\ Cardinality(ChargedTo(n, c)) = Cardinality(ChargedTo(s, c)) - Cardinality(part)
        /\ Cardinality(part) <= Cardinality(ChargedTo(s, c))
        /\ Cardinality(ChargedTo(s, c)) \in Nat /\ Cardinality(part) \in Nat
    BY <1>4, CardinalityMinus
  <2>2. c \in DOMAIN s.credentialCounts => chargedTo[c] = Cardinality(part)
    OBVIOUS
  <2>3. Count(s.credentialCounts, c) = Cardinality(ChargedTo(s, c))
    BY DEF CountersAgreeIn
  <2> HIDE DEF part, chargedTo
  <2> QED
    BY <1>1, <1>2, <1>5, <2>1, <2>2, <2>3, DiscountCount DEF Count
<1> HIDE DEF inLane, chargedTo
<1>8. /\ \A k \in DOMAIN n.pairCounts : n.pairCounts[k] > 0
      /\ \A c \in DOMAIN n.credentialCounts : n.credentialCounts[c] > 0
  BY <1>1, <1>2, <1>5, DiscountCount
<1>9. DOMAIN n.messageCredential \subseteq Queued(n)
  BY <1>1, <1>2 DEF Without
<1> QED
  BY <1>6, <1>7, <1>8, <1>9 DEF CountersAgreeIn, n

\* Acks and tombstones are not counted.
LEMMA SameCounters ==
  ASSUME NEW s, CountersAgreeIn(s), NEW n, n.messages = s.messages,
         n.pairCounts = s.pairCounts, n.credentialCounts = s.credentialCounts,
         n.messageCredential = s.messageCredential
  PROVE  CountersAgreeIn(n)
BY DEF CountersAgreeIn, InLane, ChargedTo, Queued

-----------------------------------------------------------------------------
(***************************************************************************)
(* The tag bindings: how many records name a message, and the tag they     *)
(* established.                                                            *)
(***************************************************************************)
Records(tags, m) == IF m \in DOMAIN tags THEN tags[m].records ELSE 0

TagMap(tags) == IsMap(tags, MessageIDs, [tag : Tags \cup {None}, records : Nat])

HasTag(tags, m) == m \in DOMAIN tags /\ tags[m].tag # None

\* What binding a record to m makes of the bindings `tags`.
Bound(bound, tags, m, tag) ==
  /\ DOMAIN bound = DOMAIN tags \cup {m}
  /\ \A x : Records(bound, x) = IF x = m THEN Records(tags, x) + 1 ELSE Records(tags, x)
  /\ \A x \in DOMAIN tags \ {m} : bound[x] = tags[x]
  /\ bound[m].records > 0
  /\ HasTag(tags, m) => bound[m].tag = tags[m].tag
  /\ ~HasTag(tags, m) => bound[m].tag = tag

\* A record that arrives is counted, and its tag fills an empty binding.
LEMMA BindRecords ==
  ASSUME NEW tags, TagMap(tags), NEW m \in MessageIDs, NEW tag
  PROVE  Bound(bindMessageTag(tags, m, tag), tags, m, tag)
<1> DEFINE old == IF m \in DOMAIN tags THEN tags[m] ELSE [tag |-> None, records |-> 0]
           new == [tag |-> IF old.tag = None THEN tag ELSE old.tag,
                   records |-> old.records + 1]
           bound == bindMessageTag(tags, m, tag)
<1>1. /\ old.records \in Nat
      /\ old.records = Records(tags, m)
      /\ old.tag = IF m \in DOMAIN tags THEN tags[m].tag ELSE None
  BY DEF Records, TagMap, IsMap
<1>2. bound = Put(tags, m, new)
  BY DEF bindMessageTag
<1>3. /\ new.records = Records(tags, m) + 1 /\ new.records > 0
      /\ HasTag(tags, m) => new.tag = tags[m].tag
      /\ ~HasTag(tags, m) => new.tag = tag
  BY <1>1 DEF HasTag
<1> HIDE DEF old, new, bound
<1>4. /\ DOMAIN bound = DOMAIN tags \cup {m}
      /\ bound[m] = new
      /\ \A x \in DOMAIN tags \ {m} : bound[x] = tags[x]
  BY <1>2 DEF Put
<1>5. ASSUME NEW x
      PROVE  Records(bound, x) = IF x = m THEN Records(tags, x) + 1 ELSE Records(tags, x)
  BY <1>3, <1>4 DEF Records
<1>6. Bound(bound, tags, m, tag)
  BY <1>3, <1>4, <1>5 DEF Bound
<1> QED
  BY <1>6 DEF bound

\* Records that leave are discounted; a binding that stays keeps its tag.
LEMMA ReleaseRecords ==
  ASSUME NEW tags, TagMap(tags), NEW dropped \in [DOMAIN tags -> Nat]
  PROVE  LET left == releaseMessageTags(tags, dropped)
         IN  /\ \A x : Records(left, x) =
                  IF x \in DOMAIN tags /\ tags[x].records > dropped[x]
                  THEN tags[x].records - dropped[x] ELSE 0
             /\ \A x \in DOMAIN left : /\ x \in DOMAIN tags
                                       /\ left[x].tag = tags[x].tag
                                       /\ left[x].records > 0
BY DEF TagMap, IsMap, releaseMessageTags, Records

\* Inserting a new ack adds one record to the binding of its message.
LEMMA InsertAckBindings ==
  ASSUME NEW s, IsStore(s), BindingsAgreeIn(s), NEW a \in AckIDs, NEW e, NEW tag,
         a \notin DOMAIN s.acks
  PROVE  BindingsAgreeIn(insertAck(s, a, e, tag))
<1> DEFINE n == insertAck(s, a, e, tag)
           m == ackKey(a)
<1>0. InsertedAck(n, s, a, e, tag)
  BY InsertAckFields
<1> HIDE DEF n
<1>1. /\ n.messages = s.messages
      /\ DOMAIN n.acks = DOMAIN s.acks \cup {a}
      /\ n.messageTags = bindMessageTag(s.messageTags, m, tag)
      /\ TagMap(s.messageTags) /\ DOMAIN s.acks \in SUBSET AckIDs
      /\ m \in MessageIDs
  BY <1>0, Bodies DEF InsertedAck, Put, IsStore, IsMap, TagMap
<1> HIDE DEF m
<1>2. Bound(n.messageTags, s.messageTags, m, tag)
  BY <1>1, BindRecords
<1>3. ASSUME NEW x \in MessageIDs
      PROVE  Records(n.messageTags, x)
               = (IF x \in Queued(n) THEN 1 ELSE 0) + Cardinality(Naming(n, x))
  <2>1. Naming(s, x) \in SUBSET AckIDs /\ a \notin Naming(s, x)
    BY <1>1 DEF Naming
  <2>2. IsFiniteSet(Naming(s, x)) /\ Cardinality(Naming(s, x)) \in Nat
    BY <2>1, FiniteParts
  <2>3. Records(s.messageTags, x)
          = (IF x \in Queued(s) THEN 1 ELSE 0) + Cardinality(Naming(s, x))
    BY DEF BindingsAgreeIn, Records
  <2>4. CASE x = m
    <3>1. Naming(n, x) = Naming(s, x) \cup {a}
      BY <1>1, <2>4 DEF Naming, m
    <3>2. Cardinality(Naming(n, x)) = Cardinality(Naming(s, x)) + 1
      BY <2>1, <2>2, <3>1, FS_AddElement
    <3> QED
      BY <1>1, <1>2, <2>2, <2>3, <2>4, <3>2 DEF Queued, Bound
  <2>5. CASE x # m
    <3>1. Naming(n, x) = Naming(s, x)
      BY <1>1, <2>5 DEF Naming, m
    <3> QED
      BY <1>1, <1>2, <2>3, <2>5, <3>1 DEF Queued, Bound
  <2> QED
    BY <2>4, <2>5
<1>4. \A x \in DOMAIN n.messageTags : n.messageTags[x].records > 0
  BY <1>2 DEF BindingsAgreeIn, Bound
<1> QED
  BY <1>3, <1>4 DEF BindingsAgreeIn, Records, n

\* Queuing a message that is not queued adds one record to its binding.
LEMMA AddMessageBindings ==
  ASSUME NEW s, IsStore(s), BindingsAgreeIn(s), NEW m \in MessageIDs, NEW tag, NEW e,
         NEW c, m \notin DOMAIN s.messages
  PROVE  BindingsAgreeIn(addMessageLocked(s, m, tag, e, c))
<1> DEFINE n == addMessageLocked(s, m, tag, e, c)
<1>0. AddedMessage(n, s, m, tag, e, c)
  BY AddMessageFields
<1> HIDE DEF n
<1>1. /\ Queued(n) = Queued(s) \cup {m} /\ m \notin Queued(s)
      /\ n.acks = s.acks
      /\ n.messageTags = bindMessageTag(s.messageTags, m, tag)
      /\ TagMap(s.messageTags) /\ DOMAIN s.acks \in SUBSET AckIDs
  BY <1>0 DEF AddedMessage, Put, Queued, IsStore, IsMap, TagMap
<1>2. Bound(n.messageTags, s.messageTags, m, tag)
  BY <1>1, BindRecords
<1>3. ASSUME NEW x \in MessageIDs
      PROVE  Records(n.messageTags, x)
               = (IF x \in Queued(n) THEN 1 ELSE 0) + Cardinality(Naming(n, x))
  <2>1. Naming(s, x) \in SUBSET AckIDs /\ Naming(n, x) = Naming(s, x)
    BY <1>1 DEF Naming
  <2>2. Cardinality(Naming(s, x)) \in Nat
    BY <2>1, FiniteParts
  <2>3. Records(s.messageTags, x)
          = (IF x \in Queued(s) THEN 1 ELSE 0) + Cardinality(Naming(s, x))
    BY DEF BindingsAgreeIn, Records
  <2> QED
    BY <1>1, <1>2, <2>1, <2>2, <2>3 DEF Bound
<1>4. \A x \in DOMAIN n.messageTags : n.messageTags[x].records > 0
  BY <1>2 DEF BindingsAgreeIn, Bound
<1> QED
  BY <1>3, <1>4 DEF BindingsAgreeIn, Records, n

\* Deleted messages release one record each.
LEMMA DeleteMessagesBindings ==
  ASSUME NEW s, IsStore(s), BindingsAgreeIn(s), NEW ids
  PROVE  BindingsAgreeIn(deleteMessages(s, ids))
<1> DEFINE n == deleteMessages(s, ids)
           gone == ids \cap DOMAIN s.messages
           released == [m \in DOMAIN s.messageTags |-> IF m \in gone THEN 1 ELSE 0]
<1>0. DeletedMessages(n, s, gone)
  BY DeleteMessagesFields
<1> HIDE DEF n
<1>1. /\ Queued(n) = Queued(s) \ gone /\ gone \subseteq Queued(s)
      /\ n.acks = s.acks
      /\ n.messageTags = releaseMessageTags(s.messageTags, released)
      /\ TagMap(s.messageTags) /\ DOMAIN s.acks \in SUBSET AckIDs
  BY <1>0 DEF DeletedMessages, Without, Queued, IsStore, IsMap, TagMap
<1>2. released \in [DOMAIN s.messageTags -> Nat]
  OBVIOUS
<1>3. ASSUME NEW x \in MessageIDs
      PROVE  Records(n.messageTags, x)
               = (IF x \in Queued(n) THEN 1 ELSE 0) + Cardinality(Naming(n, x))
  <2>1. Naming(s, x) \in SUBSET AckIDs /\ Naming(n, x) = Naming(s, x)
    BY <1>1 DEF Naming
  <2>2. Cardinality(Naming(s, x)) \in Nat
    BY <2>1, FiniteParts
  <2>3. Records(s.messageTags, x)
          = (IF x \in Queued(s) THEN 1 ELSE 0) + Cardinality(Naming(s, x))
    BY DEF BindingsAgreeIn, Records
  <2>4. x \in DOMAIN s.messageTags => released[x] = IF x \in gone THEN 1 ELSE 0
    OBVIOUS
  <2> HIDE DEF released, gone
  <2>5. Records(n.messageTags, x) =
          IF x \in DOMAIN s.messageTags /\ s.messageTags[x].records > released[x]
          THEN s.messageTags[x].records - released[x] ELSE 0
    BY <1>1, <1>2, ReleaseRecords
  <2> QED
    BY <1>1, <2>1, <2>2, <2>3, <2>4, <2>5 DEF Records
<1> HIDE DEF released
<1>4. \A x \in DOMAIN n.messageTags : n.messageTags[x].records > 0
  BY <1>1, <1>2, ReleaseRecords
<1> QED
  BY <1>3, <1>4 DEF BindingsAgreeIn, Records, n

\* Deleted acks release one record each.
LEMMA DeleteAcksBindings ==
  ASSUME NEW s, IsStore(s), BindingsAgreeIn(s), NEW ids
  PROVE  BindingsAgreeIn(deleteAcks(s, ids))
<1> DEFINE n == deleteAcks(s, ids)
           gone == ids \cap DOMAIN s.acks
           naming(m) == {a \in gone : ackKey(a) = m}
           released == [m \in DOMAIN s.messageTags |-> Cardinality(naming(m))]
<1>0. DeletedAcks(n, s, gone)
  BY DeleteAcksFields
<1> HIDE DEF n
<1>1. /\ n.messages = s.messages
      /\ DOMAIN n.acks = DOMAIN s.acks \ gone
      /\ n.messageTags = releaseMessageTags(s.messageTags, released)
      /\ TagMap(s.messageTags) /\ DOMAIN s.acks \in SUBSET AckIDs
  BY <1>0 DEF DeletedAcks, Without, IsStore, IsMap, TagMap
<1>2. ASSUME NEW x
      PROVE  /\ naming(x) \in SUBSET Naming(s, x) /\ IsFiniteSet(Naming(s, x))
             /\ Naming(n, x) = Naming(s, x) \ naming(x)
             /\ Cardinality(naming(x)) \in Nat
  <2>1. naming(x) \in SUBSET AckIDs /\ Naming(s, x) \in SUBSET AckIDs
    BY <1>1 DEF Naming
  <2> QED
    BY <1>1, <2>1, FiniteParts DEF Naming
<1>3. released \in [DOMAIN s.messageTags -> Nat]
  BY <1>2
<1>4. ASSUME NEW x \in MessageIDs
      PROVE  Records(n.messageTags, x)
               = (IF x \in Queued(n) THEN 1 ELSE 0) + Cardinality(Naming(n, x))
  <2> DEFINE part == naming(x)
  <2>1. /\ Cardinality(Naming(n, x)) = Cardinality(Naming(s, x)) - Cardinality(part)
        /\ Cardinality(part) <= Cardinality(Naming(s, x))
        /\ Cardinality(Naming(s, x)) \in Nat /\ Cardinality(part) \in Nat
    BY <1>2, CardinalityMinus
  <2>2. Records(s.messageTags, x)
          = (IF x \in Queued(s) THEN 1 ELSE 0) + Cardinality(Naming(s, x))
    BY DEF BindingsAgreeIn, Records
  <2>3. x \in DOMAIN s.messageTags => released[x] = Cardinality(part)
    OBVIOUS
  <2> HIDE DEF released, part
  <2>4. Records(n.messageTags, x) =
          IF x \in DOMAIN s.messageTags /\ s.messageTags[x].records > released[x]
          THEN s.messageTags[x].records - released[x] ELSE 0
    BY <1>1, <1>3, ReleaseRecords
  <2> QED
    BY <1>1, <2>1, <2>2, <2>3, <2>4 DEF Records, Queued
<1> HIDE DEF released
<1>5. \A x \in DOMAIN n.messageTags : n.messageTags[x].records > 0
  BY <1>1, <1>3, ReleaseRecords
<1> QED
  BY <1>4, <1>5 DEF BindingsAgreeIn, Records, n

-----------------------------------------------------------------------------
(***************************************************************************)
(* The tag a message demands a proof of.                                   *)
(***************************************************************************)
\* Whatever a record names is bound.
LEMMA NamedIsBound ==
  ASSUME NEW s, IsStore(s), BindingsAgreeIn(s)
  PROVE  /\ Queued(s) \subseteq DOMAIN s.messageTags
         /\ \A a \in DOMAIN s.acks : ackKey(a) \in DOMAIN s.messageTags
<1>1. DOMAIN s.acks \in SUBSET AckIDs /\ Queued(s) \in SUBSET MessageIDs
  BY DEF IsStore, IsMap, Queued
<1>2. ASSUME NEW m \in MessageIDs
      PROVE  /\ Cardinality(Naming(s, m)) \in Nat
             /\ Cardinality(Naming(s, m)) = 0 => Naming(s, m) = {}
  <2>1. Naming(s, m) \in SUBSET AckIDs
    BY <1>1 DEF Naming
  <2>2. IsFiniteSet(Naming(s, m)) /\ Cardinality(Naming(s, m)) \in Nat
    BY <2>1, FiniteParts
  <2> QED
    BY <2>2, FS_EmptySet
<1>3. ASSUME NEW m \in Queued(s) PROVE m \in DOMAIN s.messageTags
  BY <1>1, <1>2 DEF BindingsAgreeIn
<1>4. ASSUME NEW a \in DOMAIN s.acks PROVE ackKey(a) \in DOMAIN s.messageTags
  <2>1. ackKey(a) \in MessageIDs /\ a \in Naming(s, ackKey(a))
    BY <1>1, Bodies DEF Naming
  <2> QED
    BY <1>2, <2>1 DEF BindingsAgreeIn
<1> QED
  BY <1>3, <1>4

\* What a new record makes of the tag to prove: the first one brought stays.
LEMMA BindBoundTo ==
  ASSUME NEW s, NEW n, TagMap(s.messageTags), NEW m \in MessageIDs, NEW tag,
         n.messageTags = bindMessageTag(s.messageTags, m, tag)
  PROVE  /\ BoundTo(n, m) = IF BoundTo(s, m) # None THEN BoundTo(s, m) ELSE tag
         /\ \A x : x # m => BoundTo(n, x) = BoundTo(s, x)
<1>1. Bound(n.messageTags, s.messageTags, m, tag)
  BY BindRecords
<1> QED
  BY <1>1 DEF Bound, HasTag, BoundTo

\* The bindings of n are bindings of s, with the same tags.
Released(n, s) ==
  \A m \in DOMAIN n.messageTags : m \in DOMAIN s.messageTags /\ BoundTo(n, m) = BoundTo(s, m)

\* Deleting messages changes the tag of no binding that stays.
LEMMA DeleteMessagesReleases ==
  ASSUME NEW s, IsStore(s), NEW ids
  PROVE  Released(deleteMessages(s, ids), s)
<1> DEFINE n == deleteMessages(s, ids)
           gone == ids \cap DOMAIN s.messages
           released == [m \in DOMAIN s.messageTags |-> IF m \in gone THEN 1 ELSE 0]
<1>0. DeletedMessages(n, s, gone)
  BY DeleteMessagesFields
<1> HIDE DEF n
<1>1. n.messageTags = releaseMessageTags(s.messageTags, released) /\ TagMap(s.messageTags)
  BY <1>0 DEF DeletedMessages, IsStore, TagMap
<1>2. released \in [DOMAIN s.messageTags -> Nat]
  OBVIOUS
<1> HIDE DEF released
<1>3. Released(n, s)
  BY <1>1, <1>2, ReleaseRecords DEF Released, BoundTo
<1> QED
  BY <1>3 DEF n

\* Deleting acks changes the tag of no binding that stays.
LEMMA DeleteAcksReleases ==
  ASSUME NEW s, IsStore(s), NEW ids
  PROVE  Released(deleteAcks(s, ids), s)
<1> DEFINE n == deleteAcks(s, ids)
           gone == ids \cap DOMAIN s.acks
           naming(m) == {a \in gone : ackKey(a) = m}
           released == [m \in DOMAIN s.messageTags |-> Cardinality(naming(m))]
<1>0. DeletedAcks(n, s, gone)
  BY DeleteAcksFields
<1> HIDE DEF n
<1>1. /\ n.messageTags = releaseMessageTags(s.messageTags, released)
      /\ TagMap(s.messageTags) /\ gone \in SUBSET AckIDs
  BY <1>0 DEF DeletedAcks, IsStore, IsMap, TagMap
<1>2. released \in [DOMAIN s.messageTags -> Nat]
  <2>1. ASSUME NEW m PROVE Cardinality(naming(m)) \in Nat
    <3>1. naming(m) \in SUBSET AckIDs
      BY <1>1
    <3> QED
      BY <3>1, FiniteParts
  <2> QED
    BY <2>1
<1> HIDE DEF released
<1>3. Released(n, s)
  BY <1>1, <1>2, ReleaseRecords DEF Released, BoundTo
<1> QED
  BY <1>3 DEF n

\* An ack that carries a tag leaves its message bound to one.
LEMMA InsertAckTags ==
  ASSUME NEW s, IsStore(s), TagsBoundIn(s), NEW a \in AckIDs, NEW e, NEW tag
  PROVE  TagsBoundIn(insertAck(s, a, e, tag))
<1> DEFINE n == insertAck(s, a, e, tag)
<1>0. InsertedAck(n, s, a, e, tag)
  BY InsertAckFields
<1> HIDE DEF n
<1>1. /\ Queued(n) = Queued(s) /\ n.stamps = s.stamps
      /\ DOMAIN n.acks = DOMAIN s.acks \cup {a}
      /\ n.acks[a] = [expiresAt |-> e, tag |-> tag]
      /\ \A b \in DOMAIN s.acks \ {a} : n.acks[b] = s.acks[b]
  BY <1>0 DEF InsertedAck, Put, Queued
<1>2. n.acks[a].tag = tag
  BY <1>1
<1>3. /\ n.messageTags = bindMessageTag(s.messageTags, ackKey(a), tag)
      /\ TagMap(s.messageTags) /\ ackKey(a) \in MessageIDs
  BY <1>0, Bodies DEF InsertedAck, IsStore, TagMap
<1>4. /\ BoundTo(n, ackKey(a)) = IF BoundTo(s, ackKey(a)) # None
                                 THEN BoundTo(s, ackKey(a)) ELSE tag
      /\ \A x : x # ackKey(a) => BoundTo(n, x) = BoundTo(s, x)
  BY <1>3, BindBoundTo
<1>5. TagsBoundIn(n)
  BY <1>1, <1>2, <1>4 DEF TagsBoundIn
<1> QED
  BY <1>5 DEF n

\* A message that carries a tag leaves its id bound to one.
LEMMA AddMessageTags ==
  ASSUME NEW s, IsStore(s), TagsBoundIn(s), NEW m \in MessageIDs, NEW tag, NEW e, NEW c
  PROVE  TagsBoundIn(addMessageLocked(s, m, tag, e, c))
<1> DEFINE n == addMessageLocked(s, m, tag, e, c)
<1>0. AddedMessage(n, s, m, tag, e, c)
  BY AddMessageFields
<1> HIDE DEF n
<1>1. /\ Queued(n) = Queued(s) \cup {m} /\ DOMAIN s.stamps = Queued(s)
      /\ n.stamps[m] = tag /\ \A x \in Queued(s) \ {m} : n.stamps[x] = s.stamps[x]
      /\ n.acks = s.acks
  BY <1>0 DEF AddedMessage, Put, IsStore, Queued
<1>2. n.messageTags = bindMessageTag(s.messageTags, m, tag) /\ TagMap(s.messageTags)
  BY <1>0 DEF AddedMessage, IsStore, TagMap
<1>3. /\ BoundTo(n, m) = IF BoundTo(s, m) # None THEN BoundTo(s, m) ELSE tag
      /\ \A x : x # m => BoundTo(n, x) = BoundTo(s, x)
  BY <1>2, BindBoundTo
<1>4. TagsBoundIn(n)
  BY <1>1, <1>3 DEF TagsBoundIn
<1> QED
  BY <1>4 DEF n

\* A deletion leaves the records that stay with their bindings.
LEMMA ReleasedTags ==
  ASSUME NEW s, TagsBoundIn(s), NEW n, IsStore(n), BindingsAgreeIn(n), Released(n, s),
         Queued(n) \subseteq Queued(s), \A m \in Queued(n) : n.stamps[m] = s.stamps[m],
         DOMAIN n.acks \subseteq DOMAIN s.acks, \A a \in DOMAIN n.acks : n.acks[a] = s.acks[a]
  PROVE  TagsBoundIn(n)
BY NamedIsBound DEF TagsBoundIn, Released

\* Deleting messages leaves every id that carries a tag bound to one.
LEMMA DeleteMessagesTags ==
  ASSUME NEW s, IsStore(s), BindingsAgreeIn(s), TagsBoundIn(s), NEW ids
  PROVE  TagsBoundIn(deleteMessages(s, ids))
<1> DEFINE n == deleteMessages(s, ids)
<1>0. DeletedMessages(n, s, ids \cap DOMAIN s.messages)
  BY DeleteMessagesFields
<1>1. IsStore(n) /\ BindingsAgreeIn(n) /\ Released(n, s)
  BY DeleteMessagesType, DeleteMessagesBindings, DeleteMessagesReleases
<1> HIDE DEF n
<1>2. /\ Queued(n) \subseteq Queued(s) /\ \A m \in Queued(n) : n.stamps[m] = s.stamps[m]
      /\ n.acks = s.acks
  BY <1>0 DEF DeletedMessages, Without, Queued, IsStore
<1>3. TagsBoundIn(n)
  BY <1>1, <1>2, ReleasedTags
<1> QED
  BY <1>3 DEF n

\* Deleting acks leaves every id that carries a tag bound to one.
LEMMA DeleteAcksTags ==
  ASSUME NEW s, IsStore(s), BindingsAgreeIn(s), TagsBoundIn(s), NEW ids
  PROVE  TagsBoundIn(deleteAcks(s, ids))
<1> DEFINE n == deleteAcks(s, ids)
<1>0. DeletedAcks(n, s, ids \cap DOMAIN s.acks)
  BY DeleteAcksFields
<1>1. IsStore(n) /\ BindingsAgreeIn(n) /\ Released(n, s)
  BY DeleteAcksType, DeleteAcksBindings, DeleteAcksReleases
<1> HIDE DEF n
<1>2. /\ Queued(n) = Queued(s) /\ n.stamps = s.stamps
      /\ DOMAIN n.acks \subseteq DOMAIN s.acks
      /\ \A a \in DOMAIN n.acks : n.acks[a] = s.acks[a]
  BY <1>0 DEF DeletedAcks, Without, Queued
<1>3. TagsBoundIn(n)
  BY <1>1, <1>2, ReleasedTags
<1> QED
  BY <1>3 DEF n

-----------------------------------------------------------------------------
(***************************************************************************)
(* All of the bookkeeping.                                                 *)
(***************************************************************************)
Books(s) ==
  /\ Sound(s)
  /\ CountersAgreeIn(s)
  /\ BindingsAgreeIn(s)
  /\ TagsBoundIn(s)

\* The books of the empty store are in order.
LEMMA NewStoreBooks == Books(NewStore)
<1>1. /\ NewStore.messages = EmptyMap /\ NewStore.acks = EmptyMap
      /\ NewStore.pairCounts = EmptyMap /\ NewStore.credentialCounts = EmptyMap
      /\ NewStore.messageCredential = EmptyMap /\ NewStore.messageTags = EmptyMap
  BY DEF NewStore
<1>2. DOMAIN EmptyMap = {} /\ Cardinality({}) = 0
  BY FS_EmptySet DEF EmptyMap
<1>3. /\ \A k : InLane(NewStore, k) = {} /\ ChargedTo(NewStore, k) = {}
      /\ \A m : Naming(NewStore, m) = {}
  BY <1>1, <1>2 DEF InLane, ChargedTo, Naming, Queued
<1>4. CountersAgreeIn(NewStore)
  BY <1>1, <1>2, <1>3 DEF CountersAgreeIn, Queued, Count
<1>5. BindingsAgreeIn(NewStore)
  <2>1. /\ DOMAIN NewStore.messageTags = {} /\ Queued(NewStore) = {}
        /\ \A m : Cardinality(Naming(NewStore, m)) = 0
    BY <1>1, <1>2, <1>3 DEF Queued
  <2> QED
    BY <2>1 DEF BindingsAgreeIn
<1>6. TagsBoundIn(NewStore)
  BY <1>1, <1>2 DEF TagsBoundIn, Queued
<1> QED
  BY <1>4, <1>5, <1>6, NewStoreSound DEF Books

\* A new ack keeps the books.
LEMMA InsertAckBooks ==
  ASSUME NEW s, Books(s), NEW a \in AckIDs, NEW e \in Nat,
         NEW tag \in Tags \cup {None}, a \notin DOMAIN s.acks
  PROVE  Books(insertAck(s, a, e, tag))
<1> DEFINE n == insertAck(s, a, e, tag)
<1>2. InsertedAck(n, s, a, e, tag)
  BY InsertAckFields DEF Books, Sound
<1>3. Sound(n) /\ BindingsAgreeIn(n) /\ TagsBoundIn(n)
  BY InsertAckSound, InsertAckBindings, InsertAckTags DEF Books, Sound
<1> HIDE DEF n
<1>4. CountersAgreeIn(n)
  BY <1>2, SameCounters DEF InsertedAck, Books
<1> QED
  BY <1>3, <1>4 DEF Books, n

\* A new message keeps the books.
LEMMA AddMessageBooks ==
  ASSUME NEW s, Books(s), NEW m \in MessageIDs, NEW tag \in Tags \cup {None},
         NEW e \in Nat, NEW c \in Callers, m \notin DOMAIN s.messages
  PROVE  Books(addMessageLocked(s, m, tag, e, c))
BY AddMessageSound, AddMessageCounters, AddMessageBindings, AddMessageTags
   DEF Books, Sound

\* Deleting messages keeps the books.
LEMMA DeleteMessagesBooks ==
  ASSUME NEW s, Books(s), NEW ids
  PROVE  Books(deleteMessages(s, ids))
BY DeleteMessagesSound, DeleteMessagesCounters, DeleteMessagesBindings,
   DeleteMessagesTags DEF Books, Sound

\* Deleting acks keeps the books.
LEMMA DeleteAcksBooks ==
  ASSUME NEW s, Books(s), NEW ids
  PROVE  Books(deleteAcks(s, ids))
<1> DEFINE n == deleteAcks(s, ids)
<1>1. DeletedAcks(n, s, ids \cap DOMAIN s.acks)
  BY DeleteAcksFields DEF Books, Sound
<1>2. Sound(n) /\ BindingsAgreeIn(n) /\ TagsBoundIn(n)
  BY DeleteAcksSound, DeleteAcksBindings, DeleteAcksTags DEF Books, Sound
<1> HIDE DEF n
<1>3. CountersAgreeIn(n)
  BY <1>1, SameCounters DEF DeletedAcks, Books
<1> QED
  BY <1>2, <1>3 DEF Books, n

\* A new tombstone map keeps the books.
LEMMA PurgesBooks ==
  ASSUME NEW s, Books(s), NEW purges, IsMap(purges, PurgeHashes, Nat)
  PROVE  Books([s EXCEPT !.purges = purges])
<1> DEFINE n == [s EXCEPT !.purges = purges]
<1>1. NewPurges(n, s, purges) /\ Sound(n)
  BY PurgesFields, PurgesSound DEF Books, Sound
<1> HIDE DEF n
<1>2. /\ n.messages = s.messages /\ n.stamps = s.stamps /\ n.acks = s.acks
      /\ n.pairCounts = s.pairCounts /\ n.credentialCounts = s.credentialCounts
      /\ n.messageCredential = s.messageCredential /\ n.messageTags = s.messageTags
  BY <1>1 DEF NewPurges, Fields
<1>3. CountersAgreeIn(n) /\ BindingsAgreeIn(n) /\ TagsBoundIn(n)
  BY <1>2, SameCounters DEF Books, BindingsAgreeIn, TagsBoundIn, BoundTo, Naming, Queued
<1> QED
  BY <1>1, <1>3 DEF Books, n

-----------------------------------------------------------------------------
(***************************************************************************)
(* What a deletion can only relax: quotas, windows and the caps on         *)
(* records.                                                                *)
(***************************************************************************)
Restricts(f, g) == DOMAIN f \subseteq DOMAIN g /\ \A x \in DOMAIN f : f[x] = g[x]

Shrunk(n, s) ==
  /\ Restricts(n.messages, s.messages)
  /\ Restricts(n.acks, s.acks)
  /\ Restricts(n.messageCredential, s.messageCredential)

LanesFit(s) ==
  /\ Cardinality(Queued(s)) <= MaxMessages
  /\ Cardinality(DOMAIN s.acks) <= maxAcks
  /\ Cardinality(DOMAIN s.acks \ OwnAcks) <= externalAckCapacity

Allowed(s, t) == QuotasHoldIn(s) /\ WindowsHoldIn(s, t) /\ LanesFit(s)

\* Fewer records stay within what was allowed.
LEMMA ShrunkAllowed ==
  ASSUME NEW s, Books(s), NEW n, Books(n), Shrunk(n, s), NEW t, Allowed(s, t)
  PROVE  Allowed(n, t)
<1>1. /\ Queued(s) \in SUBSET MessageIDs /\ DOMAIN s.acks \in SUBSET AckIDs
      /\ DOMAIN s.messageCredential \subseteq Queued(s)
      /\ DOMAIN n.messageCredential \subseteq Queued(n)
      /\ Queued(n) \subseteq Queued(s)
      /\ DOMAIN n.acks \subseteq DOMAIN s.acks
  BY DEF Books, Sound, IsStore, IsMap, Queued, CountersAgreeIn, Shrunk, Restricts
<1>2. IsFiniteSet(MessageIDs) /\ IsFiniteSet(AckIDs)
  BY QueueConstants
<1>3. IsFiniteSet(Queued(s)) /\ IsFiniteSet(DOMAIN s.acks)
  BY <1>1, FiniteParts
<1>4. QuotasHoldIn(n)
  <2>1. ASSUME NEW c \in Credentials
        PROVE  Cardinality(ChargedTo(n, c)) <= lowerOf(MaxMessages, TermsOf[c].slots)
    <3>1. ChargedTo(n, c) \subseteq ChargedTo(s, c) /\ ChargedTo(s, c) \in SUBSET MessageIDs
      BY <1>1 DEF ChargedTo, Shrunk, Restricts
    <3>2. /\ Cardinality(ChargedTo(n, c)) <= Cardinality(ChargedTo(s, c))
          /\ Cardinality(ChargedTo(s, c)) \in Nat /\ Cardinality(ChargedTo(n, c)) \in Nat
      BY <3>1, FiniteParts, CardinalityPart
    <3>3. lowerOf(MaxMessages, TermsOf[c].slots) \in Nat
      BY TermsType, LowerOf, QueueConstants DEF Callers
    <3> QED
      BY <3>2, <3>3 DEF Allowed, QuotasHoldIn
  <2>2. ASSUME NEW c \in Credentials, NEW k \in Lanes
        PROVE  Cardinality(ChargedTo(n, c) \cap InLane(n, k))
                 <= lowerOf(MaxPerPair, TermsOf[c].maxPerPair)
    <3> DEFINE S == ChargedTo(s, c) \cap InLane(s, k)
               T == ChargedTo(n, c) \cap InLane(n, k)
    <3>1. T \subseteq S /\ S \in SUBSET MessageIDs
      BY <1>1 DEF ChargedTo, InLane, Shrunk, Restricts
    <3> HIDE DEF S, T
    <3>2. /\ Cardinality(T) <= Cardinality(S)
          /\ Cardinality(S) \in Nat /\ Cardinality(T) \in Nat
      BY <3>1, FiniteParts, CardinalityPart
    <3>3. lowerOf(MaxPerPair, TermsOf[c].maxPerPair) \in Nat
      BY TermsType, LowerOf, QueueConstants DEF Callers
    <3>4. Cardinality(S) <= lowerOf(MaxPerPair, TermsOf[c].maxPerPair)
      BY DEF S, Allowed, QuotasHoldIn
    <3>5. Cardinality(T) <= lowerOf(MaxPerPair, TermsOf[c].maxPerPair)
      BY <3>2, <3>3, <3>4
    <3> QED
      BY <3>5 DEF T
  <2> QED
    BY <2>1, <2>2 DEF QuotasHoldIn
<1>5. WindowsHoldIn(n, t)
  BY <1>1 DEF Allowed, WindowsHoldIn, Shrunk, Restricts, Queued
<1>6. LanesFit(n)
  <2>1. /\ Cardinality(Queued(n)) <= Cardinality(Queued(s))
        /\ Cardinality(Queued(n)) \in Nat /\ Cardinality(Queued(s)) \in Nat
        /\ Cardinality(DOMAIN n.acks) <= Cardinality(DOMAIN s.acks)
        /\ Cardinality(DOMAIN n.acks) \in Nat /\ Cardinality(DOMAIN s.acks) \in Nat
    BY <1>1, <1>3, CardinalityPart
  <2>2. /\ Cardinality(DOMAIN n.acks \ OwnAcks) <= Cardinality(DOMAIN s.acks \ OwnAcks)
        /\ Cardinality(DOMAIN n.acks \ OwnAcks) \in Nat
        /\ Cardinality(DOMAIN s.acks \ OwnAcks) \in Nat
    <3>1. IsFiniteSet(DOMAIN s.acks \ OwnAcks)
      BY <1>3, FS_Difference
    <3>2. DOMAIN n.acks \ OwnAcks \subseteq DOMAIN s.acks \ OwnAcks
      BY <1>1
    <3> QED
      BY <3>1, <3>2, CardinalityPart
  <2> QED
    BY <2>1, <2>2, QueueConstants DEF Allowed, LanesFit, maxAcks, externalAckCapacity
<1> QED
  BY <1>4, <1>5, <1>6 DEF Allowed

\* Deleting messages only shrinks the store.
LEMMA DeleteMessagesShrinks ==
  ASSUME NEW s, IsStore(s), NEW ids
  PROVE  LET n == deleteMessages(s, ids)
         IN  Shrunk(n, s) /\ n.acks = s.acks /\ n.purges = s.purges
<1> DEFINE n == deleteMessages(s, ids)
<1>1. DeletedMessages(n, s, ids \cap DOMAIN s.messages)
  BY DeleteMessagesFields
<1> HIDE DEF n
<1>2. Shrunk(n, s) /\ n.acks = s.acks /\ n.purges = s.purges
  BY <1>1 DEF DeletedMessages, Shrunk, Restricts, Without
<1> QED
  BY <1>2 DEF n

\* Deleting acks only shrinks the store.
LEMMA DeleteAcksShrinks ==
  ASSUME NEW s, IsStore(s), NEW ids
  PROVE  LET n == deleteAcks(s, ids)
         IN  /\ Shrunk(n, s) /\ n.messages = s.messages /\ n.purges = s.purges
             /\ DOMAIN n.acks = DOMAIN s.acks \ ids
<1> DEFINE n == deleteAcks(s, ids)
<1>1. DeletedAcks(n, s, ids \cap DOMAIN s.acks)
  BY DeleteAcksFields
<1> HIDE DEF n
<1>2. /\ Shrunk(n, s) /\ n.messages = s.messages /\ n.purges = s.purges
      /\ DOMAIN n.acks = DOMAIN s.acks \ ids
  BY <1>1 DEF DeletedAcks, Shrunk, Restricts, Without
<1> QED
  BY <1>2 DEF n

\* Shrinking twice is shrinking.
LEMMA ShrunkTwice ==
  ASSUME NEW s, NEW mid, NEW n, Shrunk(mid, s), Shrunk(n, mid)
  PROVE  Shrunk(n, s)
BY DEF Shrunk, Restricts

\* A purge removes the owner's messages and the acks that name them.
LEMMA PurgeOwnerShrinks ==
  ASSUME NEW s, Books(s), NEW h \in PurgeHashes
  PROVE  LET n == purgeOwnerLocked(s, h)
             owned == {m \in Queued(s) : purgeKey(m) = h}
         IN  /\ Books(n) /\ Shrunk(n, s) /\ n.purges = s.purges
             /\ Queued(n) = Queued(s) \ owned
             /\ DOMAIN n.acks = {a \in DOMAIN s.acks : ackKey(a) \notin owned}
<1> DEFINE owned == IF h \in DOMAIN s.messagesByPurge THEN s.messagesByPurge[h] ELSE {}
           naming == {a \in AckIDs : /\ ackKey(a) \in owned \cap DOMAIN s.acksByMessage
                                     /\ a \in s.acksByMessage[ackKey(a)]}
           mid == deleteMessages(s, owned)
           n == deleteAcks(mid, naming)
<1>1. owned = {m \in Queued(s) : purgeKey(m) = h}
  BY DEF Books, Sound, IndexesAgreeIn
<1> HIDE DEF owned
<1>2. naming = {a \in DOMAIN s.acks : ackKey(a) \in owned}
  <2>1. /\ DOMAIN s.acks \in SUBSET AckIDs
        /\ \A a \in AckIDs : ackKey(a) \in MessageIDs
    BY Bodies DEF Books, Sound, IsStore, IsMap
  <2>2. ASSUME NEW a \in AckIDs
        PROVE  (ackKey(a) \in DOMAIN s.acksByMessage /\ a \in s.acksByMessage[ackKey(a)])
                 <=> a \in DOMAIN s.acks
    <3>1. (IF ackKey(a) \in DOMAIN s.acksByMessage THEN s.acksByMessage[ackKey(a)] ELSE {})
            = Naming(s, ackKey(a))
      BY <2>1 DEF Books, Sound, IndexesAgreeIn
    <3> QED
      BY <3>1 DEF Naming
  <2> QED
    BY <2>1, <2>2
<1> HIDE DEF naming
<1>3. /\ Books(mid) /\ Shrunk(mid, s) /\ mid.purges = s.purges
      /\ Queued(mid) = Queued(s) \ owned /\ mid.acks = s.acks
  BY DeleteMessagesBooks, DeleteMessagesShrinks, DeleteMessagesHeld DEF Books, Sound
<1> HIDE DEF mid
<1>4. /\ Books(n) /\ Shrunk(n, mid) /\ n.purges = mid.purges
      /\ n.messages = mid.messages /\ DOMAIN n.acks = DOMAIN mid.acks \ naming
  BY <1>3, DeleteAcksBooks, DeleteAcksShrinks DEF Books, Sound
<1>5. purgeOwnerLocked(s, h) = n
  BY DEF purgeOwnerLocked, n, mid, naming, owned
<1> HIDE DEF n
<1>6. Shrunk(n, s)
  BY <1>3, <1>4, ShrunkTwice
<1>7. /\ Queued(n) = Queued(s) \ owned
      /\ DOMAIN n.acks = {a \in DOMAIN s.acks : ackKey(a) \notin owned}
  BY <1>2, <1>3, <1>4 DEF Queued
<1> QED
  BY <1>1, <1>3, <1>4, <1>5, <1>6, <1>7

\* A tombstone is recorded, or there is no room for it; the rest stays.
LEMMA StorePurgeBooks ==
  ASSUME NEW s, Books(s), NEW h \in PurgeHashes, NEW e \in Nat
  PROVE  LET n == storePurgeLocked(s, h, e)
         IN  /\ Books(n)
             /\ n.messages = s.messages /\ n.acks = s.acks
             /\ n.messageCredential = s.messageCredential
             /\ \/ n.purges = s.purges
                \/ /\ n.purges = Put(s.purges, h, e)
                   /\ h \notin DOMAIN s.purges => ~(Cardinality(DOMAIN s.purges) >= MaxPurges)
<1> DEFINE n == [s EXCEPT !.purges = Put(s.purges, h, e)]
<1>1. IsMap(Put(s.purges, h, e), PurgeHashes, Nat)
  BY PutMap DEF Books, Sound, IsStore
<1>2. Books(n) /\ NewPurges(n, s, Put(s.purges, h, e))
  BY <1>1, PurgesBooks, PurgesFields DEF Books, Sound
<1> HIDE DEF n
<1>3. /\ n.messages = s.messages /\ n.acks = s.acks
      /\ n.messageCredential = s.messageCredential
      /\ n.purges = Put(s.purges, h, e)
  BY <1>2 DEF NewPurges, Fields
<1>4. \/ storePurgeLocked(s, h, e) = s
      \/ /\ storePurgeLocked(s, h, e) = n
         /\ h \notin DOMAIN s.purges => ~(Cardinality(DOMAIN s.purges) >= MaxPurges)
  BY DEF storePurgeLocked, n
<1> QED
  BY <1>2, <1>3, <1>4

-----------------------------------------------------------------------------
(***************************************************************************)
(* Insertions.                                                             *)
(***************************************************************************)
\* An ack that fits its part of the lane and its window is allowed.
LEMMA InsertAckAllowed ==
  ASSUME NEW s, Books(s), NEW a \in AckIDs, NEW e \in Nat, NEW tag, NEW t \in Nat,
         Allowed(s, t), e <= t + MaxTTL,
         \/ a \in OwnAcks /\ Cardinality(DOMAIN s.acks) < maxAcks
         \/ Cardinality(DOMAIN s.acks) < externalAckCapacity
  PROVE  Allowed(insertAck(s, a, e, tag), t)
<1> DEFINE n == insertAck(s, a, e, tag)
           S == DOMAIN s.acks
<1>1. InsertedAck(n, s, a, e, tag)
  BY InsertAckFields DEF Books, Sound
<1> HIDE DEF n
<1>2. /\ n.messages = s.messages /\ n.messageCredential = s.messageCredential
      /\ DOMAIN n.acks = S \cup {a}
      /\ n.acks[a] = [expiresAt |-> e, tag |-> tag]
      /\ \A b \in S \ {a} : n.acks[b] = s.acks[b]
  BY <1>1 DEF InsertedAck, Put
<1>3. n.acks[a].expiresAt = e
  BY <1>2
<1>4. QuotasHoldIn(n)
  BY <1>2 DEF Allowed, QuotasHoldIn, ChargedTo, InLane, Queued
<1>5. WindowsHoldIn(n, t)
  BY <1>2, <1>3 DEF Allowed, WindowsHoldIn, Queued
<1>6. LanesFit(n)
  <2>1. S \in SUBSET AckIDs
    BY DEF Books, Sound, IsStore, IsMap
  <2>2. /\ IsFiniteSet(S) /\ Cardinality(S) \in Nat
        /\ IsFiniteSet(S \ OwnAcks) /\ Cardinality(S \ OwnAcks) \in Nat
        /\ Cardinality(S \ OwnAcks) <= Cardinality(S)
    <3>1. IsFiniteSet(S) /\ S \ OwnAcks \subseteq S
      BY <2>1, FiniteParts
    <3> QED
      BY <3>1, CardinalityPart
  <2> HIDE DEF S
  <2>3. Cardinality(S \cup {a}) = IF a \in S THEN Cardinality(S) ELSE Cardinality(S) + 1
    BY <2>2, FS_AddElement
  <2>4. Cardinality((S \cup {a}) \ OwnAcks) <= externalAckCapacity
    <3>1. CASE a \in OwnAcks
      <4>1. (S \cup {a}) \ OwnAcks = S \ OwnAcks
        BY <3>1
      <4> QED
        BY <4>1 DEF Allowed, LanesFit, S
    <3>2. CASE a \notin OwnAcks
      <4>1. (S \cup {a}) \ OwnAcks = (S \ OwnAcks) \cup {a}
        BY <3>2
      <4>2. Cardinality((S \ OwnAcks) \cup {a})
              = IF a \in S \ OwnAcks THEN Cardinality(S \ OwnAcks)
                ELSE Cardinality(S \ OwnAcks) + 1
        BY <2>2, FS_AddElement
      <4>3. Cardinality(S) < externalAckCapacity
        BY <3>2 DEF S
      <4> QED
        BY <2>2, <4>1, <4>2, <4>3, LaneSizes
    <3> QED
      BY <3>1, <3>2
  <2>5. Cardinality(S) < maxAcks
    BY <2>2, LaneSizes DEF S
  <2>6. Cardinality(S \cup {a}) <= maxAcks
    BY <2>2, <2>3, <2>5, LaneSizes
  <2>7. DOMAIN n.acks = S \cup {a} /\ Queued(n) = Queued(s)
    BY <1>2 DEF Queued, S
  <2> QED
    BY <2>4, <2>6, <2>7 DEF LanesFit, Allowed
<1> QED
  BY <1>4, <1>5, <1>6 DEF Allowed, n

\* A message that its caller's terms have room for is allowed.
LEMMA AddMessageAllowed ==
  ASSUME NEW s, Books(s), NEW m \in MessageIDs, NEW tag \in Tags \cup {None},
         NEW e \in Nat, NEW c \in Callers, NEW t \in Nat, Allowed(s, t), m \notin DOMAIN s.messages,
         e <= t + lowerOf(MaxTTL, TermsOf[c].retention),
         ~(Cardinality(DOMAIN s.messages) >= MaxMessages),
         c # NoCredential =>
           /\ ~(Count(s.pairCounts, pairKey(m)) >= lowerOf(MaxPerPair, TermsOf[c].maxPerPair))
           /\ ~(Count(s.credentialCounts, c) >= lowerOf(MaxMessages, TermsOf[c].slots))
  PROVE  Allowed(addMessageLocked(s, m, tag, e, c), t)
<1> DEFINE n == addMessageLocked(s, m, tag, e, c)
<1>0. AddedMessage(n, s, m, tag, e, c) /\ Books(n)
  BY AddMessageFields, AddMessageBooks DEF Books, Sound
<1> HIDE DEF n
<1>1. /\ DOMAIN n.messages = DOMAIN s.messages \cup {m} /\ n.messages[m] = e
      /\ \A x \in DOMAIN s.messages \ {m} : n.messages[x] = s.messages[x]
      /\ n.acks = s.acks
  BY <1>0 DEF AddedMessage, Put
<1>2. /\ c = NoCredential => n.messageCredential = s.messageCredential
      /\ c # NoCredential =>
           /\ DOMAIN n.messageCredential = DOMAIN s.messageCredential \cup {m}
           /\ n.messageCredential[m] = c
           /\ \A x \in DOMAIN s.messageCredential \ {m} :
                n.messageCredential[x] = s.messageCredential[x]
  BY <1>0 DEF AddedMessage, Put
<1>3. /\ Queued(s) \in SUBSET MessageIDs
      /\ DOMAIN s.messageCredential \subseteq Queued(s)
      /\ m \notin Queued(s) /\ m \notin DOMAIN s.messageCredential
      /\ Queued(n) = Queued(s) \cup {m}
  BY <1>1 DEF Books, Sound, IsStore, IsMap, CountersAgreeIn, Queued
<1>4. /\ MaxTTL \in Nat /\ MaxMessages \in Nat
      /\ lowerOf(MaxTTL, TermsOf[c].retention) \in Nat
      /\ lowerOf(MaxTTL, TermsOf[c].retention) <= MaxTTL
      /\ lowerOf(MaxPerPair, TermsOf[c].maxPerPair) \in Nat
      /\ lowerOf(MaxMessages, TermsOf[c].slots) \in Nat
  BY TermsType, LowerOf, QueueConstants
<1>5. WindowsHoldIn(n, t)
  <2>1. \A x \in Queued(n) : n.messages[x] <= t + MaxTTL
    BY <1>1, <1>3, <1>4 DEF Allowed, WindowsHoldIn, Queued
  <2>2. \A a \in DOMAIN n.acks : n.acks[a].expiresAt <= t + MaxTTL
    BY <1>1 DEF Allowed, WindowsHoldIn
  <2>3. ASSUME NEW x \in DOMAIN n.messageCredential
        PROVE  n.messages[x] <= t + lowerOf(MaxTTL, TermsOf[n.messageCredential[x]].retention)
    <3>1. CASE x = m
      BY <1>1, <1>2, <1>3, <3>1
    <3>2. CASE x # m
      <4>1. /\ x \in DOMAIN s.messageCredential
            /\ n.messageCredential[x] = s.messageCredential[x]
            /\ n.messages[x] = s.messages[x]
        BY <1>1, <1>2, <1>3, <2>3, <3>2 DEF Queued
      <4> QED
        BY <4>1 DEF Allowed, WindowsHoldIn
    <3> QED
      BY <3>1, <3>2
  <2> QED
    BY <2>1, <2>2, <2>3 DEF WindowsHoldIn
<1>6. LanesFit(n)
  <2>1. IsFiniteSet(Queued(s)) /\ Cardinality(Queued(s)) \in Nat
    BY <1>3, FiniteParts
  <2>2. Cardinality(Queued(n)) = Cardinality(Queued(s)) + 1
    BY <1>3, <2>1, CardinalityPlus
  <2>3. Cardinality(Queued(n)) <= MaxMessages
    BY <1>4, <2>1, <2>2 DEF Queued
  <2> QED
    BY <1>1, <2>3 DEF Allowed, LanesFit
<1>7. QuotasHoldIn(n)
  <2>1. ASSUME NEW d \in Credentials, d # c
        PROVE  ChargedTo(n, d) = ChargedTo(s, d)
    BY <1>2, <1>3, <2>1 DEF ChargedTo
  <2>2. ASSUME NEW d \in Credentials, d # c, NEW k \in Lanes
        PROVE  ChargedTo(n, d) \cap InLane(n, k) = ChargedTo(s, d) \cap InLane(s, k)
    <3>1. ChargedTo(n, d) = ChargedTo(s, d) /\ m \notin ChargedTo(s, d)
      BY <1>3, <2>1, <2>2 DEF ChargedTo
    <3>2. InLane(n, k) \ {m} = InLane(s, k) \ {m}
      BY <1>3 DEF InLane
    <3> QED
      BY <3>1, <3>2
  <2>3. CASE c = NoCredential
    <3>1. \A d \in Credentials : d # c
      BY <2>3, QueueConstants DEF NoCredential
    <3> QED
      BY <2>1, <2>2, <3>1 DEF Allowed, QuotasHoldIn
  <2>4. CASE c # NoCredential
    <3>1. c \in Credentials
      BY <2>4 DEF Callers
    <3>2. Cardinality(ChargedTo(n, c)) <= lowerOf(MaxMessages, TermsOf[c].slots)
      <4>1. ChargedTo(s, c) \in SUBSET MessageIDs /\ m \notin ChargedTo(s, c)
        BY <1>3 DEF ChargedTo
      <4>2. IsFiniteSet(ChargedTo(s, c)) /\ Cardinality(ChargedTo(s, c)) \in Nat
        BY <4>1, FiniteParts
      <4>3. ChargedTo(n, c) = ChargedTo(s, c) \cup {m}
        BY <1>2, <1>3, <2>4 DEF ChargedTo
      <4>4. Cardinality(ChargedTo(n, c)) = Cardinality(ChargedTo(s, c)) + 1
        BY <4>1, <4>2, <4>3, FS_AddElement
      <4>5. Count(s.credentialCounts, c) = Cardinality(ChargedTo(s, c))
        BY <3>1 DEF Books, CountersAgreeIn
      <4> QED
        BY <1>4, <2>4, <4>2, <4>4, <4>5
    <3>3. ASSUME NEW k \in Lanes
          PROVE  Cardinality(ChargedTo(n, c) \cap InLane(n, k))
                   <= lowerOf(MaxPerPair, TermsOf[c].maxPerPair)
      <4>1. CASE k = pairKey(m)
        <5>1. InLane(s, k) \in SUBSET MessageIDs /\ m \notin InLane(s, k)
          BY <1>3 DEF InLane
        <5>2. IsFiniteSet(InLane(s, k)) /\ Cardinality(InLane(s, k)) \in Nat
          BY <5>1, FiniteParts
        <5>3. InLane(n, k) = InLane(s, k) \cup {m}
          BY <1>3, <4>1 DEF InLane
        <5>4. /\ IsFiniteSet(InLane(n, k))
              /\ Cardinality(InLane(n, k)) = Cardinality(InLane(s, k)) + 1
          BY <5>1, <5>2, <5>3, FS_AddElement
        <5>5. Count(s.pairCounts, k) = Cardinality(InLane(s, k))
          BY DEF Books, CountersAgreeIn
        <5>6. /\ Cardinality(ChargedTo(n, c) \cap InLane(n, k)) <= Cardinality(InLane(n, k))
              /\ Cardinality(ChargedTo(n, c) \cap InLane(n, k)) \in Nat
          <6>1. ChargedTo(n, c) \cap InLane(n, k) \subseteq InLane(n, k)
            OBVIOUS
          <6> QED
            BY <5>4, <6>1, CardinalityPart
        <5> QED
          BY <1>4, <2>4, <4>1, <5>2, <5>4, <5>5, <5>6
      <4>2. CASE k # pairKey(m)
        <5>1. ChargedTo(n, c) \cap InLane(n, k) = ChargedTo(s, c) \cap InLane(s, k)
          BY <1>2, <1>3, <2>4, <4>2 DEF ChargedTo, InLane
        <5> QED
          BY <3>1, <5>1 DEF Allowed, QuotasHoldIn
      <4> QED
        BY <4>1, <4>2
    <3>4. ASSUME NEW d \in Credentials, d # c
          PROVE  /\ Cardinality(ChargedTo(n, d)) <= lowerOf(MaxMessages, TermsOf[d].slots)
                 /\ \A k \in Lanes :
                      Cardinality(ChargedTo(n, d) \cap InLane(n, k))
                        <= lowerOf(MaxPerPair, TermsOf[d].maxPerPair)
      BY <2>1, <2>2, <3>4 DEF Allowed, QuotasHoldIn
    <3> QED
      BY <3>2, <3>3, <3>4 DEF QuotasHoldIn
  <2> QED
    BY <2>3, <2>4
<1> QED
  BY <1>5, <1>6, <1>7 DEF Allowed, n

-----------------------------------------------------------------------------
(***************************************************************************)
(* The room for the node's own acks.  An ack is coupled when it is the     *)
(* node's own for a queued message that does not expire before it.  Acks   *)
(* that live and are not coupled stay within the callers' budget: a        *)
(* caller's ack enters, and deletes its message, only below that budget; a *)
(* sweep takes a message whose coupled ack is over too; a purge takes both.*)
(***************************************************************************)
LooseAcks(s, t) ==
  {a \in DOMAIN s.acks :
     /\ ~Expired(s.acks[a].expiresAt, t)
     /\ \A m \in Queued(s) : a = NodeReceived[m] => ~(s.acks[a].expiresAt <= s.messages[m])}

ReserveFree(s, t) == Cardinality(LooseAcks(s, t)) <= externalAckCapacity

\* Fewer loose acks need no more room.
LEMMA LooseFewer ==
  ASSUME NEW s, IsStore(s), NEW t, ReserveFree(s, t), NEW n, NEW u,
         LooseAcks(n, u) \subseteq LooseAcks(s, t)
  PROVE  ReserveFree(n, u)
<1>1. LooseAcks(s, t) \in SUBSET AckIDs
  BY DEF LooseAcks, IsStore, IsMap
<1>2. /\ Cardinality(LooseAcks(n, u)) <= Cardinality(LooseAcks(s, t))
      /\ Cardinality(LooseAcks(n, u)) \in Nat /\ Cardinality(LooseAcks(s, t)) \in Nat
  BY <1>1, FiniteParts, CardinalityPart
<1> QED
  BY <1>2, LaneSizes DEF ReserveFree

\* Below the callers' budget there is room whatever the acks are.
LEMMA BelowBudget ==
  ASSUME NEW s, IsStore(s), NEW t, Cardinality(DOMAIN s.acks) <= externalAckCapacity
  PROVE  ReserveFree(s, t)
<1>1. LooseAcks(s, t) \subseteq DOMAIN s.acks /\ DOMAIN s.acks \in SUBSET AckIDs
  BY DEF LooseAcks, IsStore, IsMap
<1>2. /\ Cardinality(LooseAcks(s, t)) <= Cardinality(DOMAIN s.acks)
      /\ Cardinality(LooseAcks(s, t)) \in Nat /\ Cardinality(DOMAIN s.acks) \in Nat
  BY <1>1, FiniteParts, CardinalityPart
<1> QED
  BY <1>2, LaneSizes DEF ReserveFree

\* A posted message comes with an ack that is coupled to it.
LEMMA CoupledReserve ==
  ASSUME NEW s, Books(s), NEW m \in MessageIDs, NEW e \in Nat, NEW tag, NEW c, NEW t,
         m \notin DOMAIN s.messages, NodeReceived[m] \notin DOMAIN s.acks,
         ReserveFree(s, t), IsStore(insertAck(s, NodeReceived[m], e, tag))
  PROVE  ReserveFree(addMessageLocked(insertAck(s, NodeReceived[m], e, tag), m, tag, e, c), t)
<1> DEFINE a == NodeReceived[m]
           mid == insertAck(s, a, e, tag)
           n == addMessageLocked(mid, m, tag, e, c)
<1>1. InsertedAck(mid, s, a, e, tag) /\ IsStore(s)
  BY InsertAckFields DEF Books, Sound
<1>2. AddedMessage(n, mid, m, tag, e, c)
  BY AddMessageFields
<1> HIDE DEF mid, n
<1>a. /\ DOMAIN mid.acks = DOMAIN s.acks \cup {a}
      /\ mid.acks[a] = [expiresAt |-> e, tag |-> tag]
      /\ \A b \in DOMAIN s.acks \ {a} : mid.acks[b] = s.acks[b]
      /\ mid.messages = s.messages
  BY <1>1 DEF InsertedAck, Put
<1>b. /\ n.acks = mid.acks
      /\ Queued(n) = Queued(mid) \cup {m}
      /\ n.messages[m] = e
      /\ \A x \in Queued(mid) \ {m} : n.messages[x] = mid.messages[x]
  BY <1>2 DEF AddedMessage, Put, Queued
<1>3. /\ DOMAIN n.acks = DOMAIN s.acks \cup {a}
      /\ n.acks[a] = [expiresAt |-> e, tag |-> tag]
      /\ \A b \in DOMAIN s.acks \ {a} : n.acks[b] = s.acks[b]
      /\ Queued(n) = Queued(s) \cup {m}
      /\ n.messages[m] = e
      /\ \A x \in Queued(s) \ {m} : n.messages[x] = s.messages[x]
  BY <1>a, <1>b DEF Queued
<1>4. n.acks[a].expiresAt = e
  BY <1>3
<1>5. a \notin LooseAcks(n, t)
  BY <1>3, <1>4 DEF LooseAcks
<1>6. LooseAcks(n, t) \subseteq LooseAcks(s, t)
  <2>1. ASSUME NEW b \in LooseAcks(n, t) PROVE b \in LooseAcks(s, t)
    <3>1. b # a /\ b \in DOMAIN s.acks /\ n.acks[b] = s.acks[b]
      BY <1>3, <1>5, <2>1 DEF LooseAcks
    <3>2. \A x \in Queued(s) : x \in Queued(n) /\ n.messages[x] = s.messages[x]
      BY <1>3 DEF Queued
    <3> QED
      BY <2>1, <3>1, <3>2 DEF LooseAcks
  <2> QED
    BY <2>1
<1>7. ReserveFree(n, t)
  BY <1>1, <1>6, LooseFewer
<1> QED
  BY <1>7 DEF n, mid

\* A replicated message can only couple acks that are there.
LEMMA AddMessageReserve ==
  ASSUME NEW s, IsStore(s), NEW m, NEW tag, NEW e, NEW c, NEW t,
         m \notin DOMAIN s.messages, ReserveFree(s, t)
  PROVE  ReserveFree(addMessageLocked(s, m, tag, e, c), t)
<1> DEFINE n == addMessageLocked(s, m, tag, e, c)
<1>1. AddedMessage(n, s, m, tag, e, c)
  BY AddMessageFields
<1> HIDE DEF n
<1>2. /\ n.acks = s.acks
      /\ \A x \in Queued(s) : x \in Queued(n) /\ n.messages[x] = s.messages[x]
  BY <1>1 DEF AddedMessage, Put, Queued
<1>3. LooseAcks(n, t) \subseteq LooseAcks(s, t)
  BY <1>2 DEF LooseAcks
<1>4. ReserveFree(n, t)
  BY <1>3, LooseFewer
<1> QED
  BY <1>4 DEF n

\* A sweep of messages whose time is over leaves no ack of theirs alive.
LEMMA SweepReserve ==
  ASSUME NEW s, IsStore(s), NEW t \in Nat, NEW u \in Nat, t <= u, ReserveFree(s, u)
  PROVE  ReserveFree(deleteMessages(s, ExpiredMessages(s, t)), u)
<1> DEFINE n == deleteMessages(s, ExpiredMessages(s, t))
           gone == ExpiredMessages(s, t) \cap DOMAIN s.messages
<1>1. DeletedMessages(n, s, gone)
  BY DeleteMessagesFields
<1> HIDE DEF n
<1>2. /\ n.acks = s.acks
      /\ Queued(n) = Queued(s) \ ExpiredMessages(s, t)
      /\ \A x \in Queued(n) : n.messages[x] = s.messages[x]
  BY <1>1 DEF DeletedMessages, Without, Queued
<1>3. ASSUME NEW a \in LooseAcks(n, u), NEW m \in Queued(s), a = NodeReceived[m]
      PROVE  ~(s.acks[a].expiresAt <= s.messages[m])
  <2>1. /\ a \in DOMAIN s.acks /\ ~(s.acks[a].expiresAt <= u)
        /\ s.acks[a].expiresAt \in Nat /\ s.messages[m] \in Nat
    <3>1. IsMap(s.acks, AckIDs, [expiresAt : Nat, tag : Tags \cup {None}])
      BY DEF IsStore
    <3>2. IsMap(s.messages, MessageIDs, Nat)
      BY DEF IsStore
    <3>3. a \in DOMAIN s.acks /\ ~(s.acks[a].expiresAt <= u)
      BY <1>2, <1>3 DEF LooseAcks, Expired
    <3>4. s.acks[a] \in [expiresAt : Nat, tag : Tags \cup {None}]
      BY <3>1, <3>3 DEF IsMap
    <3> QED
      BY <1>3, <3>2, <3>3, <3>4 DEF IsMap, Queued
  <2>2. CASE m \in ExpiredMessages(s, t)
    <3>1. s.messages[m] <= t
      BY <2>2 DEF ExpiredMessages, Expired
    <3> QED
      BY <2>1, <3>1
  <2>3. CASE m \notin ExpiredMessages(s, t)
    BY <1>2, <1>3, <2>3 DEF LooseAcks
  <2> QED
    BY <2>2, <2>3
<1>4. LooseAcks(n, u) \subseteq LooseAcks(s, u)
  BY <1>2, <1>3 DEF LooseAcks
<1>5. ReserveFree(n, u)
  BY <1>4, LooseFewer
<1> QED
  BY <1>5 DEF n

\* Fewer acks beside the same messages need no more room.
LEMMA FewerAcksReserve ==
  ASSUME NEW s, IsStore(s), NEW t, ReserveFree(s, t), NEW n,
         n.messages = s.messages, Restricts(n.acks, s.acks)
  PROVE  ReserveFree(n, t)
<1>1. LooseAcks(n, t) \subseteq LooseAcks(s, t)
  BY DEF LooseAcks, Restricts, Queued
<1> QED
  BY <1>1, LooseFewer

\* A purge takes a message together with its coupled ack.
LEMMA PurgeReserve ==
  ASSUME NEW s, Books(s), NEW h \in PurgeHashes, NEW t, ReserveFree(s, t)
  PROVE  ReserveFree(purgeOwnerLocked(s, h), t)
<1> DEFINE n == purgeOwnerLocked(s, h)
           owned == {m \in Queued(s) : purgeKey(m) = h}
<1>1. /\ Shrunk(n, s)
      /\ Queued(n) = Queued(s) \ owned
      /\ DOMAIN n.acks = {a \in DOMAIN s.acks : ackKey(a) \notin owned}
  BY PurgeOwnerShrinks
<1> HIDE DEF n
<1>2. ASSUME NEW a \in LooseAcks(n, t), NEW m \in Queued(s), a = NodeReceived[m]
      PROVE  ~(s.acks[a].expiresAt <= s.messages[m])
  <2>1. m \in MessageIDs
    BY DEF Books, Sound, IsStore, IsMap, Queued
  <2>2. ackKey(a) = m
    BY <1>2, <2>1, Bodies
  <2>3. m \in Queued(n)
    BY <1>1, <1>2, <2>2 DEF LooseAcks
  <2> QED
    BY <1>1, <1>2, <2>3 DEF LooseAcks, Shrunk, Restricts, Queued
<1>3. LooseAcks(n, t) \subseteq LooseAcks(s, t)
  BY <1>1, <1>2 DEF LooseAcks, Shrunk, Restricts
<1>4. ReserveFree(n, t)
  BY <1>3, LooseFewer DEF Books, Sound
<1> QED
  BY <1>4 DEF n

\* After a sweep the lane holds the callers' budget and one ack per message.
LEMMA SweptLane ==
  ASSUME NEW s, IsStore(s), NEW t \in Nat, ReserveFree(s, t),
         \A a \in DOMAIN s.acks : ~Expired(s.acks[a].expiresAt, t)
  PROVE  Cardinality(DOMAIN s.acks) <= externalAckCapacity + Cardinality(Queued(s))
<1> DEFINE loose == LooseAcks(s, t)
           coupled == DOMAIN s.acks \ loose
           holders == {m \in Queued(s) : NodeReceived[m] \in coupled}
           ackOf == [m \in holders |-> NodeReceived[m]]
<1>1. /\ DOMAIN s.acks \in SUBSET AckIDs /\ Queued(s) \in SUBSET MessageIDs
      /\ loose \in SUBSET DOMAIN s.acks
  BY DEF LooseAcks, IsStore, IsMap, Queued
<1>2. ASSUME NEW a \in coupled PROVE \E m \in holders : ackOf[m] = a
  <2>1. PICK m \in Queued(s) : a = NodeReceived[m]
    BY DEF LooseAcks
  <2> QED
    BY <2>1
<1>3. ackOf \in Surjection(holders, coupled)
  BY <1>2 DEF Surjection
<1>4. /\ IsFiniteSet(DOMAIN s.acks) /\ IsFiniteSet(Queued(s)) /\ IsFiniteSet(holders)
      /\ Cardinality(holders) <= Cardinality(Queued(s))
      /\ Cardinality(holders) \in Nat /\ Cardinality(Queued(s)) \in Nat
  <2>1. IsFiniteSet(DOMAIN s.acks) /\ IsFiniteSet(Queued(s)) /\ holders \subseteq Queued(s)
    BY <1>1, FiniteParts
  <2> QED
    BY <2>1, CardinalityPart
<1> HIDE DEF ackOf, holders
<1>5. Cardinality(coupled) <= Cardinality(holders)
  BY <1>3, <1>4, FS_Surjection
<1>6. /\ Cardinality(coupled) = Cardinality(DOMAIN s.acks) - Cardinality(loose)
      /\ Cardinality(DOMAIN s.acks) \in Nat /\ Cardinality(loose) \in Nat
  BY <1>1, <1>4, CardinalityMinus
<1> HIDE DEF coupled, loose
<1>7. Cardinality(loose) <= externalAckCapacity
  BY DEF ReserveFree, loose
<1> QED
  BY <1>4, <1>5, <1>6, <1>7, LaneSizes

-----------------------------------------------------------------------------
(***************************************************************************)
(* The inductive invariant.  Quotas are compared with counters, so they    *)
(* hold only while the counters are exact; who may delete a message is     *)
(* decided by its binding, so the bindings have to count every record that *)
(* names it; and the acks that are not coupled have to be bounded before   *)
(* anything can be said of the lane after a sweep.                         *)
(***************************************************************************)
TombstonesFit(s) ==
  IsFiniteSet(DOMAIN s.purges) /\ Cardinality(DOMAIN s.purges) <= MaxPurges

Limits(s, t) == Allowed(s, t) /\ TombstonesFit(s) /\ ReserveFree(s, t)

LInv == Books(store) /\ now \in Nat \ {0} /\ Limits(store, now)

\* An admitted message was within the caller's quotas and the queue's cap.
LEMMA Admitted ==
  ASSUME NEW s, NEW m, NEW e, NEW c, NEW t, addMessageError(s, m, e, c, t) = "ok"
  PROVE  /\ m \notin DOMAIN s.messages
         /\ ~(Count(s.pairCounts, pairKey(m)) >= lowerOf(MaxPerPair, TermsOf[c].maxPerPair))
         /\ c # NoCredential =>
              ~(Count(s.credentialCounts, c) >= lowerOf(MaxMessages, TermsOf[c].slots))
         /\ ~(Cardinality(DOMAIN s.messages) >= MaxMessages)
BY DEF addMessageError

\* POST /messages stays within the limits.
LEMMA PostMessageLimits ==
  ASSUME LInv, NEW t \in Nat, t <= now, NEW m \in MessageIDs,
         NEW tag \in Tags \cup {None}, NEW requested \in Nat, NEW c \in Callers,
         store' = AddMessageWithGrant(store, m, tag, requested, c, t).store
  PROVE  Books(store') /\ Limits(store', now)
<1> DEFINE a == NodeReceived[m]
           ceiling == lowerOf(MaxTTL, TermsOf[c].retention)
<1>1. ASSUME store' = store PROVE Books(store') /\ Limits(store', now)
  BY <1>1 DEF LInv
<1>2. ASSUME NEW e \in Nat, e <= t + ceiling,
             addMessageError(store, m, e, c, t) = "ok",
             a \notin DOMAIN store.acks,
             ~(Cardinality(DOMAIN store.acks) >= maxAcks),
             store' = addMessageLocked(insertAck(store, a, e, tag), m, tag, e, c)
      PROVE  Books(store') /\ Limits(store', now)
  <2> DEFINE mid == insertAck(store, a, e, tag)
  <2>1. /\ a \in AckIDs /\ a \in OwnAcks
        /\ ceiling \in Nat /\ ceiling <= MaxTTL /\ MaxTTL \in Nat /\ now \in Nat
    BY Bodies, TermsType, LowerOf, QueueConstants DEF OwnAcks, LInv
  <2>2. e <= now + ceiling /\ e <= now + MaxTTL
    BY <1>2, <2>1
  <2>3. /\ Cardinality(DOMAIN store.acks) \in Nat
        /\ Cardinality(DOMAIN store.acks) < maxAcks
    <3>1. DOMAIN store.acks \in SUBSET AckIDs
      BY DEF LInv, Books, Sound, IsStore, IsMap
    <3>2. Cardinality(DOMAIN store.acks) \in Nat
      BY <3>1, FiniteParts
    <3> QED
      BY <1>2, <3>2, LaneSizes
  <2>4. InsertedAck(mid, store, a, e, tag)
    BY InsertAckFields DEF LInv, Books, Sound
  <2>5. Books(mid)
    BY <1>2, <2>1, InsertAckBooks DEF LInv
  <2>6. Allowed(mid, now)
    BY <2>1, <2>2, <2>3, InsertAckAllowed DEF LInv, Limits
  <2>7. ReserveFree(store', now)
    BY <1>2, <2>5, Admitted, CoupledReserve DEF LInv, Limits, Books, Sound
  <2> HIDE DEF mid
  <2>8. /\ mid.messages = store.messages /\ mid.purges = store.purges
        /\ mid.pairCounts = store.pairCounts
        /\ mid.credentialCounts = store.credentialCounts
    BY <2>4 DEF InsertedAck
  <2>9. /\ m \notin DOMAIN mid.messages
        /\ ~(Count(mid.pairCounts, pairKey(m)) >= lowerOf(MaxPerPair, TermsOf[c].maxPerPair))
        /\ c # NoCredential =>
             ~(Count(mid.credentialCounts, c) >= lowerOf(MaxMessages, TermsOf[c].slots))
        /\ ~(Cardinality(DOMAIN mid.messages) >= MaxMessages)
    BY <1>2, <2>8, Admitted
  <2>10. store' = addMessageLocked(mid, m, tag, e, c)
    BY <1>2 DEF mid
  <2>11. Books(store')
    BY <2>5, <2>9, <2>10, AddMessageBooks
  <2>12. Allowed(store', now)
    BY <2>1, <2>2, <2>5, <2>6, <2>9, <2>10, AddMessageAllowed
  <2>13. store'.purges = store.purges
    <3>1. AddedMessage(store', mid, m, tag, e, c)
      BY <2>5, <2>10, AddMessageFields DEF Books, Sound
    <3> QED
      BY <2>8, <3>1 DEF AddedMessage
  <2> QED
    BY <2>7, <2>11, <2>12, <2>13 DEF Limits, LInv, TombstonesFit
<1>3. store' = store \/ \E e \in Nat : Posted(store', store, m, tag, e, c, t)
  BY AddMessageCases
<1>4. \/ store' = store
      \/ \E e \in Nat :
           /\ e <= t + ceiling
           /\ addMessageError(store, m, e, c, t) = "ok"
           /\ a \notin DOMAIN store.acks
           /\ ~(Cardinality(DOMAIN store.acks) >= maxAcks)
           /\ store' = addMessageLocked(insertAck(store, a, e, tag), m, tag, e, c)
  BY <1>3 DEF Posted
<1> HIDE DEF a, ceiling
<1> QED
  BY <1>1, <1>2, <1>4

\* An ack from outside that fits the callers' budget stays within the limits.
LEMMA ExternalAckLimits ==
  ASSUME NEW s, Books(s), NEW t \in Nat, Limits(s, t), NEW n, NEW a \in AckIDs,
         NEW e \in Nat, e <= t + MaxTTL, NEW tag \in Tags \cup {None},
         ExternalAck(n, s, a, e, tag)
  PROVE  Books(n) /\ Limits(n, t)
<1> DEFINE mid == insertAck(s, a, e, tag)
<1>1. IsStore(s) /\ a \notin DOMAIN s.acks /\ DOMAIN s.acks \in SUBSET AckIDs
  BY DEF Books, Sound, IsStore, IsMap, ExternalAck
<1>2. /\ IsFiniteSet(DOMAIN s.acks) /\ Cardinality(DOMAIN s.acks) \in Nat
      /\ Cardinality(DOMAIN s.acks) < externalAckCapacity
  <2>1. IsFiniteSet(DOMAIN s.acks) /\ Cardinality(DOMAIN s.acks) \in Nat
    BY <1>1, FiniteParts
  <2> QED
    BY <2>1, LaneSizes DEF ExternalAck
<1>3. InsertedAck(mid, s, a, e, tag)
  BY <1>1, InsertAckFields
<1>4. Books(mid)
  BY <1>1, InsertAckBooks
<1>5. Allowed(mid, t)
  BY <1>2, InsertAckAllowed DEF Limits
<1>6. n = mid \/ n = deleteMessages(mid, {ackKey(a)})
  BY DEF ExternalAck
<1> HIDE DEF mid
<1>7. DOMAIN mid.acks = DOMAIN s.acks \cup {a} /\ mid.purges = s.purges
  BY <1>3 DEF InsertedAck, Put
<1>8. Cardinality(DOMAIN mid.acks) <= externalAckCapacity
  <2>1. Cardinality(DOMAIN mid.acks) = Cardinality(DOMAIN s.acks) + 1
    BY <1>1, <1>2, <1>7, CardinalityPlus
  <2> QED
    BY <1>2, <2>1, LaneSizes
<1>9. CASE n = mid
  BY <1>4, <1>5, <1>7, <1>8, <1>9, BelowBudget DEF Limits, TombstonesFit, Books, Sound
<1>10. CASE n = deleteMessages(mid, {ackKey(a)})
  <2>1. Books(n) /\ Shrunk(n, mid) /\ n.acks = mid.acks /\ n.purges = mid.purges
    BY <1>4, <1>10, DeleteMessagesBooks, DeleteMessagesShrinks DEF Books, Sound
  <2>2. Allowed(n, t)
    BY <1>4, <1>5, <2>1, ShrunkAllowed
  <2>3. ReserveFree(n, t)
    BY <1>8, <2>1, BelowBudget DEF Books, Sound
  <2> QED
    BY <1>7, <2>1, <2>2, <2>3 DEF Limits, TombstonesFit
<1> QED
  BY <1>6, <1>9, <1>10

\* A fetch or a sweep at any clock reading stays within the limits.
LEMMA SweepLimits ==
  ASSUME NEW s, Books(s), NEW u \in Nat, Limits(s, u), NEW t \in Nat, t <= u
  PROVE  /\ Books(MessagesForRecipient(s, t)) /\ Limits(MessagesForRecipient(s, t), u)
         /\ Books(AcksForSender(s, t)) /\ Limits(AcksForSender(s, t), u)
         /\ Books(PruneExpired(s, t)) /\ Limits(PruneExpired(s, t), u)
<1> DEFINE mid == deleteMessages(s, ExpiredMessages(s, t))
           low == deleteAcks(mid, ExpiredAcks(s, t))
           purges == Without(low.purges, ExpiredPurges(s, t))
           n == [low EXCEPT !.purges = purges]
           d == deleteAcks(s, ExpiredAcks(s, t))
<1>1. IsStore(s) /\ Allowed(s, u) /\ TombstonesFit(s) /\ ReserveFree(s, u)
  BY DEF Books, Sound, Limits
<1>2. /\ Books(mid) /\ Shrunk(mid, s) /\ mid.purges = s.purges
      /\ ReserveFree(mid, u)
  BY <1>1, DeleteMessagesBooks, DeleteMessagesShrinks, SweepReserve
<1>3. Allowed(mid, u) /\ IsStore(mid)
  BY <1>1, <1>2, ShrunkAllowed DEF Books, Sound
<1>4. /\ Books(d) /\ Shrunk(d, s) /\ d.messages = s.messages /\ d.purges = s.purges
  BY <1>1, DeleteAcksBooks, DeleteAcksShrinks
<1>5. Allowed(d, u) /\ ReserveFree(d, u)
  BY <1>1, <1>4, ShrunkAllowed, FewerAcksReserve DEF Shrunk
<1> HIDE DEF mid
<1>6. /\ Books(low) /\ Shrunk(low, mid) /\ low.messages = mid.messages
      /\ low.purges = mid.purges
  BY <1>2, <1>3, DeleteAcksBooks, DeleteAcksShrinks
<1>7. Allowed(low, u) /\ ReserveFree(low, u)
  BY <1>2, <1>3, <1>6, ShrunkAllowed, FewerAcksReserve DEF Shrunk
<1> HIDE DEF low, d
<1>8. IsMap(purges, PurgeHashes, Nat)
  BY <1>6, WithoutMap DEF Books, Sound, IsStore
<1>9. Books(n) /\ NewPurges(n, low, purges)
  BY <1>6, <1>8, PurgesBooks, PurgesFields DEF Books, Sound
<1> HIDE DEF n
<1>10. /\ n.messages = low.messages /\ n.acks = low.acks
       /\ n.messageCredential = low.messageCredential /\ n.purges = purges
  BY <1>9 DEF NewPurges, Fields
<1>11. Allowed(n, u) /\ ReserveFree(n, u)
  <2>1. Shrunk(n, low) /\ Restricts(n.acks, low.acks)
    BY <1>10 DEF Shrunk, Restricts
  <2> QED
    BY <1>6, <1>7, <1>9, <1>10, <2>1, ShrunkAllowed, FewerAcksReserve DEF Books, Sound
<1>12. TombstonesFit(n)
  <2>1. DOMAIN n.purges \subseteq DOMAIN s.purges
    BY <1>2, <1>6, <1>10 DEF Without
  <2>2. /\ IsFiniteSet(DOMAIN n.purges)
        /\ Cardinality(DOMAIN n.purges) <= Cardinality(DOMAIN s.purges)
        /\ Cardinality(DOMAIN n.purges) \in Nat /\ Cardinality(DOMAIN s.purges) \in Nat
    BY <1>1, <2>1, CardinalityPart DEF TombstonesFit
  <2> QED
    BY <1>1, <2>2, QueueConstants DEF TombstonesFit
<1>13. Limits(mid, u) /\ Limits(d, u)
  BY <1>1, <1>2, <1>3, <1>4, <1>5 DEF Limits, TombstonesFit
<1>14. /\ MessagesForRecipient(s, t) = mid /\ AcksForSender(s, t) = d
       /\ PruneExpired(s, t) = n
  BY DEF MessagesForRecipient, AcksForSender, PruneExpired, mid, d, low, n
<1> QED
  BY <1>2, <1>4, <1>9, <1>11, <1>12, <1>13, <1>14 DEF Limits

\* A purge stays within the limits.
LEMMA PurgeLimits ==
  ASSUME NEW s, Books(s), NEW t \in Nat, Limits(s, t), NEW h \in PurgeHashes, NEW e \in Nat
  PROVE  LET n == purgeOwnerLocked(storePurgeLocked(s, h, e), h)
         IN  Books(n) /\ Limits(n, t)
<1> DEFINE mid == storePurgeLocked(s, h, e)
           n == purgeOwnerLocked(mid, h)
<1>1. /\ Books(mid)
      /\ mid.messages = s.messages /\ mid.acks = s.acks
      /\ mid.messageCredential = s.messageCredential
      /\ \/ mid.purges = s.purges
         \/ /\ mid.purges = Put(s.purges, h, e)
            /\ h \notin DOMAIN s.purges => ~(Cardinality(DOMAIN s.purges) >= MaxPurges)
  BY StorePurgeBooks
<1> HIDE DEF mid
<1>2. Allowed(mid, t) /\ ReserveFree(mid, t)
  <2>1. Shrunk(mid, s) /\ Restricts(mid.acks, s.acks)
    BY <1>1 DEF Shrunk, Restricts
  <2> QED
    BY <1>1, <2>1, ShrunkAllowed, FewerAcksReserve DEF Books, Sound, Limits
<1>3. TombstonesFit(mid)
  <2>1. IsFiniteSet(DOMAIN s.purges) /\ Cardinality(DOMAIN s.purges) <= MaxPurges
    BY DEF Limits, TombstonesFit
  <2>2. Cardinality(DOMAIN s.purges) \in Nat /\ MaxPurges \in Nat
    BY <2>1, FS_CardinalityType, QueueConstants
  <2>3. CASE mid.purges = s.purges
    BY <2>1, <2>3 DEF TombstonesFit
  <2>4. CASE /\ mid.purges = Put(s.purges, h, e)
             /\ h \notin DOMAIN s.purges => ~(Cardinality(DOMAIN s.purges) >= MaxPurges)
    <3>1. DOMAIN mid.purges = DOMAIN s.purges \cup {h}
      BY <2>4 DEF Put
    <3>2. CASE h \in DOMAIN s.purges
      <4>1. DOMAIN mid.purges = DOMAIN s.purges
        BY <3>1, <3>2
      <4> QED
        BY <2>1, <4>1 DEF TombstonesFit
    <3>3. CASE h \notin DOMAIN s.purges
      <4>1. /\ IsFiniteSet(DOMAIN mid.purges)
            /\ Cardinality(DOMAIN mid.purges) = Cardinality(DOMAIN s.purges) + 1
        BY <2>1, <3>1, <3>3, CardinalityPlus
      <4> QED
        BY <2>2, <2>4, <3>3, <4>1 DEF TombstonesFit
    <3> QED
      BY <3>2, <3>3
  <2> QED
    BY <1>1, <2>3, <2>4
<1>4. Books(n) /\ Shrunk(n, mid) /\ n.purges = mid.purges
  BY <1>1, PurgeOwnerShrinks
<1>5. ReserveFree(n, t)
  BY <1>1, <1>2, PurgeReserve
<1> HIDE DEF n
<1>6. Allowed(n, t)
  BY <1>1, <1>2, <1>4, ShrunkAllowed
<1>7. Books(n) /\ Limits(n, t)
  BY <1>3, <1>4, <1>5, <1>6 DEF Limits, TombstonesFit
<1> QED
  BY <1>7 DEF n, mid

\* A replicated message stays within the limits.
LEMMA ImportMessageLimits ==
  ASSUME NEW s, Books(s), NEW u \in Nat, Limits(s, u), NEW t \in Nat, t <= u,
         NEW m \in MessageIDs, NEW tag \in Tags \cup {None}, NEW requested \in Nat
  PROVE  LET n == importMessage(s, m, tag, requested, t)
         IN  Books(n) /\ Limits(n, u)
<1> DEFINE n == importMessage(s, m, tag, requested, t)
<1>1. CASE n = s
  BY <1>1
<1>2. ASSUME NEW e \in Nat, e <= t + MaxTTL, m \notin DOMAIN s.messages,
             ~(Cardinality(DOMAIN s.messages) >= MaxMessages),
             n = addMessageLocked(s, m, tag, e, NoCredential)
      PROVE  Books(n) /\ Limits(n, u)
  <2> HIDE DEF n
  <2>1. NoCredential \in Callers /\ MaxTTL \in Nat
    BY QueueConstants DEF Callers
  <2>2. lowerOf(MaxTTL, TermsOf[NoCredential].retention) = MaxTTL
    <3>1. TermsOf[NoCredential].retention = 0
      BY QueueConstants
    <3> QED
      BY <3>1 DEF lowerOf
  <2>3. e <= u + MaxTTL
    BY <1>2, <2>1
  <2>4. Books(n) /\ AddedMessage(n, s, m, tag, e, NoCredential)
    BY <1>2, <2>1, AddMessageBooks, AddMessageFields DEF Books, Sound
  <2>5. Allowed(n, u)
    BY <1>2, <2>1, <2>2, <2>3, AddMessageAllowed DEF Limits
  <2>6. ReserveFree(n, u)
    BY <1>2, AddMessageReserve DEF Limits, Books, Sound
  <2> QED
    BY <2>4, <2>5, <2>6 DEF Limits, TombstonesFit, AddedMessage
<1> QED
  BY <1>1, <1>2, ImportMessageCases

\* Time only widens windows and ends acks.
LEMMA TickLimits ==
  ASSUME NEW s, Books(s), NEW t \in Nat, Limits(s, t)
  PROVE  Limits(s, t + 1)
<1>1. /\ IsMap(s.messages, MessageIDs, Nat)
      /\ IsMap(s.acks, AckIDs, [expiresAt : Nat, tag : Tags \cup {None}])
      /\ IsMap(s.messageCredential, MessageIDs, Credentials)
      /\ DOMAIN s.messageCredential \subseteq Queued(s)
      /\ MaxTTL \in Nat
  BY QueueConstants DEF Books, Sound, IsStore, CountersAgreeIn
<1>2. /\ \A m \in Queued(s) : s.messages[m] \in Nat
      /\ \A a \in DOMAIN s.acks : s.acks[a].expiresAt \in Nat
  BY <1>1 DEF IsMap, Queued
<1>3. \A m \in DOMAIN s.messageCredential :
        lowerOf(MaxTTL, TermsOf[s.messageCredential[m]].retention) \in Nat
  <2> TAKE m \in DOMAIN s.messageCredential
  <2>1. s.messageCredential[m] \in Callers
    BY <1>1 DEF IsMap, Callers
  <2> QED
    BY <1>1, <2>1, TermsType, LowerOf
<1>4. WindowsHoldIn(s, t + 1)
  BY <1>1, <1>2, <1>3 DEF Limits, Allowed, WindowsHoldIn
<1>5. LooseAcks(s, t + 1) \subseteq LooseAcks(s, t)
  BY <1>2 DEF LooseAcks, Expired
<1>6. ReserveFree(s, t + 1)
  BY <1>5, LooseFewer DEF Limits, Books, Sound
<1> QED
  BY <1>4, <1>6 DEF Limits, Allowed

\* Every step of the relay preserves the invariant.
LEMMA LimitsStep == LInv /\ [Next]_vars => LInv'
<1> SUFFICES ASSUME LInv, [Next]_vars PROVE LInv'
  OBVIOUS
<1>1. now \in Nat \ {0} /\ Books(store) /\ Limits(store, now)
  BY DEF LInv
<1>2. ASSUME NEW t \in Readings PROVE t \in Nat /\ t <= now
  BY <1>1, <1>2 DEF Readings
<1>3. ASSUME NEW t \in Readings, NEW m \in MessageIDs, NEW tag \in StampsOf[m],
             NEW requested \in Requests, NEW c \in Callers,
             PostMessage(m, tag, requested, c, t)
      PROVE  LInv'
  <2>1. requested \in Nat /\ now' = now /\ tag \in Tags \cup {None}
    BY <1>3, StoreConstants, StampsType DEF PostMessage
  <2>2. Books(store') /\ Limits(store', now)
    BY <1>2, <1>3, <2>1, PostMessageLimits DEF PostMessage
  <2> QED
    BY <1>1, <2>1, <2>2 DEF LInv
<1>4. ASSUME NEW t \in Readings, NEW a \in AckIDs, NEW requested \in Requests,
             NEW c \in Callers, NEW proof, PostAck(a, requested, c, proof, t)
      PROVE  LInv'
  <2> DEFINE tag == BoundTo(store, ackKey(a))
  <2>1. requested \in Nat /\ now' = now /\ t \in Nat /\ t <= now /\ MaxTTL \in Nat
    BY <1>2, <1>4, StoreConstants, QueueConstants DEF PostAck
  <2>2. tag \in Tags \cup {None}
    BY <1>1, BoundToType DEF Books, Sound
  <2>3. \/ store' = store
        \/ \E e \in Nat : e <= t + MaxTTL /\ ExternalAck(store', store, a, e, tag)
    BY <1>4, <2>1, AddAckCases DEF PostAck
  <2> HIDE DEF tag
  <2>4. ASSUME NEW e \in Nat, e <= t + MaxTTL, ExternalAck(store', store, a, e, tag)
        PROVE  Books(store') /\ Limits(store', now)
    <3>1. e <= now + MaxTTL
      BY <1>1, <2>1, <2>4
    <3> QED
      BY <1>1, <2>2, <2>4, <3>1, ExternalAckLimits
  <2>5. Books(store') /\ Limits(store', now)
    BY <1>1, <2>3, <2>4
  <2> QED
    BY <1>1, <2>1, <2>5 DEF LInv
<1>5. ASSUME NEW t \in Readings, GetMessages(t) \/ GetAcks(t) \/ Prune(t)
      PROVE  LInv'
  <2>1. Books(store') /\ Limits(store', now)
    BY <1>1, <1>2, <1>5, SweepLimits DEF GetMessages, GetAcks, Prune
  <2> QED
    BY <1>1, <1>5, <2>1 DEF LInv, GetMessages, GetAcks, Prune
<1>6. ASSUME NEW h \in PurgeHashes, Purge(h)
      PROVE  LInv'
  <2>1. now + DefaultTTL \in Nat
    BY <1>1, QueueConstants
  <2>2. Books(store') /\ Limits(store', now)
    BY <1>1, <1>6, <2>1, PurgeLimits DEF Purge, PurgeOwner
  <2> QED
    BY <1>1, <1>6, <2>2 DEF LInv, Purge
<1>7. ASSUME NEW t \in Readings, NEW h \in PurgeHashes, NEW e \in Requests,
             ImportPurge(h, e, t)
      PROVE  LInv'
  <2>1. Books(store') /\ Limits(store', now)
    BY <1>1, <1>7, PurgeLimits, StoreConstants DEF ImportPurge, importPurge
  <2> QED
    BY <1>1, <1>7, <2>1 DEF LInv, ImportPurge
<1>8. ASSUME NEW t \in Readings, NEW m \in MessageIDs, NEW tag \in StampsOf[m],
             NEW e \in Requests, ImportMessage(m, tag, e, t)
      PROVE  LInv'
  <2>1. Books(store') /\ Limits(store', now)
    <3>1. tag \in Tags \cup {None} /\ e \in Nat
      BY StampsType, StoreConstants
    <3> QED
      BY <1>1, <1>2, <1>8, <3>1, ImportMessageLimits DEF ImportMessage
  <2> QED
    BY <1>1, <1>8, <2>1 DEF LInv, ImportMessage
<1>9. ASSUME NEW t \in Readings, NEW a \in AckIDs, NEW e \in Requests,
             NEW tag \in StampsOf[ackKey(a)] \cup {None}, ImportAck(a, e, tag, t)
      PROVE  LInv'
  <2>0. tag \in Tags \cup {None}
    BY StampsType
  <2>1. e \in Nat /\ now' = now /\ t \in Nat /\ t <= now /\ MaxTTL \in Nat
    BY <1>2, <1>9, StoreConstants, QueueConstants DEF ImportAck
  <2>2. \/ store' = store
        \/ \E x \in Nat : x <= t + MaxTTL /\ ExternalAck(store', store, a, x, tag)
    BY <1>9, <2>1, ImportAckCases DEF ImportAck
  <2>3. ASSUME NEW x \in Nat, x <= t + MaxTTL, ExternalAck(store', store, a, x, tag)
        PROVE  Books(store') /\ Limits(store', now)
    <3>1. x <= now + MaxTTL
      BY <1>1, <2>1, <2>3
    <3> QED
      BY <1>1, <2>0, <2>3, <3>1, ExternalAckLimits
  <2>4. Books(store') /\ Limits(store', now)
    BY <1>1, <2>2, <2>3
  <2> QED
    BY <1>1, <2>1, <2>4 DEF LInv
<1>10. CASE Tick
  <2>1. Limits(store, now + 1)
    BY <1>1, TickLimits
  <2> QED
    BY <1>1, <1>10, <2>1 DEF LInv, Tick
<1>11. CASE UNCHANGED vars
  BY <1>11 DEF LInv, vars
<1> QED
  BY <1>3, <1>4, <1>5, <1>6, <1>7, <1>8, <1>9, <1>10, <1>11 DEF Next

(***************************************************************************)
(* Books and limits hold in every reachable state of a relay's queue, for  *)
(* any ids, terms, caps, windows and clock bounds.                         *)
(***************************************************************************)
THEOREM LimitsInvariance == Spec => []LInv
<1>1. Init => LInv
  <2>1. DOMAIN NewStore.messages = {} /\ DOMAIN NewStore.acks = {}
        /\ DOMAIN NewStore.messageCredential = {} /\ DOMAIN NewStore.purges = {}
    BY DEF NewStore, EmptyMap
  <2>2. /\ \A k : InLane(NewStore, k) = {} /\ ChargedTo(NewStore, k) = {}
        /\ LooseAcks(NewStore, 1) = {} /\ DOMAIN NewStore.acks \ OwnAcks = {}
        /\ Queued(NewStore) = {}
    BY <2>1 DEF InLane, ChargedTo, LooseAcks, Queued
  <2>3. IsFiniteSet({}) /\ Cardinality({}) = 0
    BY FS_EmptySet
  <2>4. QuotasHoldIn(NewStore)
    <3>1. ASSUME NEW c \in Credentials
          PROVE  /\ lowerOf(MaxMessages, TermsOf[c].slots) \in Nat
                 /\ lowerOf(MaxPerPair, TermsOf[c].maxPerPair) \in Nat
      BY TermsType, LowerOf, QueueConstants DEF Callers
    <3>2. \A c, k : /\ Cardinality(ChargedTo(NewStore, c) \cap InLane(NewStore, k)) = 0
                    /\ Cardinality(ChargedTo(NewStore, c)) = 0
      <4>1. ASSUME NEW c, NEW k
            PROVE  ChargedTo(NewStore, c) \cap InLane(NewStore, k) = {}
        BY <2>2
      <4> QED
        BY <2>2, <2>3, <4>1
    <3> QED
      BY <3>1, <3>2 DEF QuotasHoldIn
  <2>5. WindowsHoldIn(NewStore, 1)
    BY <2>1 DEF WindowsHoldIn, Queued
  <2>6. LanesFit(NewStore) /\ ReserveFree(NewStore, 1)
    BY <2>1, <2>2, <2>3, LaneSizes DEF LanesFit, ReserveFree
  <2>7. TombstonesFit(NewStore)
    BY <2>1, <2>3, QueueConstants DEF TombstonesFit
  <2> QED
    BY <2>4, <2>5, <2>6, <2>7, NewStoreBooks DEF Init, LInv, Limits, Allowed
<1> QED
  BY <1>1, LimitsStep, PTL DEF Spec

(***************************************************************************)
(* pairCounts, credentialCounts and messageTags count exactly the records  *)
(* held, so that no circle ever holds more messages than its slots, nor    *)
(* more in one lane than its own or the box's per-pair quota.              *)
(***************************************************************************)
THEOREM CountersExact == Spec => []CountersAgree
<1>1. LInv => CountersAgree
  BY DEF LInv, Books, Limits, Allowed, CountersAgree
<1> QED
  BY <1>1, LimitsInvariance, PTL

(***************************************************************************)
(* No record outlives the box's ceiling, nor a message its circle's        *)
(* retention, however late the handler got the lock.                       *)
(***************************************************************************)
THEOREM WindowsKept == Spec => []WindowsHold
<1>1. LInv => WindowsHold
  BY DEF LInv, Limits, Allowed, WindowsHold
<1> QED
  BY <1>1, LimitsInvariance, PTL

(***************************************************************************)
(* Messages, acks and tombstones stay within their caps, and callers' acks *)
(* out of the part of the lane that is kept for the node's own.            *)
(***************************************************************************)
THEOREM CapacityKept == Spec => []Capacity
<1>1. LInv => Capacity
  BY DEF LInv, Limits, Allowed, LanesFit, TombstonesFit, Capacity, CapacityIn
<1> QED
  BY <1>1, LimitsInvariance, PTL

(***************************************************************************)
(* In no reachable state would POST /acks delete a tagged message for a    *)
(* caller who cannot prove the tag the message's id is bound to, whatever  *)
(* tags that id arrived with before.                                       *)
(***************************************************************************)
THEOREM OnlyBoundTagsDelete == Spec => []OnlyBoundTagAcks
<1>1. LInv => OnlyBoundTagAcks
  <2> SUFFICES ASSUME LInv, NEW a \in AckIDs, NEW proof \in SUBSET Tags,
                      NEW m \in Queued(store) \
                        Queued(AddAckWithGrant(store, a, 0, NoCredential, proof,
                                               ~RequireFetchAuth, now).store),
                      store.stamps[m] # None
               PROVE  BoundTo(store, m) \in proof
    BY DEF OnlyBoundTagAcks, DeletedBy
  <2> DEFINE n == AddAckWithGrant(store, a, 0, NoCredential, proof,
                                  ~RequireFetchAuth, now).store
  <2>1. now \in Nat /\ Books(store) /\ NoCredential \in Callers
    BY DEF LInv, Callers
  <2>2. \/ n = store
        \/ \E e \in Nat :
             /\ ExternalAck(n, store, a, e, BoundTo(store, ackKey(a)))
             /\ ackKey(a) \in DOMAIN store.messageTags
                  => permits(proof, ~RequireFetchAuth, store.messageTags[ackKey(a)].tag)
    BY <2>1, AddAckCases
  <2> HIDE DEF n
  <2>3. m \in Queued(store) /\ m \notin Queued(n)
    BY DEF n
  <2>4. PICK e \in Nat :
             /\ ExternalAck(n, store, a, e, BoundTo(store, ackKey(a)))
             /\ ackKey(a) \in DOMAIN store.messageTags
                  => permits(proof, ~RequireFetchAuth, store.messageTags[ackKey(a)].tag)
    BY <2>2, <2>3
  <2> DEFINE mid == insertAck(store, a, e, BoundTo(store, ackKey(a)))
  <2>5. Queued(mid) = Queued(store) /\ IsStore(mid)
    BY <2>1, BoundToType, InsertAckHeld, InsertAckType DEF Books, Sound
  <2>6. n = mid \/ n = deleteMessages(mid, {ackKey(a)})
    BY <2>4 DEF ExternalAck
  <2> HIDE DEF mid
  <2>7. m = ackKey(a)
    BY <2>3, <2>5, <2>6, DeleteMessagesHeld
  <2>8. /\ m \in DOMAIN store.messageTags
        /\ store.messageTags[m].tag = BoundTo(store, m) /\ BoundTo(store, m) # None
    BY <2>1, <2>3, NamedIsBound DEF Books, Sound, TagsBoundIn, BoundTo
  <2> QED
    BY <2>4, <2>7, <2>8 DEF permits
<1> QED
  BY <1>1, LimitsInvariance, PTL

(***************************************************************************)
(* Whatever acks are waiting, one PruneExpired gives the node's own acks   *)
(* their room: a POST /messages after it is refused as "queue full" only   *)
(* when the message queue is.                                              *)
(***************************************************************************)
THEOREM ReserveRegained == Spec => []ReserveAfterSweep
<1>1. LInv => ReserveAfterSweep
  <2> SUFFICES ASSUME LInv, NEW m \in MessageIDs, NEW c \in Callers, NEW tag \in StampsOf[m],
                      Cardinality(Queued(PruneExpired(store, now))) < MaxMessages
               PROVE  AddMessageWithGrant(PruneExpired(store, now), m, tag, 0, c, now).err
                        # "ErrQueueFull"
    BY DEF ReserveAfterSweep, RefusedForAcks
  <2> DEFINE p == PruneExpired(store, now)
             e == clampExpiry(0, lowerOf(MaxTTL, TermsOf[c].retention), now)
             coupled == addAckLocked(p, NodeReceived[m], e, tag, now)
  <2>1. now \in Nat /\ Books(store) /\ Books(p) /\ Limits(p, now)
    BY SweepLimits DEF LInv
  <2>2. \A a \in DOMAIN p.acks : ~Expired(p.acks[a].expiresAt, now)
    <3> DEFINE mid == deleteMessages(store, ExpiredMessages(store, now))
               low == deleteAcks(mid, ExpiredAcks(store, now))
               purges == Without(low.purges, ExpiredPurges(store, now))
               n == [low EXCEPT !.purges = purges]
    <3>1. IsStore(mid) /\ mid.acks = store.acks
      BY <2>1, DeleteMessagesBooks, DeleteMessagesShrinks DEF Books, Sound
    <3> HIDE DEF mid
    <3>2. /\ IsStore(low) /\ Restricts(low.acks, mid.acks)
          /\ DOMAIN low.acks = DOMAIN mid.acks \ ExpiredAcks(store, now)
      BY <3>1, DeleteAcksType, DeleteAcksShrinks DEF Shrunk
    <3> HIDE DEF low
    <3>3. NewPurges(n, low, purges)
      BY <3>2, PurgesFields
    <3> HIDE DEF n
    <3>4. n.acks = low.acks
      BY <3>3 DEF NewPurges, Fields
    <3>5. p = n
      BY DEF PruneExpired, n, low, mid
    <3> HIDE DEF p
    <3> QED
      BY <3>1, <3>2, <3>4, <3>5 DEF ExpiredAcks, Restricts
  <2> HIDE DEF p
  <2>3. Cardinality(DOMAIN p.acks) <= externalAckCapacity + Cardinality(Queued(p))
    BY <2>1, <2>2, SweptLane DEF Books, Sound, Limits
  <2>4. /\ Cardinality(DOMAIN p.acks) \in Nat /\ Cardinality(Queued(p)) \in Nat
        /\ Cardinality(Queued(p)) < MaxMessages
    <3>1. DOMAIN p.acks \in SUBSET AckIDs /\ Queued(p) \in SUBSET MessageIDs
      BY <2>1 DEF Books, Sound, IsStore, IsMap, Queued
    <3> QED
      BY <3>1, FiniteParts DEF p
  <2>5. ~(Cardinality(DOMAIN p.acks) >= maxAcks) /\ ~(Cardinality(DOMAIN p.messages) >= MaxMessages)
    BY <2>3, <2>4, LaneSizes DEF Queued
  <2>6. coupled.err # "ErrQueueFull"
    BY <2>5 DEF addAckLocked, addAckWithin, Refused, Accepted
  <2>7. addMessageError(p, m, e, c, now) # "ErrQueueFull"
    BY <2>5 DEF addMessageError
  <2> HIDE DEF e, coupled
  <2>8. AddMessageWithGrant(p, m, tag, 0, c, now).err # "ErrQueueFull"
    BY <2>6, <2>7 DEF AddMessageWithGrant, Refused, Accepted, e, coupled
  <2> QED
    BY <2>8 DEF p
<1> QED
  BY <1>1, LimitsInvariance, PTL

-----------------------------------------------------------------------------
(***************************************************************************)
(* Single steps.                                                           *)
(***************************************************************************)
(***************************************************************************)
(* The five ways a step changes the store from s to n.                     *)
(***************************************************************************)
Coupled(s, m, tag, e) == insertAck(s, NodeReceived[m], e, tag)

Queues(n, s, m, tag, e, c, t) ==
  /\ e \in Nat /\ e <= t + MaxTTL /\ ~Expired(e, t)
  /\ m \notin DOMAIN s.messages
  /\ ~Purged(s, m, t)
  /\ \/ n = addMessageLocked(s, m, tag, e, c)
     \/ /\ NodeReceived[m] \notin DOMAIN s.acks
        /\ n = addMessageLocked(Coupled(s, m, tag, e), m, tag, e, c)

Sweeps(n, s, t) ==
  \/ n = MessagesForRecipient(s, t)
  \/ n = AcksForSender(s, t)
  \/ n = PruneExpired(s, t)

Buries(n, s, h, e) == n = purgeOwnerLocked(storePurgeLocked(s, h, e), h)

Step ==
  \/ \E m \in MessageIDs, tag \in Tags \cup {None}, c \in Callers, t \in Readings, e \in Nat :
       Queues(store', store, m, tag, e, c, t)
  \/ \E a \in AckIDs, tag \in Tags \cup {None}, e \in Nat :
       ExternalAck(store', store, a, e, tag)
  \/ \E t \in Readings : Sweeps(store', store, t)
  \/ \E h \in PurgeHashes, e \in Nat : Buries(store', store, h, e)

\* A queue that the invariants hold in is well typed and keeps exact books.
LEMMA InvBooks ==
  ASSUME IInv, LInv
  PROVE  Books(store) /\ Sound(store) /\ IsStore(store) /\ now \in Nat
BY DEF IInv, LInv, Books, Sound

\* A message that POST /messages admits has not expired.
LEMMA NoErrorAlive ==
  ASSUME NEW s, NEW m, NEW e, NEW c, NEW t, addMessageError(s, m, e, c, t) = "ok"
  PROVE  ~Expired(e, t)
BY DEF addMessageError

\* Every step leaves the store alone or changes it in one of those ways.
LEMMA StepKinds ==
  ASSUME IInv, [Next]_vars
  PROVE  (store' = store /\ now' = now) \/ Tick \/ (Step /\ now' = now)
<1>1. ASSUME NEW t \in Readings, NEW m \in MessageIDs, NEW tag \in StampsOf[m],
             NEW requested \in Requests, NEW c \in Callers,
             PostMessage(m, tag, requested, c, t)
      PROVE  now' = now /\ (store' = store \/ Step)
  <2>1. t \in Nat /\ requested \in Nat /\ now' = now /\ tag \in Tags \cup {None}
    BY <1>1, ReadingsType, StoreConstants, StampsType DEF PostMessage
  <2>2. TermsOf[c].retention \in Nat
    BY TermsType
  <2>3. /\ lowerOf(MaxTTL, TermsOf[c].retention) \in Nat
        /\ lowerOf(MaxTTL, TermsOf[c].retention) <= MaxTTL
    BY <2>2, LowerOf, QueueConstants
  <2>4. ASSUME NEW e \in Nat,
               e <= t + lowerOf(MaxTTL, TermsOf[c].retention),
               addMessageError(store, m, e, c, t) = "ok",
               NodeReceived[m] \notin DOMAIN store.acks,
               store' = addMessageLocked(
                 insertAck(store, NodeReceived[m], e, tag), m, tag, e, c)
        PROVE  Step
    <3>1. e <= t + MaxTTL
      BY <2>1, <2>3, <2>4, QueueConstants
    <3>2. m \notin DOMAIN store.messages /\ ~Purged(store, m, t) /\ ~Expired(e, t)
      BY <2>4, NoError, NoErrorAlive
    <3>3. Queues(store', store, m, tag, e, c, t)
      BY <2>4, <3>1, <3>2 DEF Queues, Coupled
    <3> QED
      BY <2>1, <3>3 DEF Step
  <2>5. store' = AddMessageWithGrant(store, m, tag, requested, c, t).store
    BY <1>1 DEF PostMessage
  <2>6. store' = store \/ \E e \in Nat : Posted(store', store, m, tag, e, c, t)
    BY <2>1, <2>5, AddMessageCases
  <2>7. \/ store' = store
        \/ \E e \in Nat :
             /\ e <= t + lowerOf(MaxTTL, TermsOf[c].retention)
             /\ addMessageError(store, m, e, c, t) = "ok"
             /\ NodeReceived[m] \notin DOMAIN store.acks
             /\ store' = addMessageLocked(
                  insertAck(store, NodeReceived[m], e, tag), m, tag, e, c)
    BY <2>6 DEF Posted
  <2> QED
    BY <2>1, <2>4, <2>7
<1>2. ASSUME NEW t \in Readings, NEW a \in AckIDs, NEW requested \in Requests,
             NEW c \in Callers, NEW proof, PostAck(a, requested, c, proof, t)
      PROVE  now' = now /\ (store' = store \/ Step)
  <2>1. t \in Nat /\ requested \in Nat /\ now' = now
    BY <1>2, ReadingsType, StoreConstants DEF PostAck
  <2>2. \/ store' = store
        \/ \E e \in Nat : ExternalAck(store', store, a, e, BoundTo(store, ackKey(a)))
    BY <1>2, <2>1, AddAckCases DEF PostAck
  <2>3. BoundTo(store, ackKey(a)) \in Tags \cup {None}
    BY BoundToType DEF IInv, Sound
  <2> QED
    BY <2>1, <2>2, <2>3 DEF Step
<1>3. ASSUME NEW t \in Readings, GetMessages(t) \/ GetAcks(t) \/ Prune(t)
      PROVE  now' = now /\ Step
  BY <1>3 DEF GetMessages, GetAcks, Prune, Step, Sweeps
<1>4. ASSUME NEW h \in PurgeHashes, Purge(h)
      PROVE  now' = now /\ Step
  <2>1. now + DefaultTTL \in Nat
    BY QueueConstants DEF IInv
  <2> QED
    BY <1>4, <2>1 DEF Purge, PurgeOwner, Step, Buries
<1>5. ASSUME NEW t \in Readings, NEW h \in PurgeHashes, NEW e \in Requests,
             ImportPurge(h, e, t)
      PROVE  now' = now /\ (store' = store \/ Step)
  BY <1>5, StoreConstants DEF ImportPurge, importPurge, Step, Buries
<1>6. ASSUME NEW t \in Readings, NEW m \in MessageIDs, NEW tag \in StampsOf[m],
             NEW requested \in Requests, ImportMessage(m, tag, requested, t)
      PROVE  now' = now /\ (store' = store \/ Step)
  <2>1. /\ t \in Nat /\ requested \in Nat /\ now' = now
        /\ NoCredential \in Callers /\ tag \in Tags \cup {None}
    BY <1>6, ReadingsType, StoreConstants, StampsType DEF ImportMessage, Callers
  <2>2. \/ store' = store
        \/ \E e \in Nat : Queues(store', store, m, tag, e, NoCredential, t)
    BY <1>6, <2>1, ImportMessageCases DEF ImportMessage, Queues
  <2> QED
    BY <2>1, <2>2 DEF Step
<1>7. ASSUME NEW t \in Readings, NEW a \in AckIDs, NEW e \in Requests,
             NEW tag \in StampsOf[ackKey(a)] \cup {None}, ImportAck(a, e, tag, t)
      PROVE  now' = now /\ (store' = store \/ Step)
  <2>1. t \in Nat /\ e \in Nat /\ tag \in Tags \cup {None} /\ now' = now
    BY <1>7, ReadingsType, StoreConstants, StampsType DEF ImportAck
  <2>2. store' = store \/ \E x \in Nat : ExternalAck(store', store, a, x, tag)
    BY <1>7, <2>1, ImportAckCases DEF ImportAck
  <2> QED
    BY <2>1, <2>2 DEF Step
<1>8. CASE UNCHANGED vars
  BY <1>8 DEF vars
<1> QED
  BY <1>1, <1>2, <1>3, <1>4, <1>5, <1>6, <1>7, <1>8 DEF Next

-----------------------------------------------------------------------------
(***************************************************************************)
(* PurgeOwner, and a replicated tombstone, as a whole.                     *)
(***************************************************************************)
Owned(s, h) == {m \in Queued(s) : purgeKey(m) = h}

\* A burial takes the owner's mail and what names it, and nothing else.
LEMMA BuryEffect ==
  ASSUME NEW s, Books(s), NEW n, NEW h \in PurgeHashes, NEW e \in Nat, Buries(n, s, h, e)
  PROVE  /\ Books(n) /\ Shrunk(n, s)
         /\ Queued(n) = Queued(s) \ Owned(s, h)
         /\ DOMAIN n.acks = {a \in DOMAIN s.acks : ackKey(a) \notin Owned(s, h)}
         /\ n.purges = s.purges \/ n.purges = Put(s.purges, h, e)
<1> DEFINE mid == storePurgeLocked(s, h, e)
<1>1. /\ Books(mid)
      /\ mid.messages = s.messages /\ mid.acks = s.acks
      /\ mid.messageCredential = s.messageCredential
      /\ mid.purges = s.purges \/ mid.purges = Put(s.purges, h, e)
  BY StorePurgeBooks
<1>2. n = purgeOwnerLocked(mid, h)
  BY DEF Buries
<1> HIDE DEF mid
<1>3. /\ Books(n) /\ Shrunk(n, mid) /\ n.purges = mid.purges
      /\ Queued(n) = Queued(mid) \ Owned(mid, h)
      /\ DOMAIN n.acks = {a \in DOMAIN mid.acks : ackKey(a) \notin Owned(mid, h)}
  BY <1>1, <1>2, PurgeOwnerShrinks DEF Owned
<1>4. Queued(mid) = Queued(s) /\ Owned(mid, h) = Owned(s, h)
  BY <1>1 DEF Queued, Owned
<1>5. Shrunk(n, s)
  BY <1>1, <1>3 DEF Shrunk
<1> QED
  BY <1>1, <1>3, <1>4, <1>5

(***************************************************************************)
(* POST /profile/purge leaves no message of the owner and no ack naming    *)
(* one, and takes nobody else's message, in every state a relay can reach. *)
(***************************************************************************)
THEOREM PurgeComplete == Spec => PurgeIsComplete
<1> DEFINE Complete ==
      \A hash \in PurgeHashes : Purge(hash) =>
        LET owned == {m \in Queued(store) : purgeKey(m) = hash}
        IN  /\ {m \in Queued(store') : purgeKey(m) = hash} = {}
            /\ \A m \in owned : Naming(store', m) = {}
            /\ Queued(store') = Queued(store) \ owned
<1>1. ASSUME IInv, LInv, NEW hash \in PurgeHashes, Purge(hash)
      PROVE  /\ {m \in Queued(store') : purgeKey(m) = hash} = {}
             /\ \A m \in Owned(store, hash) : Naming(store', m) = {}
             /\ Queued(store') = Queued(store) \ Owned(store, hash)
  <2>1. Books(store) /\ now + DefaultTTL \in Nat
    BY <1>1, InvBooks, QueueConstants
  <2>2. Buries(store', store, hash, now + DefaultTTL)
    BY <1>1 DEF Purge, PurgeOwner, Buries
  <2>3. /\ Queued(store') = Queued(store) \ Owned(store, hash)
        /\ DOMAIN store'.acks =
             {a \in DOMAIN store.acks : ackKey(a) \notin Owned(store, hash)}
    BY <2>1, <2>2, BuryEffect
  <2> QED
    BY <2>3 DEF Owned, Naming
<1>2. IInv /\ LInv /\ [Next]_vars => [Complete]_vars
  BY <1>1 DEF Owned
<1> QED
  BY <1>2, Invariance, LimitsInvariance, PTL DEF Spec, PurgeIsComplete

-----------------------------------------------------------------------------
(***************************************************************************)
(* Arrival numbers, from a store s to a later one n.                       *)
(***************************************************************************)
ArrivalsKept(n, s) ==
  /\ n.seq >= s.seq
  /\ \A m \in Queued(n) :
       IF m \in Queued(s) THEN n.messageSeq[m] = s.messageSeq[m]
       ELSE n.messageSeq[m] > s.seq
  /\ \A a \in DOMAIN n.acks :
       IF a \in DOMAIN s.acks THEN n.ackSeq[a] = s.ackSeq[a]
       ELSE n.ackSeq[a] > s.seq

\* The counter is a number, and so is every arrival.
LEMMA ArrivalsType ==
  ASSUME NEW s, Sound(s)
  PROVE  /\ s.seq \in Nat
         /\ DOMAIN s.messageSeq = Queued(s) /\ DOMAIN s.ackSeq = DOMAIN s.acks
         /\ \A m \in Queued(s) : s.messageSeq[m] \in Nat
         /\ \A a \in DOMAIN s.acks : s.ackSeq[a] \in Nat
BY DEF Sound, IsStore, IsMap, ArrivalsAgreeIn

\* Two steps that do not bring back what the first removed.
LEMMA ArrivalsTwice ==
  ASSUME NEW s, Sound(s), NEW mid, Sound(mid), NEW n, Sound(n),
         ArrivalsKept(mid, s), ArrivalsKept(n, mid),
         Queued(n) \cap Queued(s) \subseteq Queued(mid),
         DOMAIN n.acks \cap DOMAIN s.acks \subseteq DOMAIN mid.acks
  PROVE  ArrivalsKept(n, s)
<1>1. s.seq \in Nat /\ mid.seq \in Nat /\ n.seq \in Nat
  BY ArrivalsType
<1>2. /\ \A m \in Queued(n) : n.messageSeq[m] \in Nat
      /\ \A a \in DOMAIN n.acks : n.ackSeq[a] \in Nat
  BY ArrivalsType
<1>3. n.seq >= s.seq /\ mid.seq >= s.seq
  BY <1>1 DEF ArrivalsKept
<1>4. ASSUME NEW m \in Queued(n)
      PROVE  IF m \in Queued(s) THEN n.messageSeq[m] = s.messageSeq[m]
             ELSE n.messageSeq[m] > s.seq
  BY <1>1, <1>2, <1>3 DEF ArrivalsKept
<1>5. ASSUME NEW a \in DOMAIN n.acks
      PROVE  IF a \in DOMAIN s.acks THEN n.ackSeq[a] = s.ackSeq[a]
             ELSE n.ackSeq[a] > s.seq
  BY <1>1, <1>2, <1>3 DEF ArrivalsKept
<1> QED
  BY <1>3, <1>4, <1>5 DEF ArrivalsKept

\* A new ack gets the next number.
LEMMA InsertAckKeeps ==
  ASSUME NEW s, Sound(s), NEW a \in AckIDs, NEW e, NEW tag, a \notin DOMAIN s.acks
  PROVE  LET n == insertAck(s, a, e, tag)
         IN  /\ ArrivalsKept(n, s) /\ Queued(n) = Queued(s)
             /\ DOMAIN n.acks = DOMAIN s.acks \cup {a}
<1> DEFINE n == insertAck(s, a, e, tag)
<1>1. InsertedAck(n, s, a, e, tag)
  BY InsertAckFields DEF Sound
<1> HIDE DEF n
<1>2. /\ n.messages = s.messages /\ n.seq = s.seq + 1
      /\ n.messageSeq = s.messageSeq /\ n.ackSeq = Put(s.ackSeq, a, s.seq + 1)
      /\ DOMAIN n.acks = DOMAIN s.acks \cup {a}
  BY <1>1 DEF InsertedAck, Put
<1>3. s.seq \in Nat /\ DOMAIN s.ackSeq = DOMAIN s.acks
  BY ArrivalsType
<1>4. ArrivalsKept(n, s) /\ Queued(n) = Queued(s)
  BY <1>2, <1>3 DEF ArrivalsKept, Queued, Put
<1> QED
  BY <1>2, <1>4 DEF n

\* A new message gets the next number.
LEMMA AddMessageKeeps ==
  ASSUME NEW s, Sound(s), NEW m \in MessageIDs, NEW tag, NEW e, NEW c,
         m \notin DOMAIN s.messages
  PROVE  LET n == addMessageLocked(s, m, tag, e, c)
         IN  /\ ArrivalsKept(n, s) /\ n.acks = s.acks
             /\ Queued(n) = Queued(s) \cup {m}
<1> DEFINE n == addMessageLocked(s, m, tag, e, c)
<1>1. AddedMessage(n, s, m, tag, e, c)
  BY AddMessageFields DEF Sound
<1> HIDE DEF n
<1>2. /\ n.acks = s.acks /\ n.seq = s.seq + 1
      /\ n.ackSeq = s.ackSeq /\ n.messageSeq = Put(s.messageSeq, m, s.seq + 1)
      /\ Queued(n) = Queued(s) \cup {m}
  BY <1>1 DEF AddedMessage, Put, Queued
<1>3. s.seq \in Nat /\ DOMAIN s.messageSeq = Queued(s) /\ m \notin Queued(s)
  BY ArrivalsType DEF Queued
<1>4. ArrivalsKept(n, s)
  BY <1>2, <1>3 DEF ArrivalsKept, Put
<1> QED
  BY <1>2, <1>4 DEF n

\* Deleting messages renumbers nothing.
LEMMA DeleteMessagesKeeps ==
  ASSUME NEW s, Sound(s), NEW ids
  PROVE  LET n == deleteMessages(s, ids)
         IN  /\ ArrivalsKept(n, s) /\ n.acks = s.acks
             /\ Queued(n) = Queued(s) \ ids
<1> DEFINE n == deleteMessages(s, ids)
           gone == ids \cap DOMAIN s.messages
<1>1. DeletedMessages(n, s, gone)
  BY DeleteMessagesFields DEF Sound
<1> HIDE DEF n
<1>2. /\ n.acks = s.acks /\ n.seq = s.seq /\ n.ackSeq = s.ackSeq
      /\ n.messageSeq = Without(s.messageSeq, gone)
      /\ Queued(n) = Queued(s) \ ids
  BY <1>1 DEF DeletedMessages, Without, Queued
<1>3. s.seq \in Nat /\ DOMAIN s.messageSeq = Queued(s)
  BY ArrivalsType
<1>4. ArrivalsKept(n, s)
  BY <1>2, <1>3 DEF ArrivalsKept, Without, Queued
<1> QED
  BY <1>2, <1>4 DEF n

\* Deleting acks renumbers nothing.
LEMMA DeleteAcksKeeps ==
  ASSUME NEW s, Sound(s), NEW ids
  PROVE  LET n == deleteAcks(s, ids)
         IN  /\ ArrivalsKept(n, s) /\ n.messages = s.messages
             /\ DOMAIN n.acks = DOMAIN s.acks \ ids
<1> DEFINE n == deleteAcks(s, ids)
           gone == ids \cap DOMAIN s.acks
<1>1. DeletedAcks(n, s, gone)
  BY DeleteAcksFields DEF Sound
<1> HIDE DEF n
<1>2. /\ n.messages = s.messages /\ n.seq = s.seq /\ n.messageSeq = s.messageSeq
      /\ n.ackSeq = Without(s.ackSeq, gone)
      /\ DOMAIN n.acks = DOMAIN s.acks \ ids
  BY <1>1 DEF DeletedAcks, Without
<1>3. s.seq \in Nat /\ DOMAIN s.ackSeq = DOMAIN s.acks
  BY ArrivalsType
<1>4. ArrivalsKept(n, s)
  BY <1>2, <1>3 DEF ArrivalsKept, Without, Queued
<1> QED
  BY <1>2, <1>4 DEF n

\* A new tombstone map renumbers nothing.
LEMMA PurgesKeep ==
  ASSUME NEW s, Sound(s), NEW purges
  PROVE  LET n == [s EXCEPT !.purges = purges]
         IN  ArrivalsKept(n, s) /\ n.messages = s.messages /\ n.acks = s.acks
<1> DEFINE n == [s EXCEPT !.purges = purges]
<1>1. NewPurges(n, s, purges)
  BY PurgesFields DEF Sound
<1> HIDE DEF n
<1>2. /\ n.messages = s.messages /\ n.acks = s.acks /\ n.seq = s.seq
      /\ n.messageSeq = s.messageSeq /\ n.ackSeq = s.ackSeq
  BY <1>1 DEF NewPurges, Fields
<1>3. s.seq \in Nat
  BY ArrivalsType
<1>4. ArrivalsKept(n, s)
  BY <1>2, <1>3 DEF ArrivalsKept, Queued
<1> QED
  BY <1>2, <1>4 DEF n

\* Removing messages and then acks renumbers nothing.
LEMMA DeletionsKeep ==
  ASSUME NEW s, Sound(s), NEW ids, NEW acks
  PROVE  LET n == deleteAcks(deleteMessages(s, ids), acks)
         IN  /\ Sound(n) /\ ArrivalsKept(n, s)
             /\ Queued(n) \subseteq Queued(s) /\ DOMAIN n.acks \subseteq DOMAIN s.acks
<1> DEFINE mid == deleteMessages(s, ids)
           n == deleteAcks(mid, acks)
<1>1. /\ Sound(mid) /\ ArrivalsKept(mid, s) /\ mid.acks = s.acks
      /\ Queued(mid) = Queued(s) \ ids
  BY DeleteMessagesSound, DeleteMessagesKeeps
<1> HIDE DEF mid
<1>2. /\ Sound(n) /\ ArrivalsKept(n, mid) /\ n.messages = mid.messages
      /\ DOMAIN n.acks = DOMAIN mid.acks \ acks
  BY <1>1, DeleteAcksSound, DeleteAcksKeeps
<1> HIDE DEF n
<1>3. Queued(n) = Queued(mid)
  BY <1>2 DEF Queued
<1>4. ArrivalsKept(n, s)
  BY <1>1, <1>2, <1>3, ArrivalsTwice
<1> QED
  BY <1>1, <1>2, <1>3, <1>4 DEF n, mid

\* Queuing a message, with or without its coupled ack.
LEMMA QueuesKeeps ==
  ASSUME NEW s, Sound(s), NEW n, NEW m \in MessageIDs, NEW tag \in Tags \cup {None},
         NEW e, NEW c \in Callers, NEW t, Queues(n, s, m, tag, e, c, t)
  PROVE  ArrivalsKept(n, s)
<1>1. e \in Nat /\ m \notin DOMAIN s.messages
  BY DEF Queues
<1>2. CASE n = addMessageLocked(s, m, tag, e, c)
  BY <1>1, <1>2, AddMessageKeeps
<1>3. CASE /\ NodeReceived[m] \notin DOMAIN s.acks
           /\ n = addMessageLocked(Coupled(s, m, tag, e), m, tag, e, c)
  <2> DEFINE mid == Coupled(s, m, tag, e)
  <2>1. NodeReceived[m] \in AckIDs
    BY Bodies
  <2>2. /\ Sound(mid) /\ ArrivalsKept(mid, s) /\ Queued(mid) = Queued(s)
        /\ DOMAIN mid.acks = DOMAIN s.acks \cup {NodeReceived[m]}
    BY <1>1, <1>3, <2>1, InsertAckSound, InsertAckKeeps DEF Coupled
  <2> HIDE DEF mid
  <2>3. m \notin DOMAIN mid.messages /\ n = addMessageLocked(mid, m, tag, e, c)
    BY <1>1, <1>3, <2>2 DEF Queued, mid
  <2>4. Sound(n) /\ ArrivalsKept(n, mid) /\ n.acks = mid.acks
    BY <1>1, <2>2, <2>3, AddMessageSound, AddMessageKeeps
  <2> QED
    BY <2>2, <2>4, ArrivalsTwice
<1> QED
  BY <1>2, <1>3 DEF Queues

\* Taking an ack in, with or without the deletion it causes.
LEMMA ExternalAckKeeps ==
  ASSUME NEW s, Sound(s), NEW n, NEW a \in AckIDs, NEW tag \in Tags \cup {None}, NEW e,
         ExternalAck(n, s, a, e, tag)
  PROVE  ArrivalsKept(n, s)
<1> DEFINE mid == insertAck(s, a, e, tag)
<1>1. e \in Nat /\ a \notin DOMAIN s.acks
  BY DEF ExternalAck
<1>2. /\ Sound(mid) /\ ArrivalsKept(mid, s) /\ Queued(mid) = Queued(s)
      /\ DOMAIN mid.acks = DOMAIN s.acks \cup {a}
  BY <1>1, InsertAckSound, InsertAckKeeps
<1>3. n = mid \/ n = deleteMessages(mid, {ackKey(a)})
  BY DEF ExternalAck
<1> HIDE DEF mid
<1>4. CASE n = mid
  BY <1>2, <1>4
<1>5. CASE n = deleteMessages(mid, {ackKey(a)})
  <2>1. Sound(n) /\ ArrivalsKept(n, mid) /\ n.acks = mid.acks
        /\ Queued(n) = Queued(mid) \ {ackKey(a)}
    BY <1>2, <1>5, DeleteMessagesSound, DeleteMessagesKeeps
  <2> QED
    BY <1>2, <2>1, ArrivalsTwice
<1> QED
  BY <1>3, <1>4, <1>5

\* The fetches and the cleanup renumber nothing.
LEMMA SweepsKeep ==
  ASSUME NEW s, Sound(s), NEW n, NEW t, Sweeps(n, s, t)
  PROVE  ArrivalsKept(n, s)
<1>1. CASE n = MessagesForRecipient(s, t)
  BY <1>1, DeleteMessagesKeeps DEF MessagesForRecipient
<1>2. CASE n = AcksForSender(s, t)
  BY <1>2, DeleteAcksKeeps DEF AcksForSender
<1>3. CASE n = PruneExpired(s, t)
  <2> DEFINE mid == deleteAcks(deleteMessages(s, ExpiredMessages(s, t)), ExpiredAcks(s, t))
             purges == Without(mid.purges, ExpiredPurges(s, t))
  <2>1. /\ Sound(mid) /\ ArrivalsKept(mid, s)
        /\ Queued(mid) \subseteq Queued(s) /\ DOMAIN mid.acks \subseteq DOMAIN s.acks
    BY DeletionsKeep
  <2>2. n = [mid EXCEPT !.purges = purges]
    BY <1>3 DEF PruneExpired
  <2>3. Sound(n)
    BY <1>3, PruneSound
  <2> HIDE DEF mid, purges
  <2>4. ArrivalsKept(n, mid) /\ n.messages = mid.messages /\ n.acks = mid.acks
    BY <2>1, <2>2, PurgesKeep
  <2>5. Queued(n) = Queued(mid)
    BY <2>4 DEF Queued
  <2> QED
    BY <2>1, <2>3, <2>4, <2>5, ArrivalsTwice
<1> QED
  BY <1>1, <1>2, <1>3 DEF Sweeps

\* A burial renumbers nothing.
LEMMA BuriesKeeps ==
  ASSUME NEW s, Sound(s), NEW n, NEW h \in PurgeHashes, NEW e \in Nat, Buries(n, s, h, e)
  PROVE  ArrivalsKept(n, s)
<1> DEFINE mid == storePurgeLocked(s, h, e)
<1>1. Sound(mid)
  BY StorePurgeSound
<1>2. ArrivalsKept(mid, s) /\ mid.messages = s.messages /\ mid.acks = s.acks
  <2>1. CASE mid = s
    BY <2>1, ArrivalsType DEF ArrivalsKept
  <2>2. CASE mid = [s EXCEPT !.purges = Put(s.purges, h, e)]
    BY <2>2, PurgesKeep
  <2> QED
    BY <2>1, <2>2 DEF storePurgeLocked
<1>3. \E ids, acks : n = deleteAcks(deleteMessages(mid, ids), acks)
  BY DEF Buries, purgeOwnerLocked
<1> HIDE DEF mid
<1>4. /\ Sound(n) /\ ArrivalsKept(n, mid)
      /\ Queued(n) \subseteq Queued(mid) /\ DOMAIN n.acks \subseteq DOMAIN mid.acks
  BY <1>1, <1>3, DeletionsKeep
<1> QED
  BY <1>1, <1>2, <1>4, ArrivalsTwice

(***************************************************************************)
(* Arrival numbers never go back, a record keeps the one it got, and a new *)
(* record gets one above all that were handed out: what a peer's paging    *)
(* cursor relies on.                                                       *)
(***************************************************************************)
THEOREM ArrivalsNeverMove == Spec => ArrivalsStable
<1>1. ASSUME IInv, [Next]_vars PROVE ArrivalsKept(store', store)
  <2>1. Sound(store)
    BY <1>1 DEF IInv
  <2>2. CASE store' = store
    BY <2>1, <2>2, ArrivalsType DEF ArrivalsKept
  <2>3. CASE Step
    BY <2>1, <2>3, QueuesKeeps, ExternalAckKeeps, SweepsKeep, BuriesKeeps DEF Step
  <2> QED
    BY <1>1, <2>2, <2>3, StepKinds DEF Tick
<1>2. IInv /\ [Next]_vars => ArrivalsKept(store', store)
  BY <1>1
<1>3. ArrivalsKept(store', store) =>
        [/\ store'.seq >= store.seq
         /\ \A m \in Queued(store') :
              IF m \in Queued(store) THEN store'.messageSeq[m] = store.messageSeq[m]
              ELSE store'.messageSeq[m] > store.seq
         /\ \A a \in DOMAIN store'.acks :
              IF a \in DOMAIN store.acks THEN store'.ackSeq[a] = store.ackSeq[a]
              ELSE store'.ackSeq[a] > store.seq]_vars
  BY DEF ArrivalsKept
<1> QED
  BY <1>2, <1>3, Invariance, PTL DEF Spec, ArrivalsStable

-----------------------------------------------------------------------------
(***************************************************************************)
(* The tag to prove, from a store s to a later one n.                      *)
(***************************************************************************)
BindingKept(n, s) ==
  \A m \in MessageIDs : Named(n, m) =>
    IF BoundTo(s, m) # None THEN BoundTo(n, m) = BoundTo(s, m)
    ELSE m \in Queued(n) \ Queued(s) => BoundTo(n, m) = n.stamps[m]

\* Releasing twice is releasing.
LEMMA ReleasedTwice ==
  ASSUME NEW s, NEW mid, NEW n, Released(mid, s), Released(n, mid)
  PROVE  Released(n, s)
BY DEF Released

\* What some record names has a binding.
LEMMA NamedBound ==
  ASSUME NEW s, Books(s), NEW m, Named(s, m)
  PROVE  m \in DOMAIN s.messageTags
BY NamedIsBound DEF Books, Sound, Named, Naming

\* Records that only leave change no tag to prove.
LEMMA ReleasedKept ==
  ASSUME NEW s, NEW n, Books(n), Released(n, s), Queued(n) \subseteq Queued(s)
  PROVE  BindingKept(n, s)
BY NamedBound DEF BindingKept, Released

\* A new ack brings a tag only to an id that has none.
LEMMA InsertAckBinds ==
  ASSUME NEW s, IsStore(s), NEW a \in AckIDs, NEW e, NEW tag
  PROVE  LET n == insertAck(s, a, e, tag)
         IN  /\ BoundTo(n, ackKey(a)) = IF BoundTo(s, ackKey(a)) # None
                                        THEN BoundTo(s, ackKey(a)) ELSE tag
             /\ \A x : x # ackKey(a) => BoundTo(n, x) = BoundTo(s, x)
<1> DEFINE n == insertAck(s, a, e, tag)
<1>1. InsertedAck(n, s, a, e, tag)
  BY InsertAckFields
<1> HIDE DEF n
<1>2. /\ n.messageTags = bindMessageTag(s.messageTags, ackKey(a), tag)
      /\ TagMap(s.messageTags) /\ ackKey(a) \in MessageIDs
  BY <1>1, Bodies DEF InsertedAck, IsStore, TagMap
<1> QED
  BY <1>2, BindBoundTo DEF n

\* A new message brings a tag only to an id that has none.
LEMMA AddMessageBinds ==
  ASSUME NEW s, IsStore(s), NEW m \in MessageIDs, NEW tag, NEW e, NEW c
  PROVE  LET n == addMessageLocked(s, m, tag, e, c)
         IN  /\ BoundTo(n, m) = IF BoundTo(s, m) # None THEN BoundTo(s, m) ELSE tag
             /\ \A x : x # m => BoundTo(n, x) = BoundTo(s, x)
             /\ n.stamps[m] = tag
<1> DEFINE n == addMessageLocked(s, m, tag, e, c)
<1>1. AddedMessage(n, s, m, tag, e, c)
  BY AddMessageFields
<1> HIDE DEF n
<1>2. n.messageTags = bindMessageTag(s.messageTags, m, tag) /\ TagMap(s.messageTags)
  BY <1>1 DEF AddedMessage, IsStore, TagMap
<1>3. /\ BoundTo(n, m) = IF BoundTo(s, m) # None THEN BoundTo(s, m) ELSE tag
      /\ \A x : x # m => BoundTo(n, x) = BoundTo(s, x)
  BY <1>2, BindBoundTo
<1>4. n.stamps[m] = tag
  BY <1>1 DEF AddedMessage, Put
<1> QED
  BY <1>3, <1>4 DEF n

\* A queued message, with or without its coupled ack, binds an unbound id.
LEMMA QueuesBinds ==
  ASSUME NEW s, Sound(s), NEW n, NEW m \in MessageIDs, NEW tag \in Tags \cup {None},
         NEW e, NEW c \in Callers, NEW t, Queues(n, s, m, tag, e, c, t)
  PROVE  BindingKept(n, s)
<1>1. e \in Nat /\ IsStore(s) /\ NodeReceived[m] \in AckIDs /\ ackKey(NodeReceived[m]) = m
  BY Bodies DEF Queues, Sound
<1>2. CASE n = addMessageLocked(s, m, tag, e, c)
  <2>1. /\ BoundTo(n, m) = IF BoundTo(s, m) # None THEN BoundTo(s, m) ELSE tag
        /\ \A x : x # m => BoundTo(n, x) = BoundTo(s, x)
        /\ n.stamps[m] = tag /\ Queued(n) = Queued(s) \cup {m}
    BY <1>1, <1>2, AddMessageBinds, AddMessageHeld
  <2> QED
    BY <2>1 DEF BindingKept
<1>3. CASE n = addMessageLocked(Coupled(s, m, tag, e), m, tag, e, c)
  <2> DEFINE mid == Coupled(s, m, tag, e)
  <2>1. IsStore(mid) /\ Queued(mid) = Queued(s)
    BY <1>1, InsertAckType, InsertAckHeld DEF Coupled
  <2>2. /\ BoundTo(mid, m) = IF BoundTo(s, m) # None THEN BoundTo(s, m) ELSE tag
        /\ \A x : x # m => BoundTo(mid, x) = BoundTo(s, x)
    BY <1>1, InsertAckBinds DEF Coupled
  <2>3. n = addMessageLocked(mid, m, tag, e, c)
    BY <1>3
  <2> HIDE DEF mid
  <2>4. /\ BoundTo(n, m) = IF BoundTo(mid, m) # None THEN BoundTo(mid, m) ELSE tag
        /\ \A x : x # m => BoundTo(n, x) = BoundTo(mid, x)
        /\ n.stamps[m] = tag /\ Queued(n) = Queued(mid) \cup {m}
    BY <2>1, <2>3, AddMessageBinds, AddMessageHeld
  <2> QED
    BY <2>1, <2>2, <2>4 DEF BindingKept
<1> QED
  BY <1>2, <1>3 DEF Queues

\* An ack from outside keeps the tag its message is bound to.
LEMMA ExternalAckBinds ==
  ASSUME NEW s, Sound(s), NEW n, Books(n), NEW a \in AckIDs, NEW tag \in Tags \cup {None},
         NEW e, ExternalAck(n, s, a, e, tag)
  PROVE  BindingKept(n, s)
<1> DEFINE mid == insertAck(s, a, e, tag)
<1>1. e \in Nat /\ IsStore(s)
  BY DEF ExternalAck, Sound
<1>2. /\ IsStore(mid) /\ Queued(mid) = Queued(s)
      /\ \A x : BoundTo(s, x) # None => BoundTo(mid, x) = BoundTo(s, x)
  BY <1>1, InsertAckType, InsertAckHeld, InsertAckBinds
<1>3. n = mid \/ n = deleteMessages(mid, {ackKey(a)})
  BY DEF ExternalAck
<1> HIDE DEF mid
<1>4. Released(n, mid) /\ Queued(n) \subseteq Queued(s)
  <2>1. CASE n = mid
    BY <1>2, <2>1 DEF Released
  <2>2. CASE n = deleteMessages(mid, {ackKey(a)})
    BY <1>2, <2>2, DeleteMessagesReleases, DeleteMessagesHeld
  <2> QED
    BY <1>3, <2>1, <2>2
<1>5. ASSUME NEW m \in MessageIDs, Named(n, m), BoundTo(s, m) # None
      PROVE  BoundTo(n, m) = BoundTo(s, m)
  <2>1. m \in DOMAIN n.messageTags
    BY <1>5, NamedBound
  <2> QED
    BY <1>2, <1>4, <1>5, <2>1 DEF Released
<1> QED
  BY <1>4, <1>5 DEF BindingKept

\* Deleting messages and then acks only releases bindings.
LEMMA DeletionsRelease ==
  ASSUME NEW s, IsStore(s), NEW ids, NEW acks
  PROVE  Released(deleteAcks(deleteMessages(s, ids), acks), s)
BY DeleteMessagesType, DeleteMessagesReleases, DeleteAcksReleases, ReleasedTwice

\* The tombstones have no part in the bindings.
LEMMA PurgesRelease ==
  ASSUME NEW s, IsStore(s), NEW purges
  PROVE  Released([s EXCEPT !.purges = purges], s)
<1> DEFINE n == [s EXCEPT !.purges = purges]
<1>1. NewPurges(n, s, purges)
  BY PurgesFields
<1> HIDE DEF n
<1>2. n.messageTags = s.messageTags
  BY <1>1 DEF NewPurges, Fields
<1>3. Released(n, s)
  BY <1>2 DEF Released, BoundTo
<1> QED
  BY <1>3 DEF n

\* The fetches and the cleanup only release bindings.
LEMMA SweepsRelease ==
  ASSUME NEW s, Sound(s), NEW n, NEW t, Sweeps(n, s, t)
  PROVE  Released(n, s) /\ Queued(n) \subseteq Queued(s)
<1>1. IsStore(s)
  BY DEF Sound
<1>2. CASE n = MessagesForRecipient(s, t)
  BY <1>1, <1>2, DeleteMessagesReleases, DeleteMessagesHeld DEF MessagesForRecipient
<1>3. CASE n = AcksForSender(s, t)
  BY <1>1, <1>3, DeleteAcksReleases, DeleteAcksHeld DEF AcksForSender
<1>4. CASE n = PruneExpired(s, t)
  <2> DEFINE mid == deleteAcks(deleteMessages(s, ExpiredMessages(s, t)), ExpiredAcks(s, t))
             purges == Without(mid.purges, ExpiredPurges(s, t))
  <2>1. IsStore(mid) /\ Released(mid, s)
    BY <1>1, DeletionsRelease, DeleteMessagesType, DeleteAcksType
  <2>2. n = [mid EXCEPT !.purges = purges]
    BY <1>4 DEF PruneExpired
  <2> HIDE DEF mid, purges
  <2>3. Released(n, mid)
    BY <2>1, <2>2, PurgesRelease
  <2> QED
    BY <1>4, <2>1, <2>3, ReleasedTwice, PruneHeld
<1> QED
  BY <1>2, <1>3, <1>4 DEF Sweeps

\* A burial only releases bindings.
LEMMA BuriesRelease ==
  ASSUME NEW s, Books(s), NEW n, NEW h \in PurgeHashes, NEW e \in Nat, Buries(n, s, h, e)
  PROVE  Released(n, s) /\ Queued(n) \subseteq Queued(s)
<1> DEFINE mid == storePurgeLocked(s, h, e)
<1>1. IsStore(s) /\ IsStore(mid)
  BY StorePurgeSound DEF Books, Sound
<1>2. Released(mid, s)
  <2>1. CASE mid = s
    BY <2>1 DEF Released
  <2>2. CASE mid = [s EXCEPT !.purges = Put(s.purges, h, e)]
    BY <1>1, <2>2, PurgesRelease
  <2> QED
    BY <2>1, <2>2 DEF storePurgeLocked
<1>3. \E ids, acks : n = deleteAcks(deleteMessages(mid, ids), acks)
  BY DEF Buries, purgeOwnerLocked
<1> HIDE DEF mid
<1>4. Released(n, mid)
  BY <1>1, <1>3, DeletionsRelease
<1>5. Queued(n) \subseteq Queued(s)
  BY BuryEffect
<1> QED
  BY <1>2, <1>4, <1>5, ReleasedTwice

(***************************************************************************)
(* The tag to prove for an id never changes while a record names the id,   *)
(* and a message whose id had none is bound to its own: for every run of   *)
(* posts, acks, imports, sweeps and purges, with any tags on any of them.  *)
(***************************************************************************)
THEOREM OwnersBound == Spec => OwnerBound
<1> DEFINE Kept ==
      \A m \in MessageIDs : Named(store', m) =>
        IF BoundTo(store, m) # None THEN BoundTo(store', m) = BoundTo(store, m)
        ELSE m \in Queued(store') \ Queued(store) =>
               BoundTo(store', m) = store'.stamps[m]
<1>1. ASSUME IInv, LInv, [Next]_vars PROVE BindingKept(store', store)
  <2>1. Books(store) /\ Sound(store) /\ Books(store')
    BY <1>1, InvBooks, LimitsStep DEF LInv
  <2>2. CASE store' = store
    BY <2>2 DEF BindingKept
  <2>3. CASE Step
    <3>1. ASSUME NEW m \in MessageIDs, NEW tag \in Tags \cup {None}, NEW c \in Callers,
                 NEW t \in Readings, NEW e \in Nat, Queues(store', store, m, tag, e, c, t)
          PROVE  BindingKept(store', store)
      BY <2>1, <3>1, QueuesBinds
    <3>2. ASSUME NEW a \in AckIDs, NEW tag \in Tags \cup {None}, NEW e \in Nat,
                 ExternalAck(store', store, a, e, tag)
          PROVE  BindingKept(store', store)
      BY <2>1, <3>2, ExternalAckBinds
    <3>3. ASSUME NEW t \in Readings, Sweeps(store', store, t)
          PROVE  BindingKept(store', store)
      BY <2>1, <3>3, SweepsRelease, ReleasedKept
    <3>4. ASSUME NEW h \in PurgeHashes, NEW e \in Nat, Buries(store', store, h, e)
          PROVE  BindingKept(store', store)
      BY <2>1, <3>4, BuriesRelease, ReleasedKept
    <3> QED
      BY <2>3, <3>1, <3>2, <3>3, <3>4 DEF Step
  <2> QED
    BY <1>1, <2>2, <2>3, StepKinds DEF Tick
<1>2. IInv /\ LInv /\ [Next]_vars => [Kept]_vars
  BY <1>1 DEF BindingKept
<1> QED
  BY <1>2, Invariance, LimitsInvariance, PTL DEF Spec, OwnerBound

-----------------------------------------------------------------------------
(***************************************************************************)
(* The refinement of Mailbox.  Settled(s) is what the mapping puts for the *)
(* mailbox's `settled`; an exact index makes it a fact about the acks.     *)
(***************************************************************************)
Settled(s) == {m \in MessageIDs : hasTerminalAck(s, m)}

Only(map, keys) == [k \in keys |-> map[k]]

\* A message is settled exactly while an ack that ends it is held.
LEMMA SettledByAcks ==
  ASSUME NEW s, Sound(s)
  PROVE  Settled(s) = {m \in MessageIDs :
                         \E a \in DOMAIN s.acks : /\ ackKey(a) = m
                                                  /\ deletesQueuedMessage(AckOf[a].type)}
<1>1. ASSUME NEW m \in MessageIDs
      PROVE  hasTerminalAck(s, m) <=>
               \E a \in DOMAIN s.acks : ackKey(a) = m /\ deletesQueuedMessage(AckOf[a].type)
  <2>1. (IF m \in DOMAIN s.acksByMessage THEN s.acksByMessage[m] ELSE {}) = Naming(s, m)
    BY DEF Sound, IndexesAgreeIn
  <2> QED
    BY <2>1 DEF hasTerminalAck, Naming
<1> QED
  BY <1>1 DEF Settled

\* The same acks settle the same messages.
LEMMA SettledSame ==
  ASSUME NEW s, Sound(s), NEW n, Sound(n), DOMAIN n.acks = DOMAIN s.acks
  PROVE  Settled(n) = Settled(s)
BY SettledByAcks

\* Fewer acks settle fewer messages.
LEMMA SettledFewer ==
  ASSUME NEW s, Sound(s), NEW n, Sound(n), DOMAIN n.acks \subseteq DOMAIN s.acks
  PROVE  Settled(n) \subseteq Settled(s)
BY SettledByAcks

\* A new ack settles its message, if its type ends messages.
LEMMA SettledInsert ==
  ASSUME NEW s, Sound(s), NEW a \in AckIDs, NEW e \in Nat, NEW tag \in Tags \cup {None},
         a \notin DOMAIN s.acks
  PROVE  LET n == insertAck(s, a, e, tag)
         IN  /\ Sound(n) /\ n.messages = s.messages /\ n.purges = s.purges
             /\ Settled(n) = IF deletesQueuedMessage(AckOf[a].type)
                             THEN Settled(s) \cup {ackKey(a)} ELSE Settled(s)
<1> DEFINE n == insertAck(s, a, e, tag)
<1>1. Sound(n) /\ InsertedAck(n, s, a, e, tag)
  BY InsertAckSound, InsertAckFields DEF Sound
<1> HIDE DEF n
<1>2. /\ n.messages = s.messages /\ n.purges = s.purges
      /\ DOMAIN n.acks = DOMAIN s.acks \cup {a}
  BY <1>1 DEF InsertedAck, Put
<1>3. ackKey(a) \in MessageIDs
  BY Bodies
<1>4. Settled(n) = IF deletesQueuedMessage(AckOf[a].type)
                   THEN Settled(s) \cup {ackKey(a)} ELSE Settled(s)
  <2> DEFINE Ends(x, m) == ackKey(x) = m /\ deletesQueuedMessage(AckOf[x].type)
  <2>1. /\ Settled(n) = {m \in MessageIDs : \E x \in DOMAIN n.acks : Ends(x, m)}
        /\ Settled(s) = {m \in MessageIDs : \E x \in DOMAIN s.acks : Ends(x, m)}
    BY <1>1, SettledByAcks
  <2>2. /\ deletesQueuedMessage(AckOf[a].type) => \A m : Ends(a, m) <=> m = ackKey(a)
        /\ ~deletesQueuedMessage(AckOf[a].type) => \A m : ~Ends(a, m)
    OBVIOUS
  <2> HIDE DEF Ends
  <2> QED
    BY <1>2, <1>3, <2>1, <2>2
<1> QED
  BY <1>1, <1>2, <1>4 DEF n

\* Deleting messages restricts the mail to the rest.
LEMMA DeleteMessagesMail ==
  ASSUME NEW s, Sound(s), NEW ids
  PROVE  LET n == deleteMessages(s, ids)
         IN  /\ Sound(n) /\ n.messages = Only(s.messages, Queued(s) \ ids)
             /\ n.acks = s.acks /\ n.purges = s.purges /\ Settled(n) = Settled(s)
<1> DEFINE n == deleteMessages(s, ids)
           gone == ids \cap DOMAIN s.messages
<1>1. Sound(n) /\ DeletedMessages(n, s, gone)
  BY DeleteMessagesSound, DeleteMessagesFields DEF Sound
<1> HIDE DEF n
<1>2. /\ n.messages = Without(s.messages, gone)
      /\ n.acks = s.acks /\ n.purges = s.purges
  BY <1>1 DEF DeletedMessages
<1>3. DOMAIN s.messages \ gone = Queued(s) \ ids
  BY DEF Queued
<1>4. n.messages = Only(s.messages, Queued(s) \ ids)
  BY <1>2, <1>3 DEF Without, Only
<1>5. Settled(n) = Settled(s)
  BY <1>1, <1>2, SettledSame
<1> QED
  BY <1>1, <1>2, <1>4, <1>5 DEF n

\* Deleting acks leaves the mail alone.
LEMMA DeleteAcksMail ==
  ASSUME NEW s, Sound(s), NEW ids
  PROVE  LET n == deleteAcks(s, ids)
         IN  /\ Sound(n) /\ n.messages = s.messages
             /\ n.purges = s.purges /\ Settled(n) \subseteq Settled(s)
<1> DEFINE n == deleteAcks(s, ids)
<1>1. /\ Sound(n) /\ n.messages = s.messages /\ n.purges = s.purges
      /\ DOMAIN n.acks = DOMAIN s.acks \ ids
  BY DeleteAcksSound, DeleteAcksShrinks DEF Sound
<1> HIDE DEF n
<1>2. Settled(n) \subseteq Settled(s)
  BY <1>1, SettledFewer
<1> QED
  BY <1>1, <1>2 DEF n

\* Queuing a message adds it to the mail, with its deadline, and settles nothing.
LEMMA QueuesMail ==
  ASSUME NEW s, Sound(s), NEW n, NEW m \in MessageIDs, NEW tag \in Tags \cup {None},
         NEW e, NEW c \in Callers, NEW t, Queues(n, s, m, tag, e, c, t)
  PROVE  /\ n.messages = Put(s.messages, m, e)
         /\ n.purges = s.purges /\ Settled(n) = Settled(s)
<1>1. e \in Nat /\ m \notin DOMAIN s.messages
  BY DEF Queues
<1>2. ASSUME NEW low, Sound(low), m \notin DOMAIN low.messages,
             n = addMessageLocked(low, m, tag, e, c)
      PROVE  /\ n.messages = Put(low.messages, m, e)
             /\ n.purges = low.purges /\ Settled(n) = Settled(low)
  <2>1. Sound(n) /\ AddedMessage(n, low, m, tag, e, c)
    BY <1>1, <1>2, AddMessageSound, AddMessageFields DEF Sound
  <2>2. /\ n.messages = Put(low.messages, m, e)
        /\ n.acks = low.acks /\ n.purges = low.purges
    BY <2>1 DEF AddedMessage
  <2>3. Settled(n) = Settled(low)
    BY <1>2, <2>1, <2>2, SettledSame
  <2> QED
    BY <2>2, <2>3
<1>3. CASE n = addMessageLocked(s, m, tag, e, c)
  BY <1>1, <1>2, <1>3
<1>4. CASE /\ NodeReceived[m] \notin DOMAIN s.acks
           /\ n = addMessageLocked(Coupled(s, m, tag, e), m, tag, e, c)
  <2> DEFINE mid == Coupled(s, m, tag, e)
             a == NodeReceived[m]
  <2>1. a \in AckIDs
    BY Bodies
  <2>2. ~deletesQueuedMessage(AckOf[a].type)
    <3>1. AckOf[a] = [messageID |-> m, type |-> "node_received"]
      BY QueueConstants
    <3>2. AckOf[a].type = "node_received"
      BY <3>1
    <3> QED
      BY <3>2 DEF deletesQueuedMessage
  <2>3. /\ Sound(mid) /\ mid.messages = s.messages /\ mid.purges = s.purges
        /\ Settled(mid) = Settled(s)
    BY <1>1, <1>4, <2>1, <2>2, SettledInsert DEF Coupled
  <2> HIDE DEF mid
  <2>4. n = addMessageLocked(mid, m, tag, e, c)
    BY <1>4 DEF mid
  <2> QED
    BY <1>1, <1>2, <2>3, <2>4
<1> QED
  BY <1>3, <1>4 DEF Queues

\* A burial takes the owner's mail, and what was known of it.
LEMMA BuriesMail ==
  ASSUME NEW s, Books(s), NEW n, NEW h \in PurgeHashes, NEW e \in Nat, Buries(n, s, h, e)
  PROVE  /\ n.messages = Only(s.messages, Queued(s) \ Owned(s, h))
         /\ n.purges = s.purges \/ n.purges = Put(s.purges, h, e)
         /\ Settled(n) = Settled(s) \ Owned(s, h)
<1>1. /\ Books(n) /\ Shrunk(n, s)
      /\ Queued(n) = Queued(s) \ Owned(s, h)
      /\ DOMAIN n.acks = {a \in DOMAIN s.acks : ackKey(a) \notin Owned(s, h)}
      /\ n.purges = s.purges \/ n.purges = Put(s.purges, h, e)
  BY BuryEffect
<1>2. Sound(s) /\ Sound(n)
  BY <1>1 DEF Books
<1>3. n.messages = Only(s.messages, Queued(s) \ Owned(s, h))
  <2>1. n.messages = [m \in Queued(n) |-> n.messages[m]]
    BY <1>2 DEF Sound, IsStore, IsMap, Queued
  <2>2. \A m \in Queued(n) : n.messages[m] = s.messages[m]
    BY <1>1 DEF Shrunk, Restricts, Queued
  <2> QED
    BY <1>1, <2>1, <2>2 DEF Only
<1>4. Settled(n) = Settled(s) \ Owned(s, h)
  BY <1>1, <1>2, SettledByAcks
<1> QED
  BY <1>1, <1>3, <1>4

Alive(map, t) == Only(map, {k \in DOMAIN map : map[k] > t})

\* What a sweep at t keeps of a map is what is alive at t.
LEMMA SweptMap ==
  ASSUME NEW map, NEW K, IsMap(map, K, Nat), NEW t \in Nat
  PROVE  LET expired == {k \in DOMAIN map : Expired(map[k], t)}
         IN  /\ Only(map, DOMAIN map \ expired) = Alive(map, t)
             /\ Without(map, expired) = Alive(map, t)
<1> DEFINE expired == {k \in DOMAIN map : Expired(map[k], t)}
<1>1. DOMAIN map \ expired = {k \in DOMAIN map : map[k] > t}
  BY DEF IsMap, Expired
<1> QED
  BY <1>1 DEF Only, Without, Alive

\* A fetch or a cleanup takes what is past its deadline, and nothing else.
LEMMA SweepsMail ==
  ASSUME NEW s, Sound(s), NEW n, NEW t \in Nat, Sweeps(n, s, t)
  PROVE  /\ n.messages \in {s.messages, Alive(s.messages, t)}
         /\ n.purges \in {s.purges, Alive(s.purges, t)}
         /\ Settled(n) \subseteq Settled(s)
<1> DEFINE mid == deleteMessages(s, ExpiredMessages(s, t))
<1>1. IsMap(s.messages, MessageIDs, Nat) /\ IsMap(s.purges, PurgeHashes, Nat)
  BY DEF Sound, IsStore
<1>2. Only(s.messages, Queued(s) \ ExpiredMessages(s, t)) = Alive(s.messages, t)
  BY <1>1, SweptMap DEF Queued, ExpiredMessages
<1>3. Without(s.purges, ExpiredPurges(s, t)) = Alive(s.purges, t)
  BY <1>1, SweptMap DEF ExpiredPurges
<1>4. /\ Sound(mid) /\ mid.messages = Alive(s.messages, t)
      /\ mid.purges = s.purges /\ Settled(mid) = Settled(s)
  BY <1>2, DeleteMessagesMail
<1>5. CASE n = MessagesForRecipient(s, t)
  BY <1>4, <1>5 DEF MessagesForRecipient
<1>6. CASE n = AcksForSender(s, t)
  BY <1>6, DeleteAcksMail DEF AcksForSender
<1>7. CASE n = PruneExpired(s, t)
  <2> DEFINE low == deleteAcks(mid, ExpiredAcks(s, t))
             purges == Without(low.purges, ExpiredPurges(s, t))
  <2>1. n = [low EXCEPT !.purges = purges]
    BY <1>7 DEF PruneExpired
  <2> HIDE DEF mid
  <2>2. /\ Sound(low) /\ low.messages = mid.messages /\ low.purges = mid.purges
        /\ Settled(low) \subseteq Settled(mid)
    BY <1>4, DeleteAcksMail
  <2>3. purges = Alive(s.purges, t)
    BY <1>3, <1>4, <2>2
  <2> HIDE DEF low, purges
  <2>4. NewPurges(n, low, purges)
    BY <2>1, <2>2, PurgesFields DEF Sound
  <2>5. /\ n.messages = low.messages /\ n.purges = purges
        /\ n.acksByMessage = low.acksByMessage
    BY <2>4 DEF NewPurges, Fields
  <2>6. Settled(n) = Settled(low)
    BY <2>5 DEF Settled, hasTerminalAck
  <2> QED
    BY <1>4, <2>2, <2>3, <2>5, <2>6
<1> QED
  BY <1>5, <1>6, <1>7 DEF Sweeps

(***************************************************************************)
(* The steps under the mapping.                                            *)
(***************************************************************************)
\* The mapping in the terms of this module.
LEMMA MailMapping ==
  /\ Mail!CalledAt = Readings
  /\ Mail!Held = Queued(store)
  /\ \A h \in PurgeHashes : IsStore(store) => Mail!Of(h) = Owned(store, h)
  /\ \A f, K : Mail!Only(f, K) = Only(f, K)
<1>1. Mail!CalledAt = Readings
  BY DEF Mail!CalledAt, Readings
<1>2. Mail!Held = Queued(store)
  BY DEF Mail!Held, Queued
<1>3. ASSUME NEW h \in PurgeHashes, IsStore(store) PROVE Mail!Of(h) = Owned(store, h)
  <2>1. Queued(store) \subseteq MessageIDs
    BY <1>3 DEF IsStore, IsMap, Queued
  <2> QED
    BY <1>2, <2>1 DEF Mail!Of, Owned
<1>4. \A f, K : Mail!Only(f, K) = Only(f, K)
  BY DEF Mail!Only, Only
<1> QED
  BY <1>1, <1>2, <1>3, <1>4

\* Posting or importing a message is Accept.
LEMMA QueuesAccepts ==
  ASSUME IInv, NEW m \in MessageIDs, NEW tag \in Tags \cup {None}, NEW c \in Callers,
         NEW t \in Readings, NEW e \in Nat, Queues(store', store, m, tag, e, c, t), now' = now
  PROVE  Mail!Accept(m)
<1>1. /\ t \in Nat /\ t <= now /\ now \in Nat /\ Sound(store) /\ IsStore(store)
      /\ MaxTTL \in Nat
  BY ReadingsType, QueueConstants DEF IInv, Sound
<1>2. /\ store'.messages = Put(store.messages, m, e)
      /\ store'.purges = store.purges /\ Settled(store') = Settled(store)
  BY <1>1, QueuesMail
<1>3. e \in (t + 1)..(t + MaxTTL)
  BY <1>1 DEF Queues, Expired
<1>4. m \notin Queued(store)
  BY DEF Queues, Queued
<1>5. ~Mail!Buried(m)
  <2>1. ~Purged(store, m, now)
    BY <1>1, AdmittedStaysOut DEF Queues
  <2>2. IsMap(store.purges, PurgeHashes, Nat)
    BY <1>1 DEF IsStore
  <2> QED
    BY <1>1, <2>1, <2>2, QueueConstants DEF Mail!Buried, Purged, Expired, IsMap
<1>6. store'.messages = [x \in Queued(store) \cup {m} |->
                           IF x = m THEN e ELSE store.messages[x]]
  BY <1>2 DEF Put, Queued
<1> QED
  BY <1>2, <1>3, <1>4, <1>5, <1>6, MailMapping DEF Mail!Accept, Settled

\* A terminal ack is Settle; any other changes nothing in the mailbox.
LEMMA ExternalAckSettles ==
  ASSUME IInv, NEW a \in AckIDs, NEW tag \in Tags \cup {None}, NEW e \in Nat,
         ExternalAck(store', store, a, e, tag), now' = now
  PROVE  Mail!Settle(ackKey(a)) \/ UNCHANGED Mail!vars
<1> DEFINE mid == insertAck(store, a, e, tag)
           ends == deletesQueuedMessage(AckOf[a].type)
<1>1. Sound(store) /\ a \notin DOMAIN store.acks
  BY DEF IInv, ExternalAck
<1>2. /\ Sound(mid) /\ mid.messages = store.messages /\ mid.purges = store.purges
      /\ Settled(mid) = IF ends THEN Settled(store) \cup {ackKey(a)} ELSE Settled(store)
  BY <1>1, SettledInsert
<1>3. \/ ~ends /\ store' = mid
      \/ ends /\ store' = deleteMessages(mid, {ackKey(a)})
  BY DEF ExternalAck
<1> HIDE DEF mid, ends
<1>4. CASE ~ends /\ store' = mid
  BY <1>2, <1>4 DEF Mail!vars, Settled
<1>5. CASE ends /\ store' = deleteMessages(mid, {ackKey(a)})
  <2>1. /\ store'.messages = Only(mid.messages, Queued(mid) \ {ackKey(a)})
        /\ store'.purges = mid.purges /\ Settled(store') = Settled(mid)
    BY <1>2, <1>5, DeleteMessagesMail
  <2>2. /\ store'.messages = Only(store.messages, Queued(store) \ {ackKey(a)})
        /\ store'.purges = store.purges
        /\ Settled(store') = Settled(store) \cup {ackKey(a)}
    BY <1>2, <1>5, <2>1 DEF Queued
  <2> QED
    BY <2>2, MailMapping DEF Mail!Settle, Settled
<1> QED
  BY <1>3, <1>4, <1>5

\* The fetches, the snapshot and the cleanup are Sweep.
LEMMA SweepsSweep ==
  ASSUME IInv, NEW t \in Readings, Sweeps(store', store, t), now' = now
  PROVE  Mail!Sweep
<1>1. t \in Nat /\ Sound(store)
  BY ReadingsType DEF IInv
<1>2. /\ store'.messages \in {store.messages, Alive(store.messages, t)}
      /\ store'.purges \in {store.purges, Alive(store.purges, t)}
      /\ Settled(store') \subseteq Settled(store)
  BY <1>1, SweepsMail
<1> QED
  BY <1>2, MailMapping DEF Mail!Sweep, Settled, Alive, Queued

\* An owner's purge, here or replicated, is Purge.
LEMMA BuriesPurges ==
  ASSUME IInv, LInv, NEW h \in PurgeHashes, NEW e \in Nat,
         Buries(store', store, h, e), now' = now
  PROVE  Mail!Purge(h)
<1>1. Books(store) /\ IsStore(store)
  BY InvBooks
<1>2. /\ store'.messages = Only(store.messages, Queued(store) \ Owned(store, h))
      /\ store'.purges = store.purges \/ store'.purges = Put(store.purges, h, e)
      /\ Settled(store') = Settled(store) \ Owned(store, h)
  BY <1>1, BuriesMail
<1>3. ASSUME store'.purges = Put(store.purges, h, e)
      PROVE  /\ DOMAIN store'.purges = DOMAIN store.purges \cup {h}
             /\ Only(store'.purges, DOMAIN store.purges \ {h})
                  = Only(store.purges, DOMAIN store.purges \ {h})
  BY <1>3 DEF Put, Only
<1> QED
  BY <1>1, <1>2, <1>3, MailMapping DEF Mail!Purge, Settled

\* Every step of the relay's queue is a step of the mailbox, or a stutter.
LEMMA MailStep == IInv /\ LInv /\ [Next]_vars => [Mail!Next]_(Mail!vars)
<1> SUFFICES ASSUME IInv, LInv, [Next]_vars PROVE [Mail!Next]_(Mail!vars)
  OBVIOUS
<1>1. CASE store' = store /\ now' = now
  BY <1>1 DEF Mail!vars
<1>2. CASE Tick
  BY <1>2 DEF Tick, Mail!Next, Mail!Tick
<1>3. CASE Step /\ now' = now
  <2>1. ASSUME NEW m \in MessageIDs, NEW tag \in Tags \cup {None}, NEW c \in Callers,
               NEW t \in Readings, NEW e \in Nat, Queues(store', store, m, tag, e, c, t)
        PROVE  Mail!Next
    BY <1>3, <2>1, QueuesAccepts DEF Mail!Next
  <2>2. ASSUME NEW a \in AckIDs, NEW tag \in Tags \cup {None}, NEW e \in Nat,
               ExternalAck(store', store, a, e, tag)
        PROVE  [Mail!Next]_(Mail!vars)
    <3>1. ackKey(a) \in MessageIDs
      BY Bodies
    <3> QED
      BY <1>3, <2>2, <3>1, ExternalAckSettles DEF Mail!Next
  <2>3. ASSUME NEW t \in Readings, Sweeps(store', store, t)
        PROVE  Mail!Next
    BY <1>3, <2>3, SweepsSweep DEF Mail!Next
  <2>4. ASSUME NEW h \in PurgeHashes, NEW e \in Nat, Buries(store', store, h, e)
        PROVE  Mail!Next
    BY <1>3, <2>4, BuriesPurges DEF Mail!Next
  <2> QED
    BY <1>3, <2>1, <2>2, <2>3, <2>4 DEF Step
<1> QED
  BY <1>1, <1>2, <1>3, StepKinds

(***************************************************************************)
(* The queue implements Mailbox: for all ids, caps, windows and clock      *)
(* lags, a message keeps the deadline it was accepted with and leaves only *)
(* at it, by a terminal ack, or by its owner's purge, and none is accepted *)
(* while its owner's tombstone stands.                                     *)
(***************************************************************************)
THEOREM Refinement == Spec => ImplementsMailbox
<1>1. Init => Mail!Init
  <2> SUFFICES ASSUME Init PROVE Mail!Init
    OBVIOUS
  <2>1. /\ store.messages = EmptyMap /\ store.purges = EmptyMap
        /\ store.acksByMessage = EmptyMap /\ now = 1
    BY DEF Init, NewStore
  <2>2. EmptyMap = [m \in {} |-> 0] /\ DOMAIN EmptyMap = {}
    BY DEF EmptyMap
  <2>3. \A m \in MessageIDs : ~hasTerminalAck(store, m)
    BY <2>1, <2>2 DEF hasTerminalAck
  <2> QED
    BY <2>1, <2>2, <2>3 DEF Mail!Init
<1> QED
  BY <1>1, MailStep, Invariance, LimitsInvariance, PTL
     DEF Spec, ImplementsMailbox, Mail!Spec
=============================================================================
