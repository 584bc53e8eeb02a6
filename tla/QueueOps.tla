------------------------------ MODULE QueueOps ------------------------------
(***************************************************************************)
(* The RAM queue of one relay (internal/queue/store.go) as operators on a  *)
(* record `s` that holds the maps of the Go struct Store.  Every exported  *)
(* method of Store holds s.mu for its whole body, so each method is one    *)
(* operator from a store to a store; QueueStore turns them into actions of *)
(* one relay and Mesh shares them between several relays.                  *)
(*                                                                         *)
(* A Go map is a function whose domain is the set of its keys.  An id is   *)
(* whatever a caller wrote into the record: nothing makes it unique, and   *)
(* one id may be posted again, with another recipient tag, once the node   *)
(* no longer holds the earlier message and the ack coupled with it.  So    *)
(* the tag arrives with every message and every replicated ack, and the    *)
(* store keeps it beside the expiry the relay settled on.  What is fixed   *)
(* by the id here (the lane, the purge hash, what an ack says) leaves the  *)
(* store with the record that carried it.                                  *)
(* The zero time.Time is the time 0; clocks run from 1.                    *)
(*                                                                         *)
(* An operator named op_fault is op with one plausible mistake; no other   *)
(* definition uses it.  It is there to show that the properties notice.    *)
(***************************************************************************)
EXTENDS Integers, FiniteSets

CONSTANTS
  MessageIDs,   \* ids of envelopes
  AckIDs,       \* ids of acks, the node's own ones included
  Parties,      \* routing ids of senders and recipients
  Tags,         \* recipient tags, hashes of queue secrets
  PurgeHashes,  \* owner tombstone hashes
  EnvelopeOf,   \* message id -> what its sender put into the envelope, but the tag
  AckOf,        \* ack id -> what the ack says
  NodeReceived, \* message id -> id of the ack the node couples with it
  Credentials,  \* indexes of admitted credentials, never 0
  TermsOf       \* credential -> its terms; 0 is the caller without one

CONSTANTS       \* queue.StoreConfig
  MaxMessages, MaxAcks, MaxPurges, MaxPerPair, MaxTTL, DefaultTTL

None == ""      \* the empty tag and the empty purge hash

AckTypes == {"node_received", "recipient_device_received", "recipient_read",
             "expired", "rejected", "retraction_applied"}

\* form: whether a record passes the field and size checks made on arrival.
Envelopes ==
  [sender : Parties, recipient : Parties,
   purgeHash : PurgeHashes \cup {None}, form : {"ok", "incomplete", "oversize"}]

AckBodies ==
  [messageID : MessageIDs, type : AckTypes \cup {"unknown"}]

\* The terms of admission.Terms a queue is held to; 0 means the box's own cap.
Terms == [slots : Nat, maxPerPair : Nat, retention : Nat]

\* The caller without a credential (grant.Credential = 0).
NoCredential == 0

ASSUME QueueConstants ==
  /\ IsFiniteSet(MessageIDs) /\ IsFiniteSet(AckIDs)
  /\ None \notin Tags \cup PurgeHashes \cup MessageIDs
  /\ EnvelopeOf \in [MessageIDs -> Envelopes]
  /\ AckOf \in [AckIDs -> AckBodies]
  /\ NodeReceived \in [MessageIDs -> AckIDs]
  /\ \A m \in MessageIDs : AckOf[NodeReceived[m]] =
                             [messageID |-> m, type |-> "node_received"]
  /\ Credentials \subseteq Nat \ {NoCredential}
  /\ TermsOf \in [Credentials \cup {NoCredential} -> Terms]
  /\ TermsOf[NoCredential] = [slots |-> 0, maxPerPair |-> 0, retention |-> 0]
  /\ MaxMessages \in Nat \ {0} /\ MaxAcks \in Nat
  /\ MaxPurges \in Nat \ {0} /\ MaxPerPair \in Nat \ {0}
  /\ MaxTTL \in Nat \ {0} /\ DefaultTTL \in Nat \ {0}

Callers == Credentials \cup {NoCredential}

-----------------------------------------------------------------------------
(***************************************************************************)
(* Maps.                                                                   *)
(***************************************************************************)
EmptyMap == [x \in {} |-> x]

\* map[k] = v
Put(map, k, v) == [x \in DOMAIN map \cup {k} |-> IF x = k THEN v ELSE map[x]]

\* delete(map, k) for every k in `keys`.
Without(map, keys) == [x \in DOMAIN map \ keys |-> map[x]]

\* Reading an absent counter yields 0.
Count(map, k) == IF k \in DOMAIN map THEN map[k] ELSE 0

(***************************************************************************)
(* dropped[k] decrements of the counter under k, each of which deletes the *)
(* key instead when the counter is at most 1.                              *)
(***************************************************************************)
Discount(map, dropped) ==
  [k \in {x \in DOMAIN map : map[x] > dropped[x]} |-> map[k] - dropped[k]]

\* indexAddLocked: the empty key is not indexed.
indexAdd(index, key, id) ==
  IF key = None THEN index
  ELSE Put(index, key, (IF key \in DOMAIN index THEN index[key] ELSE {}) \cup {id})

(***************************************************************************)
(* indexRemoveLocked for every id in dropped[k]: a key goes with its last  *)
(* id.                                                                     *)
(***************************************************************************)
indexRemove(index, dropped) ==
  [k \in {x \in DOMAIN index : index[x] \ dropped[x] # {}} |-> index[k] \ dropped[k]]

-----------------------------------------------------------------------------
(***************************************************************************)
(* The store.                                                              *)
(***************************************************************************)
\* NewStore: an ack lane no larger than the message lane is corrected.
maxAcks == IF MaxAcks <= MaxMessages THEN 2 * MaxMessages ELSE MaxAcks

NewStore ==
  [messages |-> EmptyMap,          \* message id -> expiry
   stamps |-> EmptyMap,            \* message id -> RecipientTag of the envelope held
   acks |-> EmptyMap,              \* ack id -> [expiresAt, tag]
   purges |-> EmptyMap,            \* purge hash -> expiry of the tombstone
   pairCounts |-> EmptyMap,        \* lane -> undelivered messages
   credentialCounts |-> EmptyMap,  \* credential -> undelivered messages
   messageCredential |-> EmptyMap, \* message id -> credential charged
   seq |-> 0,                      \* arrival counter of messages and acks
   messageSeq |-> EmptyMap,        \* message id -> arrival
   ackSeq |-> EmptyMap,            \* ack id -> arrival
   messageTags |-> EmptyMap,       \* message id -> [tag, records]
   messagesByPurge |-> EmptyMap,   \* purge hash -> message ids
   acksByMessage |-> EmptyMap]     \* message id -> ack ids

\* pairKey: the (sender, recipient) lane of a message.
pairKey(m) == <<EnvelopeOf[m].sender, EnvelopeOf[m].recipient>>

purgeKey(m) == EnvelopeOf[m].purgeHash

ackKey(a) == AckOf[a].messageID

validAckType(type) == type \in AckTypes

deletesQueuedMessage(type) == type \in AckTypes \ {"node_received"}

\* A credential may only lower a cap of the box; 0 leaves it alone.
lowerOf(box, credential) ==
  IF credential = 0 \/ credential > box THEN box ELSE credential

\* Auth.permits for the tags derived from the secrets one request presented.
permits(proof, allowUntagged, tag) ==
  IF tag = None THEN allowUntagged ELSE tag \in proof

(***************************************************************************)
(* The expiry a record is stored with: the default window when the caller  *)
(* named none, never past `ceiling` from now.                              *)
(***************************************************************************)
clampExpiry_unbounded(requested, ceiling, now) ==
  IF requested = 0 THEN now + DefaultTTL ELSE requested
clampExpiry(requested, ceiling, now) ==
  LET window == IF requested = 0 THEN now + DefaultTTL ELSE requested
  IN  IF window > now + ceiling THEN now + ceiling ELSE window

Expired_early(expiresAt, now) == expiresAt <= now + 1
Expired(expiresAt, now) == expiresAt <= now

-----------------------------------------------------------------------------
(***************************************************************************)
(* The add and delete helpers every change of the record maps goes through.*)
(***************************************************************************)
\* A record naming m arrived: the first non-empty tag is the one that stays.
bindMessageTag_overwrite(tags, m, tag) ==
  LET records == IF m \in DOMAIN tags THEN tags[m].records ELSE 0
  IN  Put(tags, m, [tag |-> tag, records |-> records + 1])
bindMessageTag_firstWins(tags, m, tag) ==
  LET old == IF m \in DOMAIN tags THEN tags[m] ELSE [tag |-> tag, records |-> 0]
  IN  Put(tags, m, [tag |-> old.tag, records |-> old.records + 1])
bindMessageTag_uncounted(tags, m, tag) ==
  IF m \in DOMAIN tags THEN tags ELSE Put(tags, m, [tag |-> tag, records |-> 1])
bindMessageTag(tags, m, tag) ==
  LET old == IF m \in DOMAIN tags THEN tags[m] ELSE [tag |-> None, records |-> 0]
  IN  Put(tags, m, [tag |-> IF old.tag = None THEN tag ELSE old.tag,
                    records |-> old.records + 1])

\* dropped[m] records naming m left; the binding goes with the last one.
releaseMessageTags(tags, dropped) ==
  [m \in {x \in DOMAIN tags : tags[x].records > dropped[x]} |->
     [tag |-> tags[m].tag, records |-> tags[m].records - dropped[m]]]

addMessageLocked_uncounted(s, m, tag, expiresAt, credential) ==
  [s EXCEPT !.messages = Put(@, m, expiresAt),
            !.stamps = Put(@, m, tag),
            !.pairCounts = Put(@, pairKey(m), Count(@, pairKey(m)) + 1),
            !.messageCredential = IF credential = NoCredential THEN @
                                  ELSE Put(@, m, credential),
            !.seq = @ + 1,
            !.messageSeq = Put(@, m, s.seq + 1),
            !.messageTags = bindMessageTag(@, m, tag),
            !.messagesByPurge = indexAdd(@, purgeKey(m), m)]
addMessageLocked_chargesNobody(s, m, tag, expiresAt, credential) ==
  [s EXCEPT !.messages = Put(@, m, expiresAt),
            !.stamps = Put(@, m, tag),
            !.pairCounts = Put(@, pairKey(m), Count(@, pairKey(m)) + 1),
            !.credentialCounts = Put(@, credential, Count(@, credential) + 1),
            !.messageCredential = Put(@, m, credential),
            !.seq = @ + 1,
            !.messageSeq = Put(@, m, s.seq + 1),
            !.messageTags = bindMessageTag(@, m, tag),
            !.messagesByPurge = indexAdd(@, purgeKey(m), m)]
addMessageLocked_staleNumber(s, m, tag, expiresAt, credential) ==
  [s EXCEPT !.messages = Put(@, m, expiresAt),
            !.stamps = Put(@, m, tag),
            !.pairCounts = Put(@, pairKey(m), Count(@, pairKey(m)) + 1),
            !.credentialCounts = IF credential = NoCredential THEN @
                                 ELSE Put(@, credential, Count(@, credential) + 1),
            !.messageCredential = IF credential = NoCredential THEN @
                                  ELSE Put(@, m, credential),
            !.seq = @ + 1,
            !.messageSeq = Put(@, m, s.seq),
            !.messageTags = bindMessageTag(@, m, tag),
            !.messagesByPurge = indexAdd(@, purgeKey(m), m)]
addMessageLocked(s, m, tag, expiresAt, credential) ==
  [s EXCEPT !.messages = Put(@, m, expiresAt),
            !.stamps = Put(@, m, tag),
            !.pairCounts = Put(@, pairKey(m), Count(@, pairKey(m)) + 1),
            !.credentialCounts = IF credential = NoCredential THEN @
                                 ELSE Put(@, credential, Count(@, credential) + 1),
            !.messageCredential = IF credential = NoCredential THEN @
                                  ELSE Put(@, m, credential),
            !.seq = @ + 1,
            !.messageSeq = Put(@, m, s.seq + 1),
            !.messageTags = bindMessageTag(@, m, tag),
            !.messagesByPurge = indexAdd(@, purgeKey(m), m)]

(***************************************************************************)
(* deleteMessageLocked for every id in `ids`; ids that are not queued are  *)
(* ignored.                                                                *)
(***************************************************************************)
deleteMessages(s, ids) ==
  LET gone == ids \cap DOMAIN s.messages
      charged == gone \cap DOMAIN s.messageCredential
      released == [m \in DOMAIN s.messageTags |-> IF m \in gone THEN 1 ELSE 0]
      owned == [h \in DOMAIN s.messagesByPurge |-> {m \in gone : purgeKey(m) = h}]
      inLane == [k \in DOMAIN s.pairCounts |-> Cardinality({m \in gone : pairKey(m) = k})]
      chargedTo == [c \in DOMAIN s.credentialCounts |->
                      Cardinality({m \in charged : s.messageCredential[m] = c})]
  IN  [s EXCEPT !.messages = Without(@, gone),
                !.stamps = Without(@, gone),
                !.messageSeq = Without(@, gone),
                !.messageTags = releaseMessageTags(@, released),
                !.messagesByPurge = indexRemove(@, owned),
                !.pairCounts = Discount(@, inLane),
                !.credentialCounts = Discount(@, chargedTo),
                !.messageCredential = Without(@, charged)]

\* deleteAckLocked for every id in `ids`.
deleteAcks_leaksArrivals(s, ids) ==
  LET gone == ids \cap DOMAIN s.acks
      naming(m) == {a \in gone : ackKey(a) = m}
      released == [m \in DOMAIN s.messageTags |-> Cardinality(naming(m))]
  IN  [s EXCEPT !.acks = Without(@, gone),
                !.messageTags = releaseMessageTags(@, released),
                !.acksByMessage = indexRemove(@, [m \in DOMAIN @ |-> naming(m)])]
deleteAcks_leaksIndex(s, ids) ==
  LET gone == ids \cap DOMAIN s.acks
      naming(m) == {a \in gone : ackKey(a) = m}
      released == [m \in DOMAIN s.messageTags |-> Cardinality(naming(m))]
  IN  [s EXCEPT !.acks = Without(@, gone),
                !.ackSeq = Without(@, gone),
                !.messageTags = releaseMessageTags(@, released)]
deleteAcks(s, ids) ==
  LET gone == ids \cap DOMAIN s.acks
      naming(m) == {a \in gone : ackKey(a) = m}
      released == [m \in DOMAIN s.messageTags |-> Cardinality(naming(m))]
  IN  [s EXCEPT !.acks = Without(@, gone),
                !.ackSeq = Without(@, gone),
                !.messageTags = releaseMessageTags(@, released),
                !.acksByMessage = indexRemove(@, [m \in DOMAIN @ |-> naming(m)])]

externalAckCapacity == maxAcks - MaxMessages

(***************************************************************************)
(* A call's outcome: its error ("ok" for nil) and the store it leaves.     *)
(***************************************************************************)
Refused(s, error) == [err |-> error, store |-> s]
Accepted(s) == [err |-> "ok", store |-> s]

insertAck(s, a, expiresAt, tag) ==
  [s EXCEPT !.acks = Put(@, a, [expiresAt |-> expiresAt, tag |-> tag]),
            !.seq = @ + 1,
            !.ackSeq = Put(@, a, s.seq + 1),
            !.messageTags = bindMessageTag(@, ackKey(a), tag),
            !.acksByMessage = indexAdd(@, ackKey(a), a)]

addAckWithin(s, a, expiresAt, tag, now, capacity) ==
  IF a \in DOMAIN s.acks THEN Refused(s, "ErrDuplicate")
  ELSE IF Cardinality(DOMAIN s.acks) >= capacity THEN Refused(s, "ErrQueueFull")
  ELSE IF Expired(expiresAt, now) THEN Refused(s, "ErrExpired")
  ELSE Accepted(insertAck(s, a, expiresAt, tag))

\* The node's own acks may use the whole lane ...
addAckLocked(s, a, expiresAt, tag, now) ==
  addAckWithin(s, a, expiresAt, tag, now, maxAcks)

\* ... and acks from outside only what lies above the message cap.
addExternalAckLocked_wholeLane(s, a, expiresAt, tag, now) ==
  addAckWithin(s, a, expiresAt, tag, now, maxAcks)
addExternalAckLocked(s, a, expiresAt, tag, now) ==
  addAckWithin(s, a, expiresAt, tag, now, externalAckCapacity)

-----------------------------------------------------------------------------
(***************************************************************************)
(* AddMessageWithGrant.  A tombstone that is still alive answers for every *)
(* message that carries its hash.                                          *)
(***************************************************************************)
Purged(s, m, now) ==
  /\ purgeKey(m) # None
  /\ purgeKey(m) \in DOMAIN s.purges
  /\ ~Expired(s.purges[purgeKey(m)], now)

addMessageError(s, m, expiresAt, credential, now) ==
  LET terms == TermsOf[credential]
      perPair == lowerOf(MaxPerPair, terms.maxPerPair)
      slots == lowerOf(MaxMessages, terms.slots)
  IN  IF EnvelopeOf[m].form = "incomplete" THEN "ErrInvalid"
      ELSE IF EnvelopeOf[m].form = "oversize" THEN "ErrPayloadTooLarge"
      ELSE IF Expired(expiresAt, now) THEN "ErrExpired"
      ELSE IF m \in DOMAIN s.messages THEN "ErrDuplicate"
      ELSE IF Purged(s, m, now) THEN "ErrDuplicate"
      ELSE IF Count(s.pairCounts, pairKey(m)) >= perPair THEN "ErrPairQuotaFull"
      ELSE IF credential # NoCredential /\ Count(s.credentialCounts, credential) >= slots
        THEN "ErrSlotsFull"
      ELSE IF Cardinality(DOMAIN s.messages) >= MaxMessages THEN "ErrQueueFull"
      ELSE "ok"

AddMessageWithGrant(s, m, tag, requested, credential, now) ==
  LET ceiling == lowerOf(MaxTTL, TermsOf[credential].retention)
      expiresAt == clampExpiry(requested, ceiling, now)
      error == addMessageError(s, m, expiresAt, credential, now)
      coupled == addAckLocked(s, NodeReceived[m], expiresAt, tag, now)
  IN  IF error # "ok" THEN Refused(s, error)
      ELSE IF coupled.err # "ok" THEN Refused(s, coupled.err)
      ELSE Accepted(addMessageLocked(coupled.store, m, tag, expiresAt, credential))

(***************************************************************************)
(* AddAckWithGrant.  `proof` is the set of tags the caller proved.  The    *)
(* proof is asked for before anything else the store knows is revealed,    *)
(* and it is against the binding, never against a tag the ack carries.     *)
(***************************************************************************)
AddAckWithGrant(s, a, requested, credential, proof, allowUntagged, now) ==
  LET ceiling == lowerOf(MaxTTL, TermsOf[credential].retention)
      expiresAt == clampExpiry(requested, ceiling, now)
      m == ackKey(a)
      bound == m \in DOMAIN s.messageTags
      tag == IF bound THEN s.messageTags[m].tag ELSE None
      added == addExternalAckLocked(s, a, expiresAt, tag, now)
  IN  IF ~validAckType(AckOf[a].type) THEN Refused(s, "ErrInvalid")
      ELSE IF Expired(expiresAt, now) THEN Refused(s, "ErrExpired")
      ELSE IF bound /\ ~permits(proof, allowUntagged, tag) THEN Refused(s, "ErrNotOwned")
      ELSE IF added.err # "ok" THEN added
      ELSE IF deletesQueuedMessage(AckOf[a].type)
        THEN Accepted(deleteMessages(added.store, {m}))
      ELSE added

-----------------------------------------------------------------------------
(***************************************************************************)
(* Expiry.                                                                 *)
(***************************************************************************)
ExpiredMessages(s, now) == {m \in DOMAIN s.messages : Expired(s.messages[m], now)}
ExpiredAcks(s, now) == {a \in DOMAIN s.acks : Expired(s.acks[a].expiresAt, now)}
ExpiredPurges(s, now) == {h \in DOMAIN s.purges : Expired(s.purges[h], now)}

\* MessagesForRecipient: a fetch sweeps expired messages, whoever owns them.
MessagesForRecipient(s, now) == deleteMessages(s, ExpiredMessages(s, now))

\* AcksForSender: a fetch sweeps expired acks.
AcksForSender(s, now) == deleteAcks(s, ExpiredAcks(s, now))

\* PruneExpired, and the sweep SnapshotSince starts with.
PruneExpired_keepsAcks(s, now) ==
  [deleteMessages(s, ExpiredMessages(s, now)) EXCEPT
     !.purges = Without(@, ExpiredPurges(s, now))]
PruneExpired(s, now) ==
  [deleteAcks(deleteMessages(s, ExpiredMessages(s, now)), ExpiredAcks(s, now)) EXCEPT
     !.purges = Without(@, ExpiredPurges(s, now))]

-----------------------------------------------------------------------------
(***************************************************************************)
(* Owner purge.                                                            *)
(***************************************************************************)
\* A new tombstone needs room; one that exists is overwritten.
storePurgeLocked(s, hash, expiresAt) ==
  IF hash \notin DOMAIN s.purges /\ Cardinality(DOMAIN s.purges) >= MaxPurges THEN s
  ELSE [s EXCEPT !.purges = Put(@, hash, expiresAt)]

\* The owner's queued messages go, and every ack that names one of them.
purgeOwnerLocked_keepsAcks(s, hash) ==
  deleteMessages(s, IF hash \in DOMAIN s.messagesByPurge
                    THEN s.messagesByPurge[hash] ELSE {})
purgeOwnerLocked(s, hash) ==
  LET owned == IF hash \in DOMAIN s.messagesByPurge THEN s.messagesByPurge[hash] ELSE {}
      naming == {a \in AckIDs : /\ ackKey(a) \in owned \cap DOMAIN s.acksByMessage
                                /\ a \in s.acksByMessage[ackKey(a)]}
  IN  deleteAcks(deleteMessages(s, owned), naming)

PurgeOwner(s, hash, now) ==
  purgeOwnerLocked(storePurgeLocked(s, hash, now + DefaultTTL), hash)

-----------------------------------------------------------------------------
(***************************************************************************)
(* Replication.  Records of a peer's page are imported one by one; the     *)
(* loop of ImportSnapshot carries nothing from one record to the next, so  *)
(* a page is the run of its records.                                       *)
(***************************************************************************)
importPurge(s, hash, expiresAt, now) ==
  IF Expired(expiresAt, now) THEN s
  ELSE purgeOwnerLocked(storePurgeLocked(s, hash, expiresAt), hash)

hasTerminalAck(s, m) ==
  /\ m \in DOMAIN s.acksByMessage
  /\ \E a \in s.acksByMessage[m] : deletesQueuedMessage(AckOf[a].type)

\* No credential and no coupled ack come with a replicated message.
importMessage_pastTombstone(s, m, tag, requested, now) ==
  LET expiresAt == clampExpiry(requested, MaxTTL, now)
  IN  IF \/ EnvelopeOf[m].form # "ok"
         \/ Expired(expiresAt, now)
         \/ m \in DOMAIN s.messages
         \/ hasTerminalAck(s, m)
         \/ Cardinality(DOMAIN s.messages) >= MaxMessages
      THEN s
      ELSE addMessageLocked(s, m, tag, expiresAt, NoCredential)
importMessage_pastAck(s, m, tag, requested, now) ==
  LET expiresAt == clampExpiry(requested, MaxTTL, now)
  IN  IF \/ EnvelopeOf[m].form # "ok"
         \/ Expired(expiresAt, now)
         \/ m \in DOMAIN s.messages
         \/ Purged(s, m, now)
         \/ Cardinality(DOMAIN s.messages) >= MaxMessages
      THEN s
      ELSE addMessageLocked(s, m, tag, expiresAt, NoCredential)
importMessage(s, m, tag, requested, now) ==
  LET expiresAt == clampExpiry(requested, MaxTTL, now)
  IN  IF \/ EnvelopeOf[m].form # "ok"
         \/ Expired(expiresAt, now)
         \/ m \in DOMAIN s.messages
         \/ Purged(s, m, now)
         \/ hasTerminalAck(s, m)
         \/ Cardinality(DOMAIN s.messages) >= MaxMessages
      THEN s
      ELSE addMessageLocked(s, m, tag, expiresAt, NoCredential)

\* A replicated ack keeps the tag it was proved against on the peer.
importAck_keepsMessage(s, a, requested, tag, now) ==
  LET expiresAt == clampExpiry(requested, MaxTTL, now)
  IN  IF validAckType(AckOf[a].type) /\ ~Expired(expiresAt, now)
      THEN addExternalAckLocked(s, a, expiresAt, tag, now).store
      ELSE s
importAck(s, a, requested, tag, now) ==
  LET expiresAt == clampExpiry(requested, MaxTTL, now)
      added == addExternalAckLocked(s, a, expiresAt, tag, now)
  IN  IF \/ ~validAckType(AckOf[a].type)
         \/ Expired(expiresAt, now)
         \/ added.err # "ok"
      THEN s
      ELSE IF deletesQueuedMessage(AckOf[a].type)
        THEN deleteMessages(added.store, {ackKey(a)})
      ELSE added.store
-----------------------------------------------------------------------------
(***************************************************************************)
(* What a store promises, as predicates on it.                             *)
(***************************************************************************)
\* A map from some of the keys K to values in V.
IsMap(map, K, V) == map \in [DOMAIN map -> V] /\ DOMAIN map \subseteq K

Lanes == Parties \X Parties

Fields == {"messages", "stamps", "acks", "purges", "pairCounts", "credentialCounts",
           "messageCredential", "seq", "messageSeq", "ackSeq", "messageTags",
           "messagesByPurge", "acksByMessage"}

IsStore(s) ==
  /\ s = [f \in Fields |-> s[f]]
  /\ IsMap(s.messages, MessageIDs, Nat)
  /\ IsMap(s.stamps, MessageIDs, Tags \cup {None}) /\ DOMAIN s.stamps = DOMAIN s.messages
  /\ IsMap(s.acks, AckIDs, [expiresAt : Nat, tag : Tags \cup {None}])
  /\ IsMap(s.purges, PurgeHashes, Nat)
  /\ IsMap(s.pairCounts, Lanes, Nat)
  /\ IsMap(s.credentialCounts, Credentials, Nat)
  /\ IsMap(s.messageCredential, MessageIDs, Credentials)
  /\ s.seq \in Nat
  /\ IsMap(s.messageSeq, MessageIDs, Nat)
  /\ IsMap(s.ackSeq, AckIDs, Nat)
  /\ IsMap(s.messageTags, MessageIDs, [tag : Tags \cup {None}, records : Nat])
  /\ IsMap(s.messagesByPurge, PurgeHashes, SUBSET MessageIDs)
  /\ IsMap(s.acksByMessage, MessageIDs, SUBSET AckIDs)

Queued(s) == DOMAIN s.messages
InLane(s, k) == {m \in Queued(s) : pairKey(m) = k}
ChargedTo(s, c) == {m \in DOMAIN s.messageCredential : s.messageCredential[m] = c}
Naming(s, m) == {a \in DOMAIN s.acks : ackKey(a) = m}

(***************************************************************************)
(* The lane and credential counters say how many messages are really       *)
(* queued, and keep no key for an empty lane or an idle credential.        *)
(***************************************************************************)
CountersAgreeIn(s) ==
  /\ DOMAIN s.messageCredential \subseteq Queued(s)
  /\ \A k \in Lanes : Count(s.pairCounts, k) = Cardinality(InLane(s, k))
  /\ \A k \in DOMAIN s.pairCounts : s.pairCounts[k] > 0
  /\ \A c \in Credentials :
        Count(s.credentialCounts, c) = Cardinality(ChargedTo(s, c))
  /\ \A c \in DOMAIN s.credentialCounts : s.credentialCounts[c] > 0

(***************************************************************************)
(* Every record has an arrival number of its own, at most seq, and no      *)
(* number is left behind by a record that went.                            *)
(***************************************************************************)
ArrivalsAgreeIn(s) ==
  /\ DOMAIN s.messageSeq = Queued(s)
  /\ DOMAIN s.ackSeq = DOMAIN s.acks
  /\ \A m \in Queued(s) : s.messageSeq[m] \in 1..s.seq
  /\ \A a \in DOMAIN s.acks : s.ackSeq[a] \in 1..s.seq
  /\ \A m, n \in Queued(s) : s.messageSeq[m] = s.messageSeq[n] => m = n
  /\ \A a, b \in DOMAIN s.acks : s.ackSeq[a] = s.ackSeq[b] => a = b
  /\ \A m \in Queued(s), a \in DOMAIN s.acks : s.messageSeq[m] # s.ackSeq[a]

(***************************************************************************)
(* A binding counts exactly the records that name its message, and is      *)
(* there exactly as long as one does.                                      *)
(***************************************************************************)
BindingsAgreeIn(s) ==
  /\ \A m \in MessageIDs :
       (IF m \in DOMAIN s.messageTags THEN s.messageTags[m].records ELSE 0)
          = (IF m \in Queued(s) THEN 1 ELSE 0) + Cardinality(Naming(s, m))
  /\ \A m \in DOMAIN s.messageTags : s.messageTags[m].records > 0

\* The tag a message id is bound to; None while no record brought one.
BoundTo(s, m) == IF m \in DOMAIN s.messageTags THEN s.messageTags[m].tag ELSE None

\* Some record names m: the message itself or an ack for it.
Named(s, m) == m \in Queued(s) \/ Naming(s, m) # {}

(***************************************************************************)
(* An id that some record held carries a tag for is bound to a tag: not    *)
(* always to that one, for an earlier record may have brought another.     *)
(***************************************************************************)
TagsBoundIn(s) ==
  /\ \A m \in Queued(s) : s.stamps[m] # None => BoundTo(s, m) # None
  /\ \A a \in DOMAIN s.acks : s.acks[a].tag # None => BoundTo(s, ackKey(a)) # None

(***************************************************************************)
(* The two deletion indexes list exactly the records held.                 *)
(***************************************************************************)
IndexesAgreeIn(s) ==
  /\ \A h \in PurgeHashes :
       (IF h \in DOMAIN s.messagesByPurge THEN s.messagesByPurge[h] ELSE {})
          = {m \in Queued(s) : purgeKey(m) = h}
  /\ \A h \in DOMAIN s.messagesByPurge : s.messagesByPurge[h] # {}
  /\ \A m \in MessageIDs :
       (IF m \in DOMAIN s.acksByMessage THEN s.acksByMessage[m] ELSE {}) = Naming(s, m)
  /\ \A m \in DOMAIN s.acksByMessage : s.acksByMessage[m] # {}

(***************************************************************************)
(* The memory ceiling: each map stays within its cap, and acks that are    *)
(* not the node's own stay within the budget above the message cap.        *)
(***************************************************************************)
OwnAcks == {NodeReceived[m] : m \in MessageIDs}

CapacityIn(s) ==
  /\ Cardinality(Queued(s)) <= MaxMessages
  /\ Cardinality(DOMAIN s.acks) <= maxAcks
  /\ Cardinality(DOMAIN s.acks \ OwnAcks) <= externalAckCapacity
  /\ Cardinality(DOMAIN s.purges) <= MaxPurges

(***************************************************************************)
(* No circle holds more messages than its slots, nor more of them in one   *)
(* lane than the lower of its own and the box's quota.                     *)
(***************************************************************************)
QuotasHoldIn(s) ==
  \A c \in Credentials :
    /\ Cardinality(ChargedTo(s, c)) <= lowerOf(MaxMessages, TermsOf[c].slots)
    /\ \A k \in Lanes :
         Cardinality(ChargedTo(s, c) \cap InLane(s, k))
           <= lowerOf(MaxPerPair, TermsOf[c].maxPerPair)

(***************************************************************************)
(* No record can be held past the box's ceiling from now, and no message   *)
(* past the retention window of the circle it is charged to.               *)
(***************************************************************************)
WindowsHoldIn(s, now) ==
  /\ \A m \in Queued(s) : s.messages[m] <= now + MaxTTL
  /\ \A a \in DOMAIN s.acks : s.acks[a].expiresAt <= now + MaxTTL
  /\ \A m \in DOMAIN s.messageCredential :
       s.messages[m] <= now + lowerOf(MaxTTL, TermsOf[s.messageCredential[m]].retention)

\* While a tombstone lives, no message that carries its hash is queued.
PurgedStayOutIn(s, now) == \A m \in Queued(s) : ~Purged(s, m, now)
=============================================================================
