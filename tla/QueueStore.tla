----------------------------- MODULE QueueStore -----------------------------
(***************************************************************************)
(* The queue of one relay under every caller it has: the HTTP handlers     *)
(* that post and fetch messages and acks and purge an owner's mail         *)
(* (internal/httpapi/server.go), the mesh syncer that reads and imports    *)
(* pages of peers (internal/mesh/syncer.go), and the cleanup ticker        *)
(* (cmd/dee-relay/main.go).                                                *)
(*                                                                         *)
(* A handler reads the clock, then waits for s.mu.  So an operation works  *)
(* with a time `t` that may lie up to MaxLag behind the clock.  PurgeOwner *)
(* alone reads the clock with the lock held.                               *)
(***************************************************************************)
EXTENDS QueueOps

CONSTANTS
  RequireFetchAuth, \* DEE_NODE_REQUIRE_FETCH_AUTH
  Meshed,           \* DEE_NODE_MESH_PEERS names some peer
  StampsOf,         \* message id -> recipient tags it may arrive with
  Requests,         \* expiry times a caller or a peer may ask for; 0 is none
  MaxLag,           \* how far a waiting handler's clock reading may be behind
  Horizon,          \* bound: the clock stops here
  LastArrival,      \* bound: no record arrives after this time
  MaxSeq            \* bound: records that may arrive

ASSUME StoreConstants ==
  /\ RequireFetchAuth \in BOOLEAN /\ Meshed \in BOOLEAN
  /\ StampsOf \in [MessageIDs -> SUBSET (Tags \cup {None})]
  /\ Requests \subseteq Nat
  /\ MaxLag \in Nat /\ Horizon \in Nat /\ LastArrival \in Nat /\ MaxSeq \in Nat

VARIABLES
  store,  \* queue.Store
  now     \* the relay's clock

vars == <<store, now>>

Init == store = NewStore /\ now = 1

\* Times a handler that now holds the lock may have read.
Readings == {t \in 1..now : now <= t + MaxLag}

\* The bounds on what arrives.
MayArrive == now <= LastArrival /\ store.seq + 2 <= MaxSeq

-----------------------------------------------------------------------------
\* POST /messages.  An enforcing node takes no message nobody could fetch.
PostMessage(m, tag, requested, credential, t) ==
  /\ MayArrive
  /\ RequireFetchAuth => tag # None
  /\ store' = AddMessageWithGrant(store, m, tag, requested, credential, t).store
  /\ UNCHANGED now

\* POST /acks.  An enforcing node wants some proof before it looks further.
PostAck(a, requested, credential, proof, t) ==
  /\ MayArrive
  /\ RequireFetchAuth => proof # {}
  /\ store' = AddAckWithGrant(store, a, requested, credential, proof,
                              ~RequireFetchAuth, t).store
  /\ UNCHANGED now

\* GET /messages
GetMessages(t) == store' = MessagesForRecipient(store, t) /\ UNCHANGED now

\* GET /acks
GetAcks(t) == store' = AcksForSender(store, t) /\ UNCHANGED now

\* GET /mesh/snapshot, and the cleanup ticker's PruneExpired.
Prune(t) == store' = PruneExpired(store, t) /\ UNCHANGED now

\* POST /profile/purge
Purge(hash) ==
  /\ now <= LastArrival
  /\ store' = PurgeOwner(store, hash, now)
  /\ UNCHANGED now

\* Records a peer's page brings.
ImportPurge(hash, expiresAt, t) ==
  /\ Meshed
  /\ now <= LastArrival
  /\ store' = importPurge(store, hash, expiresAt, t)
  /\ UNCHANGED now

ImportMessage(m, tag, expiresAt, t) ==
  /\ Meshed
  /\ MayArrive
  /\ store' = importMessage(store, m, tag, expiresAt, t)
  /\ UNCHANGED now

\* A peer proved the ack against the tag the id is bound to there, or knew of none.
ImportAck(a, expiresAt, tag, t) ==
  /\ Meshed
  /\ MayArrive
  /\ store' = importAck(store, a, expiresAt, tag, t)
  /\ UNCHANGED now

Tick == now < Horizon /\ now' = now + 1 /\ UNCHANGED store

Next ==
  \/ \E t \in Readings :
       \/ \E m \in MessageIDs, requested \in Requests, c \in Callers : \E tag \in StampsOf[m] :
            PostMessage(m, tag, requested, c, t)
       \/ \E a \in AckIDs, requested \in Requests, c \in Callers, proof \in SUBSET Tags :
            PostAck(a, requested, c, proof, t)
       \/ GetMessages(t)
       \/ GetAcks(t)
       \/ Prune(t)
       \/ \E hash \in PurgeHashes, expiresAt \in Requests : ImportPurge(hash, expiresAt, t)
       \/ \E m \in MessageIDs, expiresAt \in Requests : \E tag \in StampsOf[m] :
            ImportMessage(m, tag, expiresAt, t)
       \/ \E a \in AckIDs, expiresAt \in Requests :
            \E tag \in StampsOf[ackKey(a)] \cup {None} : ImportAck(a, expiresAt, tag, t)
  \/ \E hash \in PurgeHashes : Purge(hash)
  \/ Tick

Spec == Init /\ [][Next]_vars

\* Time passes, and the cleanup ticker runs at every CleanupInterval.
FairSpec == Spec /\ WF_vars(Tick) /\ WF_vars(Prune(now))
-----------------------------------------------------------------------------
(***************************************************************************)
(* Properties.                                                             *)
(***************************************************************************)
\* The maps of the store hold what the fields of queue.Store are declared for.
TypeOK == IsStore(store) /\ now \in Nat \ {0}

(***************************************************************************)
(* The counters, the tag bindings, the arrival numbers and the deletion    *)
(* indexes never drift from the records, along any run of posts, acks,     *)
(* sweeps, purges and imports: the lock-step the comments on the fields of *)
(* Store promise.  So no circle holds more than its credential's terms,    *)
(* which are checked against the counters.                                 *)
(***************************************************************************)
CountersAgree == CountersAgreeIn(store) /\ BindingsAgreeIn(store) /\ QuotasHoldIn(store)
ArrivalsAgree == ArrivalsAgreeIn(store)
IndexesAgree == IndexesAgreeIn(store)

(***************************************************************************)
(* No sequence of calls outgrows the caps the relay's memory ceiling is    *)
(* computed from, and callers' acks never enter the part of the lane that  *)
(* is reserved for the node's own.                                         *)
(***************************************************************************)
Capacity == CapacityIn(store)

(***************************************************************************)
(* No record outlives the window the box, or the circle's retention, gives *)
(* it, even when the handler read the clock long before it got the lock.   *)
(***************************************************************************)
WindowsHold == WindowsHoldIn(store, now)

(***************************************************************************)
(* A purged owner's mail is not queued again while the tombstone lives,    *)
(* neither by a retried POST nor by a peer that still holds a copy.        *)
(***************************************************************************)
PurgedStayOut == PurgedStayOutIn(store, now)

(***************************************************************************)
(* The proof an id demands: a tag once bound stays the one to prove until  *)
(* the last record naming the id is gone, whatever is posted, acked,       *)
(* imported or swept meanwhile; and a message that arrives for an id no    *)
(* record has brought a tag for is bound to its own, whatever untagged     *)
(* acks arrived before it.                                                 *)
(***************************************************************************)
OwnerBound ==
  [][\A m \in MessageIDs : Named(store', m) =>
       IF BoundTo(store, m) # None THEN BoundTo(store', m) = BoundTo(store, m)
       ELSE m \in Queued(store') \ Queued(store) =>
              BoundTo(store', m) = store'.stamps[m]]_vars

\* The messages a POST /acks of a caller with this proof would delete now.
DeletedBy(a, proof) ==
  Queued(store) \ Queued(AddAckWithGrant(store, a, 0, NoCredential, proof,
                                         ~RequireFetchAuth, now).store)

(***************************************************************************)
(* At no moment would POST /acks delete a queued message that carries a    *)
(* tag for a caller that cannot prove the tag its id is bound to: five of  *)
(* the six ack types delete the message they name.  So nobody who never    *)
(* had a record of the id under a tag of their own can ack it away.        *)
(***************************************************************************)
OnlyBoundTagAcks ==
  \A a \in AckIDs, proof \in SUBSET Tags : \A m \in DeletedBy(a, proof) :
    store.stamps[m] # None => BoundTo(store, m) \in proof

(***************************************************************************)
(* What SECURITY.md and README.md say of it: POST /acks is proved against  *)
(* the message's own recipientTag, so without that proof it deletes no     *)
(* mail.                                                                   *)
(***************************************************************************)
OnlyOwnerAcks ==
  \A a \in AckIDs, proof \in SUBSET Tags : \A m \in DeletedBy(a, proof) :
    store.stamps[m] \in proof \cup {None}

(***************************************************************************)
(* A purge leaves nothing of the owner: no message with the hash and no    *)
(* ack that names one of the messages it removed (store.go, PurgeOwner),   *)
(* at whatever state it finds the indexes in.                              *)
(***************************************************************************)
PurgeIsComplete ==
  [][\A hash \in PurgeHashes : Purge(hash) =>
       LET owned == {m \in Queued(store) : purgeKey(m) = hash}
       IN  /\ {m \in Queued(store') : purgeKey(m) = hash} = {}
           /\ \A m \in owned : Naming(store', m) = {}
           /\ Queued(store') = Queued(store) \ owned]_vars

(***************************************************************************)
(* Arrival numbers only grow, and a record keeps the one it got: the       *)
(* cursor a peer pages with can neither go back nor skip a record.         *)
(***************************************************************************)
ArrivalsStable ==
  [][/\ store'.seq >= store.seq
     /\ \A m \in Queued(store') :
          IF m \in Queued(store) THEN store'.messageSeq[m] = store.messageSeq[m]
          ELSE store'.messageSeq[m] > store.seq
     /\ \A a \in DOMAIN store'.acks :
          IF a \in DOMAIN store.acks THEN store'.ackSeq[a] = store.ackSeq[a]
          ELSE store'.ackSeq[a] > store.seq]_vars

(***************************************************************************)
(* Nothing stays in RAM for ever: once no more records arrive, the store   *)
(* drains to an empty one (but for the arrival counter) whatever fetches   *)
(* and late sweeps still run, and no counter, binding or index entry is    *)
(* left behind by the records that went.                                   *)
(***************************************************************************)
EverythingLeaves == <>[](store = [NewStore EXCEPT !.seq = store.seq])

(***************************************************************************)
(* What store.go says of the reserved part of the ack lane: a POST         *)
(* /messages is refused as "queue full" only when the message queue is.    *)
(***************************************************************************)
RefusedForAcks(s) ==
  \E m \in MessageIDs, c \in Callers : \E tag \in StampsOf[m] :
    /\ AddMessageWithGrant(s, m, tag, 0, c, now).err = "ErrQueueFull"
    /\ Cardinality(Queued(s)) < MaxMessages

AcksNeverRefuseMessages == ~RefusedForAcks(store)

(***************************************************************************)
(* What holds of it: ack pressure can refuse a POST /messages only through *)
(* expired acks nobody has swept; one PruneExpired, at any moment, gives   *)
(* the node's own acks their room back.                                    *)
(***************************************************************************)
ReserveAfterSweep == ~RefusedForAcks(PruneExpired(store, now))
=============================================================================
