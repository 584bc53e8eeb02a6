-------------------------------- MODULE Mesh --------------------------------
(***************************************************************************)
(* A pool of relays that pull each other's queues (internal/mesh/syncer.go,*)
(* SnapshotSince and ImportSnapshot of internal/queue/store.go).  Every    *)
(* relay has a store, and one goroutine that asks its peers for pages: it  *)
(* sends its cursor, the peer answers with what arrived later, and the     *)
(* page is imported when the answer comes in.  Between the two, clients    *)
(* keep calling both relays, either may restart (a restart empties the     *)
(* RAM queue, picks a new epoch and forgets the cursors), and the answer   *)
(* may be lost.                                                            *)
(*                                                                         *)
(* SyncAll walks its targets in order; here the next target is any peer.   *)
(* Hosts share one clock.                                                  *)
(*                                                                         *)
(* An operator named op_fault is op with one plausible mistake; no other   *)
(* definition uses it.                                                     *)
(***************************************************************************)
EXTENDS QueueOps, Slices

CONSTANTS
  Relays,
  PeersOf,       \* relay -> the peers it pulls from (DEE_NODE_MESH_PEERS)
  PageSize,      \* records on a page
  PagesPerSync,  \* pages one SyncPeer asks for
  Expiries,      \* expiry times a client may ask for; 0 is none
  ClockEnd,      \* bound: the clock stops here
  MaxArrivals,   \* bound: a relay's clients post until it has had so many records
  MaxFaults      \* bound: restarts and failed fetches

ASSUME MeshConstants ==
  /\ PeersOf \in [Relays -> SUBSET Relays]
  /\ \A r \in Relays : r \notin PeersOf[r]
  /\ PageSize \in Nat \ {0} /\ PagesPerSync \in Nat \ {0}
  /\ Expiries \subseteq Nat /\ IsFiniteSet(PurgeHashes)
  /\ ClockEnd \in Nat /\ MaxArrivals \in Nat /\ MaxFaults \in Nat

VARIABLES
  stores,  \* relay -> queue.Store
  epoch,   \* relay -> the random name of its current life; 0 is no epoch
  cursor,  \* relay -> peer -> [epoch, seq]
  sync,    \* relay -> what its syncer is doing
  seen,    \* relay -> peer -> arrivals of the peer's current life it was given
  clock,
  faults   \* restarts and failed fetches so far

meshVars == <<stores, epoch, cursor, sync, seen, clock, faults>>

Idle == [peer |-> "", pages |-> 0, page |-> <<>>]
NoCursor == [epoch |-> 0, seq |-> 0]

MeshInit ==
  /\ stores = [r \in Relays |-> NewStore]
  /\ epoch = [r \in Relays |-> 1]
  /\ cursor = [r \in Relays |-> [p \in PeersOf[r] |-> NoCursor]]
  /\ sync = [r \in Relays |-> Idle]
  /\ seen = [r \in Relays |-> [p \in PeersOf[r] |-> {}]]
  /\ clock = 1
  /\ faults = 0

-----------------------------------------------------------------------------
(***************************************************************************)
(* Pages.  SnapshotSince sweeps first, so s is the store after the sweep.   *)
(***************************************************************************)
Arrivals(s) ==
  {[seq |-> s.messageSeq[m], kind |-> "message", id |-> m,
    expiresAt |-> s.messages[m], tag |-> s.stamps[m]] : m \in DOMAIN s.messageSeq}
  \cup
  {[seq |-> s.ackSeq[a], kind |-> "ack", id |-> a,
    expiresAt |-> s.acks[a].expiresAt, tag |-> s.acks[a].tag] : a \in DOMAIN s.ackSeq}

\* The n earliest of a set of arrivals, and all of them in order.
Earliest(S, n) == {x \in S : Place({y.seq : y \in S}, x.seq) <= n}

InOrder(S) ==
  LET numbers == {x.seq : x \in S}
  IN  Picked([n \in numbers |-> CHOOSE x \in S : x.seq = n], numbers)

SnapshotSince_skipsOne(s, name, since) ==
  LET pending == {x \in Arrivals(s) : x.seq > since}
      seqs == {x.seq : x \in Earliest(pending, PageSize + 1)}
  IN  [epoch |-> name, records |-> Earliest(pending, PageSize), purges |-> s.purges,
       more |-> Cardinality(pending) > PageSize, nextSeq |-> Max(seqs \cup {since})]
SnapshotSince(s, name, since) ==
  LET pending == {x \in Arrivals(s) : x.seq > since}
      records == Earliest(pending, PageSize)
      seqs == {x.seq : x \in records}
  IN  [epoch |-> name, records |-> records, purges |-> s.purges,
       more |-> Cardinality(pending) > PageSize, nextSeq |-> Max(seqs \cup {since})]

(***************************************************************************)
(* Tombstones first, in the order the peer's map gave them, then messages, *)
(* then acks, each in order of arrival.                                    *)
(***************************************************************************)
Tombstones(page) ==
  {[kind |-> "purge", id |-> h, expiresAt |-> page.purges[h]] : h \in DOMAIN page.purges}

importRecord(s, x) ==
  CASE x.kind = "purge" -> importPurge(s, x.id, x.expiresAt, clock)
    [] x.kind = "message" -> importMessage(s, x.id, x.tag, x.expiresAt, clock)
    [] x.kind = "ack" -> importAck(s, x.id, x.expiresAt, x.tag, clock)

ImportSnapshot(s, page, tombstones) ==
  LET messages == {x \in page.records : x.kind = "message"}
      records == tombstones \o InOrder(messages) \o InOrder(page.records \ messages)
      after[i \in 0..Len(records)] ==
        IF i = 0 THEN s ELSE importRecord(after[i - 1], records[i])
  IN  after[Len(records)]

-----------------------------------------------------------------------------
(***************************************************************************)
(* Clients of a relay.                                                     *)
(***************************************************************************)
At(r, after) ==
  /\ stores' = [stores EXCEPT ![r] = after]
  /\ UNCHANGED <<epoch, cursor, sync, seen, clock, faults>>

MayArriveAt(r) == stores[r].seq + 2 <= MaxArrivals

PostMessageAt(r, m, tag, requested) ==
  /\ MayArriveAt(r)
  /\ At(r, AddMessageWithGrant(stores[r], m, tag, requested, NoCredential, clock).store)

\* A recipient acks with its own proof.
PostAckAt(r, a, tag, requested) ==
  /\ MayArriveAt(r)
  /\ At(r, AddAckWithGrant(stores[r], a, requested, NoCredential, {tag}, TRUE, clock).store)

PurgeAt(r, hash) == At(r, PurgeOwner(stores[r], hash, clock))

PruneAt(r) == At(r, PruneExpired(stores[r], clock))

-----------------------------------------------------------------------------
(***************************************************************************)
(* SyncPeer.                                                               *)
(***************************************************************************)
\* r asks p, with the cursor it holds, and p answers.
Fetch(r, p) ==
  /\ sync[r].page = <<>>
  /\ sync[r] = Idle \/ sync[r].peer = p
  /\ LET swept == PruneExpired(stores[p], clock)
     IN  /\ stores' = [stores EXCEPT ![p] = swept]
         /\ sync' = [sync EXCEPT ![r] =
              [peer |-> p, pages |-> sync[r].pages + 1,
               page |-> <<SnapshotSince(swept, epoch[p], cursor[r][p].seq)>>]]
  /\ UNCHANGED <<epoch, cursor, seen, clock, faults>>

\* The request times out or is refused, before or after p has answered.
FetchFails(r) ==
  /\ faults < MaxFaults
  /\ sync[r] # Idle
  /\ sync' = [sync EXCEPT ![r] = Idle]
  /\ faults' = faults + 1
  /\ UNCHANGED <<stores, epoch, cursor, seen, clock>>

\* The peer has another epoch than the one the cursor was made in.
Restarted_ignored(mark, page) == FALSE
Restarted(mark, page) ==
  page.epoch # mark.epoch /\ mark.epoch # 0 /\ mark.seq # 0

\* The rest of the loop body: start over, or import, move the cursor and go on.
NextPage(r, goOn) ==
  sync' = [sync EXCEPT ![r] = IF goOn /\ @.pages < PagesPerSync
                              THEN [@ EXCEPT !.page = <<>>] ELSE Idle]

StartOver(r) ==
  /\ sync[r].page # <<>>
  /\ LET p == sync[r].peer
         page == Head(sync[r].page)
     IN  /\ Restarted(cursor[r][p], page)
         /\ cursor' = [cursor EXCEPT ![r][p] = [epoch |-> page.epoch, seq |-> 0]]
  /\ NextPage(r, TRUE)
  /\ UNCHANGED <<stores, epoch, seen, clock, faults>>

Import(r) ==
  /\ sync[r].page # <<>>
  /\ LET p == sync[r].peer
         page == Head(sync[r].page)
         mark == cursor[r][p]
     IN  /\ ~Restarted(mark, page)
         /\ \E tombstones \in SetToSeqs(Tombstones(page)) :
              stores' = [stores EXCEPT ![r] = ImportSnapshot(@, page, tombstones)]
         /\ cursor' = [cursor EXCEPT ![r][p] =
              IF page.nextSeq >= mark.seq THEN [epoch |-> page.epoch, seq |-> page.nextSeq]
              ELSE @]
         /\ seen' = [seen EXCEPT ![r][p] =
              IF page.epoch = epoch[p] THEN @ \cup {x.seq : x \in page.records} ELSE @]
         /\ NextPage(r, page.more /\ page.nextSeq > mark.seq)
  /\ UNCHANGED <<epoch, clock, faults>>

-----------------------------------------------------------------------------
\* A restart: an empty queue under a new epoch, and no cursors.
Restart(r) ==
  /\ faults < MaxFaults
  /\ stores' = [stores EXCEPT ![r] = NewStore]
  /\ epoch' = [epoch EXCEPT ![r] = @ + 1]
  /\ cursor' = [cursor EXCEPT ![r] = [p \in PeersOf[r] |-> NoCursor]]
  /\ sync' = [sync EXCEPT ![r] = Idle]
  /\ seen' = [x \in Relays |-> [p \in PeersOf[x] |-> IF r \in {x, p} THEN {} ELSE seen[x][p]]]
  /\ faults' = faults + 1
  /\ UNCHANGED clock

ClockTick ==
  /\ clock < ClockEnd
  /\ clock' = clock + 1
  /\ UNCHANGED <<stores, epoch, cursor, sync, seen, faults>>

MeshNext ==
  \/ \E r \in Relays :
       \/ \E m \in MessageIDs, tag \in Tags, requested \in Expiries :
            PostMessageAt(r, m, tag, requested)
       \/ \E a \in AckIDs \ OwnAcks, tag \in Tags, requested \in Expiries :
            PostAckAt(r, a, tag, requested)
       \/ \E hash \in PurgeHashes : PurgeAt(r, hash)
       \/ PruneAt(r)
       \/ \E p \in PeersOf[r] : Fetch(r, p)
       \/ FetchFails(r)
       \/ StartOver(r)
       \/ Import(r)
       \/ Restart(r)
  \/ ClockTick

MeshSpec == MeshInit /\ [][MeshNext]_meshVars

(***************************************************************************)
(* The mesh ticker starts a SyncPeer with every target at every            *)
(* MeshSyncInterval, a page that has come in is worked off, and no peer    *)
(* stays away for ever: again and again a page of it comes in.  Said of    *)
(* the states, which TLC follows far more cheaply than of the steps.       *)
(***************************************************************************)
MeshFairSpec ==
  /\ MeshSpec
  /\ \A r \in Relays :
       /\ []<>(sync[r].page = <<>>)
       /\ \A p \in PeersOf[r] : []<>(sync[r].page # <<>> /\ sync[r].peer = p)
-----------------------------------------------------------------------------
(***************************************************************************)
(* Properties.                                                             *)
(***************************************************************************)
(***************************************************************************)
(* The cursor skips nothing: of a peer's current life, everything the peer *)
(* still holds up to the cursor was on a page this relay imported, whatever*)
(* expired, was acked or restarted between two pages.                      *)
(***************************************************************************)
NothingSkipped ==
  \A r \in Relays : \A p \in PeersOf[r] :
    cursor[r][p].epoch = epoch[p] =>
      \A x \in Arrivals(stores[p]) : x.seq <= cursor[r][p].seq => x.seq \in seen[r][p]

(***************************************************************************)
(* Importing a page never brings back what the relay knows to be done: it  *)
(* adds no message beside a terminal ack for it, and none of an owner      *)
(* whose tombstone is alive there.                                         *)
(***************************************************************************)
NothingRevived ==
  [][\A r \in Relays : Import(r) =>
       \A m \in Queued(stores'[r]) \ Queued(stores[r]) :
         ~hasTerminalAck(stores'[r], m) /\ ~Purged(stores'[r], m, clock)]_meshVars

(***************************************************************************)
(* Replication converges: with room in every queue, a message one relay    *)
(* holds reaches the relays that pull from it, unless it leaves before or  *)
(* they know it was delivered or purged, in spite of any finite number of  *)
(* restarts and lost answers.                                              *)
(***************************************************************************)
MailSpreads ==
  \A r \in Relays, m \in MessageIDs : \A p \in PeersOf[r] :
    m \in Queued(stores[p]) ~> \/ m \in Queued(stores[r])
                              \/ m \notin Queued(stores[p])
                              \/ hasTerminalAck(stores[r], m)
                              \/ Purged(stores[r], m, clock)

(***************************************************************************)
(* What is done spreads too.  A relay that does not know a message was     *)
(* delivered while a peer it pulls from does, stops serving the message,   *)
(* unless the peer loses the ack first; and a relay comes to drop the mail *)
(* of an owner whose tombstone a peer holds, unless that is lost first.    *)
(***************************************************************************)
DoneSpreads ==
  \A r \in Relays : \A p \in PeersOf[r] :
    /\ \A m \in MessageIDs :
         hasTerminalAck(stores[p], m) /\ ~hasTerminalAck(stores[r], m) ~>
           (m \notin Queued(stores[r]) \/ ~hasTerminalAck(stores[p], m))
    /\ \A hash \in PurgeHashes :
         hash \in DOMAIN stores[p].purges ~>
           \/ hash \notin DOMAIN stores[p].purges
           \/ \A m \in Queued(stores[r]) : purgeKey(m) # hash
=============================================================================
