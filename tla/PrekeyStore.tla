----------------------------- MODULE PrekeyStore -----------------------------
(***************************************************************************)
(* The one-time-prekey authority of a relay (internal/prekey/store.go):    *)
(* pools that owners fill and senders claim from, the reusable last-resort *)
(* prekey beside each pool, and the token bucket that throttles claims.    *)
(*                                                                         *)
(* A call reads the clock and then waits for s.mu, so it works with a time *)
(* `t` up to MaxLag behind; Prune alone reads the clock inside the lock.   *)
(* Tokens are counted in ticks: a token is ClaimRefill ticks of credit, so *)
(* that the fractions of the Go float64 stay exact.                        *)
(*                                                                         *)
(* An operator named op_fault is op with one plausible mistake; no other   *)
(* definition uses it.                                                     *)
(***************************************************************************)
EXTENDS Slices

CONSTANTS
  OwnerTags,       \* queue tags, which name the pools' owners
  DeviceKeys,      \* devices of an owner
  OpkIDs,          \* ids clients give their prekeys
  Publications,    \* [entries, lastResort] bodies a client may POST
  MaxPerRecipient, MaxBuckets, PublishedTTL, ClaimBurst, ClaimRefill,
  MaxLag,          \* how far a waiting call's clock reading may be behind
  Horizon,         \* bound: the clock stops here
  LastPublish,     \* bound: owners publish until then
  MaxAdmitted      \* bound: entries admitted over a behaviour

\* An entry that lacks its id, its public key or its signature.
Incomplete == "incomplete"

ASSUME PrekeyConstants ==
  /\ Incomplete \notin OpkIDs
  /\ \A v \in Publications : /\ v.entries \in Seq(OpkIDs \cup {Incomplete})
                             /\ v.lastResort \in BOOLEAN
  /\ MaxPerRecipient \in Nat \ {0} /\ MaxBuckets \in Nat \ {0}
  /\ PublishedTTL \in Nat \ {0} /\ ClaimBurst \in Nat \ {0} /\ ClaimRefill \in Nat \ {0}
  /\ MaxLag \in Nat /\ Horizon \in Nat \ {0} /\ LastPublish \in Nat
  /\ MaxAdmitted \in Nat

\* bucketKey: a pool belongs to one device of one owner.
bucketKey(ownerTag, deviceKey) == <<ownerTag, deviceKey>>

BucketKeys == {bucketKey(o, d) : o \in OwnerTags, d \in DeviceKeys}

VARIABLES
  prekeys,  \* [queues, lastResort, tokens] of prekey.Store
  now,      \* the relay's clock
  history   \* per pool, what the store itself does not remember:
            \*   admitted, issued, lapsed: id -> entries taken in, handed out, expired
            \*   born: when the pool last came into being
            \*   claimed: one-time claims it has served since

vars == <<prekeys, now, history>>

-----------------------------------------------------------------------------
(***************************************************************************)
(* The store's methods, on a record p of its three maps.                   *)
(***************************************************************************)
EmptyMap == [k \in {} |-> k]

Put(map, k, v) == [x \in DOMAIN map \cup {k} |-> IF x = k THEN v ELSE map[x]]

QueueOf(p, key) == IF key \in DOMAIN p.queues THEN p.queues[key] ELSE <<>>

\* An emptied pool leaves the map.
SetQueue_keepsEmpty(p, key, queue) == [p EXCEPT !.queues = Put(@, key, queue)]
SetQueue(p, key, queue) ==
  [p EXCEPT !.queues = IF queue = <<>> THEN Restrict(@, DOMAIN @ \ {key})
                       ELSE Put(@, key, queue)]

\* A pool is live while it holds one-time entries or a last-resort prekey.
Buckets(p) == DOMAIN p.queues \cup DOMAIN p.lastResort

Fresh(publishedAt, t) == publishedAt + PublishedTTL > t
FreshOf(queue, t) == Picked(queue, {i \in DOMAIN queue : Fresh(queue[i].publishedAt, t)})

\* Expired entries go, and the limiter state of pools with nothing left.
pruneLocked_keepsLastResort(p, t) ==
  LET kept == [k \in DOMAIN p.queues |-> FreshOf(p.queues[k], t)]
      queues == RestrictValues(kept, LAMBDA q : q # <<>>)
  IN  [queues |-> queues, lastResort |-> p.lastResort,
       tokens |-> RestrictDomain(p.tokens,
                    LAMBDA k : k \in DOMAIN queues \cup DOMAIN p.lastResort)]
pruneLocked(p, t) ==
  LET kept == [k \in DOMAIN p.queues |-> FreshOf(p.queues[k], t)]
      queues == RestrictValues(kept, LAMBDA q : q # <<>>)
      lastResort == RestrictValues(p.lastResort, LAMBDA at : Fresh(at, t))
  IN  [queues |-> queues, lastResort |-> lastResort,
       tokens |-> RestrictDomain(p.tokens,
                    LAMBDA k : k \in DOMAIN queues \cup DOMAIN lastResort)]

\* Publish's loop: an entry is taken if it is complete and new to the pool,
\* for as long as there is room under the cap.
Admissible_duplicates(queue, entries) == {i \in DOMAIN entries : entries[i] # Incomplete}
Admissible(queue, entries) ==
  {i \in DOMAIN entries : /\ entries[i] # Incomplete
                          /\ \A j \in DOMAIN queue : queue[j].id # entries[i]
                          /\ \A j \in 1..(i - 1) : entries[j] # entries[i]}

Replenished(queue, entries, t) ==
  LET new == Admissible(queue, entries)
      taken == {i \in new : Len(queue) + Place(new, i) <= MaxPerRecipient}
  IN  queue \o Picked([i \in DOMAIN entries |-> [id |-> entries[i], publishedAt |-> t]], taken)

\* A publish that would open a pool too many is refused, none is evicted.
bucketsFull_queuesOnly(p, key) ==
  key \notin Buckets(p) /\ Cardinality(DOMAIN p.queues) >= MaxBuckets
bucketsFull(p, key) == key \notin Buckets(p) /\ Cardinality(Buckets(p)) >= MaxBuckets

Published(p, key, value, t) ==
  LET filled == SetQueue(p, key, Replenished(QueueOf(p, key), value.entries, t))
  IN  IF value.lastResort
      THEN [filled EXCEPT !.lastResort = Put(@, key, t)]
      ELSE filled

\* takeTokenLocked: refill by the time passed, and spend a token if there is one.
takeToken_sameRefill(p, key, t) ==
  LET full == ClaimBurst * ClaimRefill
      old == IF key \in DOMAIN p.tokens THEN p.tokens[key]
             ELSE [credit |-> full, lastRefill |-> t]
      credit == Min({full, old.credit + Max({0, t - old.lastRefill})})
      available == credit >= ClaimRefill
  IN  [available |-> available,
       state |-> [credit |-> IF available THEN credit - ClaimRefill ELSE credit,
                  lastRefill |-> old.lastRefill]]
takeToken(p, key, t) ==
  LET full == ClaimBurst * ClaimRefill
      old == IF key \in DOMAIN p.tokens THEN p.tokens[key]
             ELSE [credit |-> full, lastRefill |-> t]
      credit == Min({full, old.credit + Max({0, t - old.lastRefill})})
      available == credit >= ClaimRefill
  IN  [available |-> available,
       state |-> [credit |-> IF available THEN credit - ClaimRefill ELSE credit,
                  lastRefill |-> Max({t, old.lastRefill})]]

-----------------------------------------------------------------------------
Init ==
  /\ prekeys = [queues |-> EmptyMap, lastResort |-> EmptyMap, tokens |-> EmptyMap]
  /\ now = 1
  /\ history = [k \in BucketKeys |->
                  [admitted |-> [id \in OpkIDs |-> 0], issued |-> [id \in OpkIDs |-> 0],
                   lapsed |-> [id \in OpkIDs |-> 0], born |-> 0, claimed |-> 0]]

Readings == {t \in 1..now : now <= t + MaxLag}

Held(p, k, id) ==
  Cardinality({i \in DOMAIN QueueOf(p, k) : QueueOf(p, k)[i].id = id})

\* The history after a sweep of p at t: the entries whose time is up lapse.
Lapsing(p, k, id, t) ==
  Cardinality({i \in DOMAIN QueueOf(p, k) :
                 QueueOf(p, k)[i].id = id /\ ~Fresh(QueueOf(p, k)[i].publishedAt, t)})

Swept(h, p, t) ==
  [k \in BucketKeys |->
     [h[k] EXCEPT !.lapsed = [id \in OpkIDs |-> @[id] + Lapsing(p, k, id, t)]]]

(***************************************************************************)
(* POST /prekeys, with the sweep it starts with.  The Status the handler   *)
(* reports afterwards takes the lock again: it is a Sweep.                 *)
(***************************************************************************)
Publish(key, value, t) ==
  LET p == pruneLocked(prekeys, t)
      q == Published(p, key, value, t)
      h == Swept(history, prekeys, t)
      opened == key \notin Buckets(p)
  IN  /\ \/ /\ bucketsFull(p, key)
            /\ prekeys' = p /\ history' = h
         \/ /\ ~bucketsFull(p, key)
            /\ prekeys' = q
            /\ history' = [h EXCEPT
                 ![key].admitted = [id \in OpkIDs |-> @[id] + Held(q, key, id) - Held(p, key, id)],
                 ![key].born = IF opened THEN now ELSE @,
                 ![key].claimed = IF opened THEN 0 ELSE @]
      /\ UNCHANGED now

\* GET /prekeys/claim, while a token is left for an entry of the pool ...
ClaimOneTime(key, t) ==
  LET p == pruneLocked(prekeys, t)
      queue == QueueOf(p, key)
      token == takeToken(p, key, t)
  IN  /\ queue # <<>>
      /\ token.available
      /\ prekeys' = [SetQueue(p, key, Tail(queue)) EXCEPT !.tokens = Put(@, key, token.state)]
      /\ history' = [Swept(history, prekeys, t) EXCEPT
                       ![key].issued[Head(queue).id] = @ + 1, ![key].claimed = @ + 1]
      /\ UNCHANGED now

\* ... and otherwise, when the last-resort prekey or nothing is served.
ClaimOther(key, t) ==
  LET p == pruneLocked(prekeys, t)
      token == takeToken(p, key, t)
  IN  /\ \/ QueueOf(p, key) = <<>> /\ prekeys' = p
         \/ /\ QueueOf(p, key) # <<>>
            /\ ~token.available
            /\ prekeys' = [p EXCEPT !.tokens = Put(@, key, token.state)]
      /\ history' = Swept(history, prekeys, t)
      /\ UNCHANGED now

\* Prune, Status, Count, BucketCount and LastResortCount all sweep.
Sweep(t) ==
  /\ prekeys' = pruneLocked(prekeys, t)
  /\ history' = Swept(history, prekeys, t)
  /\ UNCHANGED now

Tick == now < Horizon /\ now' = now + 1 /\ UNCHANGED <<prekeys, history>>

\* The bounds on what is published.
TotalAdmitted ==
  MapThenSumSet(LAMBDA k : MapThenSumSet(LAMBDA id : history[k].admitted[id], OpkIDs), BucketKeys)

MayPublish(value) ==
  now <= LastPublish /\ TotalAdmitted + Len(value.entries) <= MaxAdmitted

Next ==
  \/ \E t \in Readings, key \in BucketKeys :
       \/ \E value \in Publications : MayPublish(value) /\ Publish(key, value, t)
       \/ ClaimOneTime(key, t)
       \/ ClaimOther(key, t)
  \/ \E t \in Readings : Sweep(t)
  \/ Tick

Spec == Init /\ [][Next]_vars

\* Time passes, and the cleanup ticker runs at every CleanupInterval.
FairSpec == Spec /\ WF_vars(Tick) /\ WF_vars(Sweep(now))

-----------------------------------------------------------------------------
(***************************************************************************)
(* Properties.                                                             *)
(***************************************************************************)
\* The three maps hold what they are declared for, and no pool is kept empty.
TypeOK ==
  /\ now \in 1..Horizon
  /\ Buckets(prekeys) \cup DOMAIN prekeys.tokens \subseteq BucketKeys
  /\ \A k \in DOMAIN prekeys.queues :
       /\ prekeys.queues[k] # <<>>
       /\ prekeys.queues[k] \in Seq([id : OpkIDs, publishedAt : 1..Horizon])
  /\ \A k \in DOMAIN prekeys.lastResort : prekeys.lastResort[k] \in 1..Horizon
  /\ \A k \in DOMAIN prekeys.tokens : prekeys.tokens[k].credit \in 0..(ClaimBurst * ClaimRefill)

(***************************************************************************)
(* An entry that was admitted is in its pool, was handed to one sender, or *)
(* expired: claims never hand one out twice and sweeps never lose one that *)
(* is alive.                                                               *)
(***************************************************************************)
OneHolderPerEntry ==
  \A k \in BucketKeys, id \in OpkIDs :
    /\ history[k].admitted[id] =
         Held(prekeys, k, id) + history[k].issued[id] + history[k].lapsed[id]
    /\ Held(prekeys, k, id) <= 1

(***************************************************************************)
(* The box's memory for pools is bounded: at most MaxBuckets pools, at     *)
(* most MaxPerRecipient entries in one, and limiter state for at most one  *)
(* pool that is gone (the last one drained), however pools come and go;    *)
(* and no pool is kept empty.                                              *)
(***************************************************************************)
PoolsBounded ==
  /\ TypeOK
  /\ Cardinality(Buckets(prekeys)) <= MaxBuckets
  /\ \A k \in DOMAIN prekeys.queues : Len(prekeys.queues[k]) <= MaxPerRecipient
  /\ Cardinality(DOMAIN prekeys.tokens \ Buckets(prekeys)) <= 1

(***************************************************************************)
(* A flood of claims drains a live pool no faster than the burst plus one  *)
(* entry per ClaimRefill, in whatever order delayed clock readings get the *)
(* lock.                                                                   *)
(***************************************************************************)
DrainThrottled ==
  \A k \in Buckets(prekeys) :
    history[k].claimed * ClaimRefill <=
      ClaimBurst * ClaimRefill + (now - history[k].born) + MaxLag

(***************************************************************************)
(* Once owners stop publishing, no pool stays: it is claimed empty or what *)
(* it holds expires, the last-resort prekey included.                      *)
(***************************************************************************)
PoolsLapse ==
  \A k \in BucketKeys : k \in Buckets(prekeys) ~> k \notin Buckets(prekeys)

(***************************************************************************)
(* What the package comment promises: the authority can never hand the     *)
(* same prekey to two senders.                                             *)
(***************************************************************************)
NeverTwoSenders ==
  \A k \in BucketKeys, id \in OpkIDs : history[k].issued[id] <= 1
=============================================================================
