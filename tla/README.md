# TLA+ specifications of dee-relay

dee-relay is a store-and-forward node for end-to-end encrypted mail.  It keeps
everything in RAM under fixed caps, trusts nobody it cannot check, and shares
its queues with the other relays of a pool.  This directory models the parts of
it that keep state, and the tool that issues its credentials, model-checks them
with TLC on small instances and proves, with TLAPS and for every size, every
invariant that TLC checks: those of the message queue, of its replication, of
prekeys, attachments, presence, the admission gate, issuance and the peer pool,
and that the queue implements an abstract mailbox.

Contents: [inventory](#the-system), [modules](#modules-and-code),
[runs](#runs), [the abstract mailbox](#the-abstract-mailbox), [bounds](#bounds), [fairness](#fairness),
[proofs](#proofs), [disagreements met](#where-code-and-comments-disagree),
[not modelled](#what-is-not-modelled), [plan](#plan).

## The system

| part | state | operations | hard behaviours | what makes it correct |
|---|---|---|---|---|
| message and ack queue, `internal/queue` | messages, acks, tombstones; beside them lane and credential counters, arrival numbers, tag bindings, two deletion indexes | POST and GET of messages and acks, purge of an owner, `PruneExpired`, export and import of pages | acks that precede their message; ids that come back with another tag; clock read before the lock; full lanes; a long run of calls that leaks an index | bookkeeping equals the records; caps, quotas and windows hold; only the tag an id is bound to deletes its message; purged mail stays out; everything leaves |
| mesh, `internal/mesh` | a cursor per peer, the pages in flight | `SyncAll`, `SyncPeer`, GET /mesh/snapshot | restarts and lost answers between pages; clients change both ends while a page travels | the cursor skips nothing; nothing done is revived; mail and deliveries spread |
| prekey authority, `internal/prekey` | a pool per device, its last-resort prekey, a token bucket | publish, claim, status, prune | repeated publishes; late clock readings in the bucket; pools that come and go at the cap | an entry goes to one sender; drains are throttled; pools are bounded and lapse |
| attachment pass-through, `internal/attachment` | a session per capability with its window, a rolling day per circle | push, drain, complete, prune | replays, re-declared transfers, reused hour buckets, a refused first chunk that keeps its slot | no chunk twice, none lost in a session; footprint bounded; daily total exact; slots come back |
| presence, `internal/presence` | leases, counts per caller, revocations | heartbeat, revoke, query, snapshot, import | leases and revocations out of order; a full table; copies that come back from peers | counts exact; revocations outrank what they outdate; only weaker claims are evicted |
| admission gate, `internal/admission`, `internal/httpapi/admission.go` | nonces, sessions, the credential set and its numbering | challenge, redeem, admit, SIGHUP reload | handlers that take several locks in turn; a reload between them | a nonce buys one session; revocation takes effect on the next call; an index names one circle |
| peer pool, `internal/peer` | last success and failures per peer, the node's own url and when it was checked | record, health, latch, resolve | pulls that fail in any order; a wall clock that is set back; a host that changes networks | health never flatters and an outage shows; the published address comes to be one the host holds |
| issuance, `internal/issue`, `cmd/dee-admit` | the credential file | open, mint, renew, revoke, save | two operators without a lock; a crash or power cut inside save; a SIGHUP during a reload; codes typed by hand | the file always parses, and stays readable while commands do not overlap; a printed window is kept; a SIGHUP takes effect |
| relay process, `cmd/dee-relay` | tickers, signals | cleanup ticker, mesh ticker, reload, shutdown | tickers run beside all handlers | every store is swept |
| configuration, wire types, body limits, deployment scripts | none that lives | - | - | - |

How they interact.  Handlers of `internal/httpapi` call one store each, after
`admit` has turned a session token into a *grant* (the credential's index and
its terms) for the queue and the attachment relay.  A store has one mutex, held
for a whole method, so a method is one atomic step; several of them read the
clock **before** they take it.  The mesh syncer is a client of other relays'
GET /mesh/snapshot and of its own relay's `ImportSnapshot`, `Import` and
`ImportRevocations`, and records each outcome in the peer pool.  Two tickers and
the SIGHUP handler of `cmd/dee-relay` run beside the handlers.  `dee-admit` and
the relay share nothing but a file: the tool renames a new one into place, the
operator sends SIGHUP, the relay reads it.

`PROJECT.json` lists the hazards of this code line by line ("hazards"), and
which property would notice each of them.

## Modules and code

| module | models | state |
|---|---|---|
| `QueueOps` | the methods of `queue.Store` and the helpers behind them, as operators from a store to a store; the predicates the properties are made of | none |
| `QueueStore` | one relay's queue under all its callers | `store` (the Go struct), `now` |
| `Mailbox` | what a queue promises about mail: an abstract specification | `mail`, `settled`, `graves`, `now` |
| `QueueMailbox` | `QueueStore` as an implementation of `Mailbox` | |
| `QueueStoreProofs` | theorems about `QueueStore`: types, arrival numbers, deletion indexes and tombstones; counters, bindings, quotas, windows, caps and the ack reserve; what a step may do, and that it implements `Mailbox` | |
| `Mesh` | relays that pull each other's queues; composes one `QueueOps` store and one syncer per relay | `stores`, `epoch`, `cursor`, `sync`, `seen`, `clock`, `faults` |
| `Slices`, `SliceProofs` | what a loop leaves of a slice when it copies some of its elements, and what it adds up; lemmas about both | none |
| `PrekeyStore`, `PrekeyProofs` | `prekey.Store` | `prekeys`, `now`, `history` |
| `AttachmentRelay`, `AttachmentProofs` | `attachment.Relay` | `sessions`, `transit`, `now`, `pushes`, `pushed` |
| `Presence`, `PresenceProofs` | `presence.Store` and the leases of other relays | `records`, `callers`, `revocations`, `wire`, `now` |
| `Admission`, `AdmissionProofs` | `admission.Sessions`, `admission.Store`, the handlers that combine them, the reload | `gate`, `credentials`, `index`, `calls`, `now` and the history of draws |
| `Issuance`, `IssuanceProofs` | `dee-admit` mint, renew and revoke, `issue.File`, the file on its disk, the relay's boot and reloader | `file`, `disk`, `commands`, `relay`, `hangup`, and history |
| `PeerPool` | `peer.Pool`, `selfAddress`, and the world they report on | `status`, `turn`, `self`; `up`, `elapsed`, `back`, `host`, `truth` |
| `PoolProofs` | theorems about `Mesh` and `PeerPool` | |
| `MCQueueStore`, `MCMesh`, `MCPrekeyStore`, `MCAttachmentRelay`, `MCPresence`, `MCAdmission`, `MCIssuance`, `MCPeerPool` | constants of the small instances | |

Conventions.

* A Go map is a function on the set of its keys; an absent key is an absent
  element of the domain, so a leaked entry is visible.
* Names are the source's.  An action is one critical section of the code, with
  everything it does under the lock: the sweep a method starts with, the
  coupled ack, the counters and the indexes.  A handler of `Admission` that
  takes several locks in turn is several actions, and `calls` says where it
  stands; so is a command of `dee-admit`, which holds no lock at all
  (`commands`), and the reloader, which reads the file before it applies it.
* The lane, purge hash and form of an envelope, and the type of an ack, are fixed by
  its id, so the maps keep what the relay decides: the expiry, the tag an ack was
  proved against, the arrival number.  The recipient tag of an envelope is not: no
  code makes ids unique, so an id may arrive with any tag of `StampsOf`, again and
  with another one, by a client or from a peer.  `stamps` keeps the tag of the
  envelope that is held, a field of `model.MessageEnvelope`.  `form` stands for the field and size checks that a body
  passes or fails.  Payloads are lengths, signatures are valid or not.
* `Readings` is the set of times a handler may have read before it waited for
  the lock: up to `MaxLag` behind `now`.
* Variables the code does not have are history, read by properties only:
  `seen` (arrivals a relay was given), `history` (what became of prekeys),
  `pushes`, `pushed` and the `drained` field (how many chunks were accepted, what
  each circle pushed in each hour, what was delivered),
  `opened`, `charged` (which nonce opened a session, which circle an index was
  used for), `promised`, `unheard`, `undone`, `provided` (what a command
  printed, whether a SIGHUP is unanswered, whether a save was overwritten or
  lost, whether the relay was given the file), `truth` (when a pull really
  succeeded).  `drawn` keeps random draws distinct.
* `TypeOK` is an invariant of the queue's run; in the other modules it is the
  first conjunct of the invariant about that state (`PoolsBounded`,
  `FootprintBounded`, `CallersAgree`, `TablesAgree`).
* A loop is written as what it leaves behind, where that can be said directly: the
  filters of `prekey` and `admission` with `Keeping` and `Picked`, the numbering of
  a reload and the room a publish finds with `Place`, a release of several leases
  in `Presence` as one subtraction per caller, the page of a snapshot and the
  distinct targets of the pool with `Place` and `Picked`, totals with `Sum`.  Only
  such a form can be reasoned about for any length; TLC evaluates the same
  definitions.
* `Mesh` and `PeerPool` name their parts `MeshInit`, `MeshNext`, `PoolInit`, ..., since
  `PoolProofs` builds on the theorems about `QueueStore`, which has the plain names.
* An operator `op_fault` is `op` with one plausible mistake.  Nothing uses it;
  putting it in place of `op` must violate the property `PROJECT.json` pairs it
  with, so that no property holds whatever the code does.

Abstractions worth knowing.  `Mesh` gives all relays one clock and lets a
syncer visit its targets in any order (a superset of `SyncAll`'s order).
A token of the prekey bucket is `ClaimRefill` ticks of credit, which is exact
where the code has a `float64`.  The other relays in `Presence` are a set of
leases and revocations that some page may carry at any time, again or late.
Where Go's map order decides (evicting among equals in `makeRoomLocked`,
the order of tombstones on a page), the choice is open.  In `Issuance` a
normalized code stands for the credential id derived from it; a code is a
sequence of symbols, because that a typed code and a printed one normalize to
the same is one of the questions.  A file is its credentials, whether all of its
bytes are there, its mode and its owner, and `disk` is what a power cut may fall
back to, since the code syncs the file and not its directory.  `--days` wraps
around at `DurationRange`, as a 64-bit `time.Duration` does.  In `PeerPool` two
clocks run: ages come from the wall clock, which may be set back, the recheck of
the own address from the monotonic one.

## Runs

Passing runs:

| run | what it asks |
|---|---|
| `queue_store` | Two messages of one lane and one owner, on a node that does not demand proof; the id of one comes with either of two tags or none; one circle with one slot and a short retention.  Counters, bindings, arrival numbers and indexes equal the records after every interleaving, and quotas hold (`CountersAgree`, `ArrivalsAgree`, `IndexesAgree`); a purge removes all of an owner's mail and acks, and no retry or import brings it back while its tombstone lives (`PurgeIsComplete`, `PurgedStayOut`); arrival numbers never change (`ArrivalsStable`); a tag an id is bound to stays, and a message that finds its id unbound is bound to its own (`OwnerBound`); no ack deletes a message with a tag unless it proves the binding (`OnlyBoundTagAcks`); windows and caps hold, and one sweep makes room for the node's own acks (`WindowsHold`, `Capacity`, `ReserveAfterSweep`); the store comes to be empty, counters and indexes included (`EverythingLeaves`); every step is one of the mailbox (`ImplementsMailbox`). |
| `mesh_pages` | One relay pulls pages of one record from another, with clients on both and one fault.  The cursor skips nothing the peer still holds, no import revives a delivered or purged message; and a message, the news of its delivery and its owner's purge reach the relay that pulls. |
| `prekey_pools` | Two devices compete for the only pool.  Every admitted entry is in the pool, with one sender, or expired; pools, entries and limiter state are bounded; claims drain no faster than burst plus refill; pools lapse. |
| `attachment_windows` | Two circles push, replay, re-declare, drain and complete two transfers across days of two hours.  No chunk twice, none lost in a session; footprint bounded; daily total exact; every slot comes back. |
| `presence_table` | Two owners with three grant hashes and three kinds of caller share two slots, with leases dated in the past, now or in the future, and copies and revocations from elsewhere.  Counts exact, revocations outrank what they outdate, only weaker claims are evicted, all lapses. |
| `admission_gate` | Two calls redeem and use sessions of two circles while files are reloaded.  Tables agree and are bounded; a nonce buys one session; an index names one circle; no call is admitted under a credential that is gone or over. |
| `issuance` | Two operators change one file, with or without a first circle in it, while commands are killed, power is cut, access is granted and the relay boots, stops and reloads.  The file parses in every state, and stays readable for a relay that was given it until a save overwrites one it had not seen or a power cut takes a rename back (`FileLoads`); what a command printed holds until that code is revoked, however it is typed (`PromiseKept`); a SIGHUP that arrives during a reload is worked off too (`HangupHeard`). |
| `peer_pool` | Two peers, a wall clock that is set back, and a host that roams.  `/health` never shows an age younger than it is or more reachable peers than answered, -1 means what it says (`HealthHonest`); while a peer stays away `Reachable` comes to fall short of the number of peers, and once all are back to equal it (`OutageShows`); a tracked address settles on one the host holds, any other stays as configured (`AddressFollows`). |

Runs that end in a violation (`queue_reuse`, `queue_reserve`, `prekey_twice`,
`attachment_transit`) are described
[below](#where-code-and-comments-disagree).

Deadlock is checked in every run but `issuance`, where operators may have no
further command and the relay no file to boot from; elsewhere a relay can always
serve a sweep or a fetch, which is a (possibly stuttering) step.

## The abstract mailbox

`Mailbox` is what the people whose mail a relay holds can rely on, in five
actions and without counters, indexes, lanes or ack records: a message gets its
deadline when it is accepted and keeps it; it leaves at the deadline, when it is
settled, or with all of its owner's mail; a standing tombstone keeps that
owner's mail out.  `QueueMailbox` maps the store onto it (`mail` is the message
map, a message is `settled` while a terminal ack for it is held, `graves` are the
tombstones) and `queue_store` checks `Mail!Spec` as a property of the queue, so
that every operation, import and sweep has to be one of the five or invisible.

Two things the mailbox does not promise, because the code does not do them: a
message whose terminal ack came first is accepted all the same, and settled
messages are forgotten in the end.

## Bounds

Every bound is a named constant and a guard.

* `Horizon`, and `ClockEnd` in `Mesh`, stop the clock.  With windows of 1 or 2 ticks, horizons of 2 to 7
  let a record be stored, expire, be swept and come back.  `LastArrival`,
  `LastPush`, `LastPublish` and `LastHeartbeat` stop the clients early enough
  for the last window to close before the horizon, where a liveness property
  is checked; elsewhere they are the last time or one tick before it.
* `MaxSeq` is the number of records that may arrive at a store.  5 in `queue_store`
  is both messages with their coupled acks and an ack from outside, or one message
  after another ack, tag or deletion of the same id; it fills the caps of two
  messages and three acks and refills them.  7 in `queue_reuse` is a message, its
  coupled ack and a terminal one, the first two again, and two acks more.
* `Tags` has two tags in the runs about ownership: an id that was bound and the one
  it comes back with.  `Requests` of 1 and 4 are an expiry that is over when it
  comes, and one past every window, which is cut down to it.
* `Dates = {1, 9}` in `Presence` are a lease dated at the beginning and one dated
  past every revocation; the relay's own reading is the third.
  `MaxArrivals = 4` in `Mesh` lets clients of a relay post until it has had a
  message, both acks for it and one record more; imports go on after that.
* `MaxLag = 1` is a clock reading that is one tick late, half or all of the
  shortest window; it reorders any two calls.
* `MaxCommands = 2` is two commands over a behaviour, in turn or overlapping, of
  every kind, on a file with a lapsed and a running circle or without any; what a
  command does depends on the file alone, so a third one adds no case that two
  do not reach from one of these files.  `MaxFaults = 1` in `Issuance` is one
  power cut or one stop of the relay.  `DurationRange = 2` with `--days` of 1
  and 2 has a window that wraps and one that does not.
* `MaxElapsed = 3` and `MaxBack = 1` follow ages from 0 to 3 and one correction
  of the wall clock, larger than the youngest age; `RecheckInterval = 2` puts
  moves between two checks of the address.
* Caps are 1 or 2, so that full, full by one's own doing, and full by others'
  all occur.  `PageSize = 1` puts a page boundary between any two records, and
  `PagesPerSync = 2` ends a sync with records left over.
* `MaxFaults = 1` is one restart or lost answer, at any step.  Since a restart
  resets a relay to its initial state under a new epoch, a second one adds a
  behaviour only while pages of two former lives are in flight, which one
  syncer goroutine cannot have.
* `HoursPerDay = 2`, `TicksPerHour = 1` wrap the ring of hour buckets.
* `MaxPushes = 3` fills a circle's slots and its daily ceiling, with a replay or a
  declaration of another size left over.  `MaxPushes`, `MaxAdmitted`, `MaxWire`, `MaxReloads` bound histories.
  `MaxReloads = 2` revokes a credential and brings it back; `MaxWire = 1`
  holds one lease or revocation at other relays, which can be imported any
  number of times and at any time.
* `admission_gate` uses symmetry in nonces, tokens and calls: it has no
  liveness property, and no definition tells two of them apart.

## Fairness

* `WF(Tick)`: time passes.
* `WF(Prune(now))` or `WF(Sweep(now))`: `cmd/dee-relay/main.go` runs the
  cleanup ticker for the life of the process and it prunes every store.
* `Mesh`: a page that came in is worked off, and a page of every target comes in
  again and again, said as conditions on the states.  The mesh ticker calls
  `SyncAll` for the life of the process, a sync that fails only waits for the
  next tick, and `MaxFaults` makes faults finite.  Nothing is assumed of time:
  mail that expires first is excused by `MailSpreads`.
* `Issuance`: `WF(TakeAndRead \/ Apply)`.  The reloader's goroutine runs while a
  signal waits.  No operator, no boot and no `Provide` is assumed.
* `PeerPool`: `WF` of `SyncNext` (mesh ticker), `Resolve` (cleanup ticker, which
  calls `RefreshSelfURL` on every beat) and `Elapse` (the monotonic clock).  The
  wall clock is not assumed to move.
* No client is ever assumed to call.

## Proofs

Every theorem holds for all constants that satisfy the named assumption of its
module (`QueueConstants` and `StoreConstants`, `MeshConstants`,
`PresenceConstants`, `GateConstants`, `IssuanceConstants`, `PrekeyConstants`,
`RelayConstants`, `PeerPoolConstants`): finite sets of ids, caps and windows that
the configuration makes positive.  In particular it holds for any number of
messages, devices, circles, calls and relays, any horizon and, but for attachments,
any lag of a clock reading.  TLC evaluates the assumptions on every run.  Four of
them say more than a type:

* a chunk that passes the checks `PushWithGrant` makes before it takes the lock has
  an index below its `totalChunks`, which is one of these checks;
* a push waits for the lock of the attachment relay for at most a day less an hour
  (`MaxLag`).  The ring has one slot per hour of the day, and a reading that is
  older than that would charge a slot that a later hour has taken;
* owners that can be purged are finitely many (`PurgeHashes`), as any map of the
  code is;
* no relay has itself as a peer (`PeersOf`).

| module | theorem | states |
|---|---|---|
| `QueueStoreProofs` | `Invariance` | `Spec => []IInv`, the inductive invariant |
| | `TypeCorrect`, `ArrivalsExact`, `IndexesExact`, `PurgeSafe` | `TypeOK`, `ArrivalsAgree`, `IndexesAgree`, `PurgedStayOut` |
| | `LimitsInvariance` | `Spec => []LInv`, books and limits |
| | `CountersExact`, `WindowsKept`, `CapacityKept` | `CountersAgree`, `WindowsHold`, `Capacity` |
| | `OnlyBoundTagsDelete`, `ReserveRegained` | `OnlyBoundTagAcks`, `ReserveAfterSweep`, two statements about what the next call would do |
| | `PurgeComplete`, `ArrivalsNeverMove`, `OwnersBound` | the action properties `PurgeIsComplete`, `ArrivalsStable`, `OwnerBound` |
| | `Refinement` | `Spec => ImplementsMailbox` |
| `PoolProofs` | `MeshInvariance` | `MeshSpec => []MeshInv` |
| | `CursorsSkipNothing`, `ImportsReviveNothing` | `NothingSkipped`, the action property `NothingRevived` |
| | `PoolInvariance`, `HealthIsHonest` | `PoolSpec => []PoolInv`, `HealthHonest` |
| `AttachmentProofs` | `RelayInvariance` | `Spec => []RelayInv` |
| | `ChunksDeliveredOnce`, `FootprintKept`, `TransitAddsUp` | `DeliveredOnce`, `FootprintBounded`, `TransitExact` |
| `PresenceProofs` | `PresenceInvariance` | `Spec => []IInv` |
| | `CountsExact`, `RevocationsHold`, `LiveLeasesStay` | `CallersAgree`, `RevokedStayOut`, the action property `LiveLeaseKept` |
| `AdmissionProofs` | `AdmissionInvariance` | `Spec => []IInv` |
| | `TablesExact`, `NoncesOpenOnce`, `IndexesNameOne`, `RevocationsTakeEffect` | `TablesAgree`, `NonceOpensOnce`, `IndexNamesOneCircle`, the action property `RevocationTakesEffect` |
| `PrekeyProofs` | `PrekeyInvariance` | `Spec => []IInv` |
| | `EntriesHaveOneHolder`, `PoolsKeepBounds`, `ClaimsThrottled` | `OneHolderPerEntry`, `PoolsBounded`, `DrainThrottled` |
| `IssuanceProofs` | `IssuanceInvariance` | `Spec => []IInv` |
| | `FileStaysWhole`, `PromisesKept` | `FileLoads` (the file parses always, and may be read while `provided /\ ~undone`), and `PromiseKept` under `ReadsAsMeant` |

### The queue

All changes go through five helpers: `insertAck`, `addMessageLocked`,
`deleteMessages`, `deleteAcks` and an update of the tombstones.  Each is first
described as a relation between fields before and after (`InsertAckFields`, ...),
then each part of an invariant is shown to survive each helper, and an operation
is shown to be a chain of them (`AddMessageCases`, `AddAckCases`, ...).  There are
two inductive invariants, the second on top of the first:

    IInv == /\ IsStore(store), IndexesAgreeIn(store), ArrivalsAgreeIn(store)
            /\ now \in Nat \ {0}
            /\ PurgedStayOut

    LInv == /\ Books(store): the above without PurgedStayOut, CountersAgreeIn,
            |                BindingsAgreeIn, TagsBoundIn
            /\ now \in Nat \ {0}
            /\ Limits(store, now): quotas, windows and caps, and ReserveFree

`PurgedStayOut` alone is not inductive: a purge deletes the messages the index
`messagesByPurge` names, and leaves the owner's mail behind its tombstone if
the index has lost one.  So the exact indexes have to be part of it.  An import
of a tombstone, and a post with an old clock reading, keep it because the
comparison with a reading in the past only makes a tombstone look younger.

The limits lean on the books in the same way.  The code compares a quota with a
counter and never with the records, so that quotas hold only while the counters
are exact.  Whether a caller may delete a message is decided by its binding,
which an untagged ack may have opened before the message came, and which goes
with the last record that names the message; `OnlyBoundTagAcks` needs the bindings
to count these records exactly, and every tag held to have left a binding
(`TagsBoundIn`).  `OwnerBound` is a property of a step: each of the helpers keeps a
binding that is there or lets it go with its last record, and only a record that
names the id can bring one.  It says nothing of whose tag was first, and that an
id's first tag may not be the one of the message it is used for later is
`queue_reuse`.  And `ReserveAfterSweep` is about a lane that a
sweep leaves behind: it needs a bound on the *loose* acks, the live ones that are
not the node's own ack of a queued message, because every other ack is paid for
by a message that is there.  Each of these sets changes by one element, or by
those an expiry picks, and a good part of the proof is what that does to a
cardinality.

For the refinement, every step is first sorted by what it does to messages,
acks and tombstones, and then shown to be the `Mailbox` action of that kind or a
stutter.  That a message is settled in `Mailbox` exactly when the code finds a
terminal ack for it is where the exact ack index comes in.

### Replication

`NothingSkipped` says that what a peer still holds up to a relay's cursor was given
to that relay.  It is not inductive, because the cursor moves only when a page is
worked off, and by then both stores have changed.  The invariant is

    MeshInv == /\ RelaysOK:  every store is Sound (the part of IInv without a clock)
               /\ CursorsOK: a cursor of the peer's current life is no later than
               |             its counter, and what the peer holds up to it was seen
               /\ PagesOK:   a page of the peer's current life holds everything
                             between the cursor it was asked with and the cursor it
                             answers with that the peer holds now

All that a client, an import, a sweep or a purge does to the peer in the meantime
is one relation: `Follows(n, s)`, the counter did not fall and every number that `n`
holds was held by `s` or given out since.  A chain of store operations follows, so
cursors and pages keep up (`StoreMoves`), and the theorem needs to know of the
queue only that arrival numbers are exact and never reused.  A restart begins a
new life with a new epoch, and a cursor or page of an old one promises nothing;
`Restarted` is why a page whose epoch is not the cursor's is asked for anew.
A page answers with the number of its last record, and holds the pending records
at the first `PageSize` places; that nothing pending lies below that number and off
the page follows from `Place` growing with the number.

`NothingRevived` is a property of one import, however long the page.  One record
keeps a store clean (`StaysClean`: what is queued and known to be done was already
so before), and a run of records does by a least counterexample: the first place
in the run after which it would fail.

### The peer pool

`Health` walks the configured list and stops at the first peer that was never
synced; `HealthHonest` speaks of the set of peers.  The list holds every peer once
although the configuration may repeat it (`TargetsOnce`), so that counting places
counts peers, by an injection in general and a bijection once the loop reaches
the end (`ReachableHonest`).  The invariant `PoolInv` joins what is recorded with
what happened; that a recorded time is at most `MaxBack` past the real one, on the
clock's own scale, is what bounds how young an age can look.

### Attachments

`RelayInv` has two parts.  `SessionsOK`: the chunks of a session are in its window
or drained and never in both, its byte counter is the `Sum` of the window, it is
inside its limits, and the sessions that a circle opened are within its cap.
`RingOK`: in every slot of the ring, what was pushed in an hour of the last day is
what the slot of that hour holds, a slot that stands for another hour counting as
zero.  A slot is reused when an hour that is a multiple of a day later is charged,
and by then the old hour has left the last day; that late readings do not
disturb this is the assumption on `MaxLag`.  From it the rolling total is a sum
over slots equal, term by term, to one over hours.

### The other components

* `Presence`.  The invariant joins exact counts, the ceilings, that a lease ends
  no later than `Lease` after it was seen, and that a revocation outranks the
  leases it outdates.  The bound on a lease's end is needed because a sweep
  looks at `lastSeen` and not at the end: only with it is what a sweep takes over.
  Room is taken from a caller when its count says that it is past its share, so
  `LiveLeaseKept` needs the counts to be exact.
* `Admission`.  `NonceOpensOnce` speaks of sessions only and is not inductive.
  The strengthening says where a nonce may be: waiting in the gate, held by one
  call between two locks, or spent on one session, and never in two of these
  places.  For the index it is that numbers are injective and never taken back,
  and that every charge was made under the number its circle still has.
* `PrekeyStore`.  `Booked` accounts for every admission (in the pool, issued, or
  lapsed); it is inductive only with pools that hold an id once.  The throttle is
  `claimed * ClaimRefill + credit <= Full + (lastRefill - born) + MaxLag`, with
  no claims while there is no limiter state.  `MaxLag` is there because the first
  claim may have read the clock before the pool was opened, and only once, however
  many late readings follow, because `lastRefill` never moves back.  A publish
  sweeps first, so a pool that is opened again finds no old limiter state; that such
  state is left over for one pool at most is what bounds it.
* `Issuance`.  Whatever crashes, the path names either nothing or a whole, synced
  file that was marshalled; and a command that is not stale works from the file
  the path still names, so that its save continues what was promised.
  `PromisesKept` has `ReadsAsMeant` as hypothesis: a typed code that normalizes to
  a circle's code normalizes to the one that was meant.  Normalization folds a
  sequence symbol by symbol, which TLC evaluates in `issuance`; a fold that swaps
  look-alikes is one of the faults that `PromiseKept` notices there.
* `Slices`.  `Place` counts the numbers up to one, and `Picked` lists the
  elements at given places in order.  That the places are exactly `1..n` and that
  each is taken once is shown with a least counterexample (`WFMin`), since the
  induction theorems of the library cannot be instantiated.  `Sum` is a recursive
  function on `0..Len(seq)`; that it exists, is a number, and grows with an appended
  term is shown in the same way.

### Checked by TLC only

* Everything under fairness (`EverythingLeaves`, `MailSpreads`, `DoneSpreads`,
  `PoolsLapse`, `SlotsComeBack`, `PresenceLapses`, `HangupHeard`, `OutageShows`,
  `AddressFollows`): liveness and ENABLED are out of the prover's reach.
* What `NormalizeCode` makes of a code: a fold over a sequence.  It enters
  `PromisesKept` as the hypothesis `ReadsAsMeant`.

Every invariant and every action property of a passing run is stated by a theorem,
but for the part of `AddressFollows` that says an untracked url never changes, which
shares a property with a liveness statement.

## Where code and comments disagree

* `queue_reuse`.  `SECURITY.md:63` and `README.md:225` say that an ack is proved
  against the tag of the message it names and so cannot delete other people's mail.
  It is proved against the tag the *id* is bound to, the first one that came with it
  while any record names it.  Ids are the callers' choice: when a message with an id
  was queued under one tag and acked, and its coupled ack has lapsed before that
  terminal one, a message with the same id and another tag is queued (a POST does not
  look for terminal acks; an import does) and stays bound to the first tag.  An ack
  with the first tag deletes it, and one with its own is refused.  `OnlyOwnerAcks`
  states the claim; `OnlyBoundTagAcks` and `OwnerBound` say what does hold.
* `queue_reserve`.  `NewStore` sizes the ack lane so that ack pressure can
  never refuse a POST /messages.  Coupled acks outlive messages that a fetch
  swept; nothing sweeps acks until the ticker does, and meanwhile the lane is
  full while the message queue has room.  `ReserveAfterSweep` (in
  `queue_store`) says what does hold.
* `prekey_twice`.  The package comment says that the authority can never hand a
  prekey to two senders.  `Publish` compares ids with the pool only, so a
  repeated publish takes a claimed prekey in again.  `OneHolderPerEntry` says
  what does hold: one sender for every time it was admitted.
* `attachment_transit`.  The daily ceiling is said to be pinned to the circle
  that opened the transfer.  The bytes are, but they are compared with the
  ceiling of the circle that presents the chunk.

Observed while modelling and not turned into a run: a test comment says every
path refuses an envelope once a terminal ack for it exists, and
`AddMessageWithGrant` does not look; a proven presence lease that replication
echoes is charged to the unproven caller from then on; a redeem that overlaps a
reload leaves a session of a revoked credential in the table until it ages out,
though no call is admitted with it; `Pool.Health` stops at the first peer that
never synced, so that `Reachable` leaves out peers listed after it although its
comment counts every peer whose last attempt succeeded (`HealthHonest` therefore
has it as an upper bound until every peer has answered once); two operators who
save at once lose one change, and a save may be undone by a power cut because
the directory is not synced (`undone` in `Issuance`); a large `--days` wraps
around.  They are among the hazards.

Accepted by the design and visible in the models: a restart empties the queue,
and peers that still hold a message deliver it again; at `MaxPurges` a purge
deletes without leaving a tombstone; the cursor passes records an importer had
no room for; chunks whose response was lost are gone; a host whose interface is
down when the relay starts never tracks its address.

## What is not modelled

* Which records a fetch returns and in which order; field formats, the size limit
  of a page in bytes, TLS, the pool secret, hashing and signatures.  None of them
  changes state; what they let through or refuse is a choice in the models.
* `body_limit.go`: a limit on one request's bytes and time.  It keeps nothing
  that another request sees.
* `session.go`, the client side of a redeem: a sequence of two requests that
  keeps nothing; `Admission` has the relay's side.
* `internal/config`: read once at boot.  The bounds it enforces are assumptions
  on the constants.
* Wire types, which are declarations, and the deployment scripts.
* Listeners and their timeouts, the filter of the error log, routing, status
  codes, and the list command.
* `Mesh` with two relays that pull from each other at once: with one message and
  its acks it is past what a run of minutes can cover.  Each direction is a pull
  of its own with its own cursor; what two directions add, an echo of a record
  to where it came from, is in the queue's run as an import of any record at any
  time, and in `Presence` as a copy that comes back.

## Plan

Modelled: queue, mesh, prekeys, attachments, presence, admission, the abstract
mailbox and its refinement, issuance with the reload, and the peer pool, in that
order, because the queue carries the mail and all other parts lean on it.

Proved: the invariants and action properties of all of them.

Left, in the order of what it would add:

1. a run of `Mesh` in which two relays pull from each other, once a run of minutes
   can cover it (the theorems already allow any graph);
2. the hazards in `PROJECT.json` without a property: each of them is something
   the code does by design or a power cut or an overlap may do, and would be a property only of
   changed code;
3. the handlers' choice of status codes and the list a fetch returns, if a client
   comes to depend on their order.
