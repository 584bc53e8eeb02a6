------------------------------ MODULE Presence ------------------------------
(***************************************************************************)
(* Presence leases at one relay (internal/presence/store.go): heartbeats,  *)
(* the shares of a full table, revocations and their tombstones, and what  *)
(* mesh replication (internal/mesh/syncer.go) brings back.                 *)
(*                                                                         *)
(* HeartbeatWithGrant, Query and the snapshot read the clock and then wait *)
(* for s.mu: they work with a time `t` up to MaxLag behind.  Revoke,       *)
(* ImportRevocations and Prune read it with the lock held.                 *)
(*                                                                         *)
(* The other relays of the pool are `wire`: every lease and revocation     *)
(* that reached one of them, and that a page may therefore carry.          *)
(*                                                                         *)
(* An operator named op_fault is op with one plausible mistake; no other   *)
(* definition uses it.                                                     *)
(***************************************************************************)
EXTENDS Integers, FiniteSets, Functions

CONSTANTS
  Grants,               \* grant hashes
  OwnerOf,              \* grant hash -> owner hash
  Callers,              \* what a heartbeat proved; Nobody is no proof
  Nobody,
  maxRecords,
  maxRecordsPerCaller,
  Lease,                \* the longest lease, five minutes in the code
  lastSeenTTL,
  Dates,                \* times clients date their leases with, late or early
  MaxLag,               \* how far a waiting call's clock reading may be behind
  Horizon,              \* bound: the clock stops here
  LastHeartbeat,        \* bound: clients send heartbeats until then
  MaxWire               \* bound: leases and revocations other relays hold

ASSUME PresenceConstants ==
  /\ Nobody \in Callers
  /\ Grants = DOMAIN OwnerOf
  /\ maxRecords \in Nat \ {0} /\ maxRecordsPerCaller \in Nat \ {0}
  /\ Lease \in Nat \ {0} /\ lastSeenTTL \in Nat /\ Lease <= lastSeenTTL
  /\ Dates \subseteq Nat
  /\ MaxLag \in Nat /\ Horizon \in Nat \ {0} /\ LastHeartbeat \in Nat /\ MaxWire \in Nat

VARIABLES
  records,      \* grant -> [caller, lastSeen, updatedAt, expiresAt]
  callers,      \* caller -> how many records are charged to it
  revocations,  \* owner -> [updatedAt, expiresAt]
  wire,         \* [leases, revocations] other relays may serve
  now

vars == <<records, callers, revocations, wire, now>>
table == [records |-> records, callers |-> callers, revocations |-> revocations]

-----------------------------------------------------------------------------
EmptyMap == [x \in {} |-> x]
Put(map, k, v) == [x \in DOMAIN map \cup {k} |-> IF x = k THEN v ELSE map[x]]
Without(map, gone) == Restrict(map, DOMAIN map \ gone)
Held(counts, caller) == IF caller \in DOMAIN counts THEN counts[caller] ELSE 0

\* releaseLocked for every record in `gone`: a count goes with its last record.
releaseLocked(s, gone) ==
  LET left == [c \in DOMAIN s.callers |->
                 s.callers[c] - Cardinality({g \in gone : s.records[g].caller = c})]
  IN  RestrictValues(left, LAMBDA n : n > 0)

putLocked_leaksCount(s, g, r) ==
  [s EXCEPT !.records = Put(@, g, r), !.callers = Put(@, r.caller, Held(@, r.caller) + 1)]
putLocked(s, g, r) ==
  LET released == releaseLocked(s, {g} \cap DOMAIN s.records)
  IN  [s EXCEPT !.records = Put(@, g, r),
                !.callers = Put(released, r.caller, Held(released, r.caller) + 1)]

\* dropLocked, over a set of records.
dropLocked(s, gone) ==
  [s EXCEPT !.records = Without(@, gone), !.callers = releaseLocked(s, gone)]

pruneLocked_keepsRecords(s, t) ==
  [s EXCEPT !.revocations = RestrictDomain(@, LAMBDA o : s.revocations[o].expiresAt > t)]
pruneLocked(s, t) ==
  LET stale == {g \in DOMAIN s.records : s.records[g].lastSeen + lastSeenTTL < t}
  IN  [dropLocked(s, stale) EXCEPT
         !.revocations = RestrictDomain(@, LAMBDA o : s.revocations[o].expiresAt > t)]

(***************************************************************************)
(* makeRoomLocked: the tables in which a caller has a slot for a new       *)
(* record; none when it is refused.  Rank 0 is an offline record, rank 1   *)
(* one of another caller past its share; map order breaks a tie.           *)
(***************************************************************************)
Rank_atShare(s, t, caller, g) ==
  IF s.records[g].expiresAt <= t THEN 0
  ELSE IF /\ s.records[g].caller # caller
          /\ Held(s.callers, s.records[g].caller) >= maxRecordsPerCaller THEN 1 ELSE 2
Rank(s, t, caller, g) ==
  IF s.records[g].expiresAt <= t THEN 0
  ELSE IF /\ s.records[g].caller # caller
          /\ Held(s.callers, s.records[g].caller) > maxRecordsPerCaller THEN 1 ELSE 2

Weaker(s, t, caller, g, h) ==
  \/ Rank(s, t, caller, g) < Rank(s, t, caller, h)
  \/ /\ Rank(s, t, caller, g) = Rank(s, t, caller, h)
     /\ s.records[g].lastSeen < s.records[h].lastSeen

Victims(s, t, caller) ==
  {g \in DOMAIN s.records :
     /\ Rank(s, t, caller, g) < 2
     /\ \A h \in DOMAIN s.records : ~Weaker(s, t, caller, h, g)}

makeRoomLocked_overfull(s, t, caller) ==
  IF Cardinality(DOMAIN s.records) <= maxRecords THEN {s}
  ELSE {dropLocked(s, {g}) : g \in Victims(s, t, caller)}
makeRoomLocked(s, t, caller) ==
  IF Cardinality(DOMAIN s.records) < maxRecords THEN {s}
  ELSE IF Held(s.callers, caller) >= maxRecordsPerCaller THEN {}
  ELSE {dropLocked(s, {g}) : g \in Victims(s, t, caller)}

\* A lease that is over, or longer than a lease may be, changes nothing.
LeaseValid(lease, t) == lease.expiresAt > t /\ lease.expiresAt <= t + Lease

\* HeartbeatWithGrant, from the lock on: the tables it may leave.  The
\* revocation it outdates is gone even when the table then refuses it.
storeLease(s, lease, caller, t) ==
  LET pruned == pruneLocked(s, t)
      owner == OwnerOf[lease.grant]
      revoked == owner \in DOMAIN pruned.revocations
      cleared == [pruned EXCEPT !.revocations = Without(@, {owner})]
      rooms == IF lease.grant \in DOMAIN cleared.records THEN {cleared}
               ELSE makeRoomLocked(cleared, t, caller)
      record == [caller |-> caller, lastSeen |-> t, updatedAt |-> lease.updatedAt,
                 expiresAt |-> lease.expiresAt]
  IN  IF revoked /\ lease.updatedAt <= pruned.revocations[owner].updatedAt THEN {pruned}
      ELSE IF rooms = {} THEN {cleared}
      ELSE {putLocked(room, lease.grant, record) : room \in rooms}

storeRevocationLocked(s, owner, revocation) ==
  IF owner \notin DOMAIN s.revocations /\ Cardinality(DOMAIN s.revocations) >= maxRecords
  THEN s
  ELSE [s EXCEPT !.revocations = Put(@, owner, revocation)]

Owned(s, owner) == {g \in DOMAIN s.records : OwnerOf[g] = owner}

importRevocation_keepsLeases(s, owner, value, t) ==
  [s EXCEPT !.revocations = Put(@, owner, value)]
importRevocation(s, owner, value, t) ==
  LET known == owner \in DOMAIN s.revocations
      stored == [s EXCEPT !.revocations = Put(@, owner, value)]
      outdated == {g \in Owned(s, owner) : s.records[g].updatedAt <= value.updatedAt}
  IN  IF \/ value.expiresAt <= t
         \/ known /\ value.updatedAt <= s.revocations[owner].updatedAt
         \/ ~known /\ Cardinality(DOMAIN s.revocations) >= maxRecords
      THEN s
      ELSE dropLocked(stored, outdated)

-----------------------------------------------------------------------------
Becomes(s) == records' = s.records /\ callers' = s.callers /\ revocations' = s.revocations

OnWire(w) == Cardinality(w.leases) + Cardinality(w.revocations) <= MaxWire

Readings == {t \in 1..now : now <= t + MaxLag}

Init ==
  /\ records = EmptyMap /\ callers = EmptyMap /\ revocations = EmptyMap
  /\ wire = [leases |-> {}, revocations |-> {}]
  /\ now = 1

\* A client dates its lease itself; one that names no time gets the relay's.
Heartbeat(g, caller, t, updatedAt, expiresAt) ==
  LET lease == [grant |-> g, updatedAt |-> updatedAt, expiresAt |-> expiresAt]
  IN  /\ now <= LastHeartbeat
      /\ LeaseValid(lease, t)
      /\ \E s \in storeLease(table, lease, caller, t) : Becomes(s)
      /\ UNCHANGED <<wire, now>>

Import(lease, t) ==
  /\ LeaseValid(lease, t)
  /\ \E s \in storeLease(table, lease, Nobody, t) : Becomes(s)
  /\ UNCHANGED <<wire, now>>

Revoke(owner) ==
  LET dropped == dropLocked(table, Owned(table, owner))
  IN  /\ now <= LastHeartbeat
      /\ Becomes(storeRevocationLocked(dropped, owner,
                   [updatedAt |-> now, expiresAt |-> now + lastSeenTTL]))
      /\ UNCHANGED <<wire, now>>

ImportRevocations(value) ==
  /\ Becomes(importRevocation(table, value.owner,
               [updatedAt |-> value.updatedAt, expiresAt |-> value.expiresAt], now))
  /\ UNCHANGED <<wire, now>>

\* Query, Count, the ticker's Prune: expired entries go.
Prune(t) == Becomes(pruneLocked(table, t)) /\ UNCHANGED <<wire, now>>

\* GET /mesh/snapshot: another relay pulls the leases, then the revocations.
Snapshot(t) ==
  LET s == pruneLocked(table, t)
  IN  /\ Becomes(s)
      /\ wire' = [wire EXCEPT !.leases = @ \cup
                    {[grant |-> g, updatedAt |-> s.records[g].updatedAt,
                      expiresAt |-> s.records[g].expiresAt] : g \in DOMAIN s.records}]
      /\ OnWire(wire')
      /\ UNCHANGED now

Revocations(t) ==
  LET s == pruneLocked(table, t)
  IN  /\ Becomes(s)
      /\ wire' = [wire EXCEPT !.revocations = @ \cup
                    {[owner |-> o, updatedAt |-> s.revocations[o].updatedAt,
                      expiresAt |-> s.revocations[o].expiresAt] : o \in DOMAIN s.revocations}]
      /\ OnWire(wire')
      /\ UNCHANGED now

\* A client talks to another relay of the pool.
Elsewhere(g) ==
  /\ now <= LastHeartbeat
  /\ \/ wire' = [wire EXCEPT !.leases = @ \cup
                   {[grant |-> g, updatedAt |-> now, expiresAt |-> now + Lease]}]
     \/ wire' = [wire EXCEPT !.revocations = @ \cup
                   {[owner |-> OwnerOf[g], updatedAt |-> now, expiresAt |-> now + lastSeenTTL]}]
  /\ OnWire(wire')
  /\ UNCHANGED <<records, callers, revocations, now>>

Tick ==
  /\ now < Horizon
  /\ now' = now + 1
  /\ UNCHANGED <<records, callers, revocations, wire>>

Next ==
  \/ \E t \in Readings :
       \/ \E g \in Grants, c \in Callers, u \in Dates \cup {t}, x \in {t + 1, t + Lease} :
            Heartbeat(g, c, t, u, x)
       \/ \E lease \in wire.leases : Import(lease, t)
       \/ Prune(t) \/ Snapshot(t) \/ Revocations(t)
  \/ \E g \in Grants : Revoke(OwnerOf[g]) \/ Elsewhere(g)
  \/ \E value \in wire.revocations : ImportRevocations(value)
  \/ Tick

Spec == Init /\ [][Next]_vars

\* Time passes, and the cleanup ticker prunes at every CleanupInterval.
FairSpec == Spec /\ WF_vars(Tick) /\ WF_vars(Prune(now))

-----------------------------------------------------------------------------
(***************************************************************************)
(* Properties.                                                             *)
(***************************************************************************)
\* The table holds what its fields are declared for; neither it nor the
\* tombstones outgrow what the relay's memory ceiling is sized for.
TypeOK ==
  /\ DOMAIN records \subseteq Grants
  /\ \A g \in DOMAIN records :
       /\ records[g].caller \in Callers
       /\ records[g].lastSeen \in 1..now
       /\ records[g].expiresAt > records[g].lastSeen
  /\ DOMAIN callers \subseteq Callers
  /\ DOMAIN revocations \subseteq {OwnerOf[g] : g \in Grants}
  /\ Cardinality(DOMAIN records) <= maxRecords
  /\ Cardinality(DOMAIN revocations) <= maxRecords
  /\ now \in 1..Horizon

(***************************************************************************)
(* The caller counts are exactly the records charged to each caller, and   *)
(* none outlives its records: overwritten, evicted, revoked or pruned; and *)
(* neither the table nor the tombstones outgrow their ceiling.             *)
(***************************************************************************)
CallersAgree ==
  /\ TypeOK
  /\ DOMAIN callers = {records[g].caller : g \in DOMAIN records}
  /\ \A c \in DOMAIN callers :
       callers[c] = Cardinality({g \in DOMAIN records : records[g].caller = c})

(***************************************************************************)
(* A revocation the relay holds outranks every lease it outdates, whatever *)
(* order heartbeats, replicated leases and revocations arrive in.          *)
(***************************************************************************)
RevokedStayOut ==
  \A g \in DOMAIN records :
    OwnerOf[g] \in DOMAIN revocations =>
      records[g].updatedAt > revocations[OwnerOf[g]].updatedAt

(***************************************************************************)
(* A full table takes a slot only from a weaker claim: a lease that leaves *)
(* the table is over, revoked, or charged to a caller past its share.      *)
(***************************************************************************)
LiveLeaseKept ==
  [][\A g \in DOMAIN records \ DOMAIN records' :
       \/ records[g].expiresAt <= now
       \/ OwnerOf[g] \in DOMAIN revocations'
       \/ DOMAIN records' = DOMAIN records \ Owned(table, OwnerOf[g])
       \/ callers[records[g].caller] > maxRecordsPerCaller]_vars

\* Every record and every tombstone leaves once heartbeats stop.
PresenceLapses == <>[](records = EmptyMap /\ revocations = EmptyMap /\ callers = EmptyMap)
=============================================================================
