------------------------------ MODULE PeerPool ------------------------------
(***************************************************************************)
(* The pool roster (internal/peer/pool.go): what a relay records of its    *)
(* pulls from each configured peer and publishes on /health, and the url   *)
(* it publishes for itself on /nodes (selfurl.go), for one run of the      *)
(* process.                                                                *)
(*                                                                         *)
(* A peer answers a pull when it is in `up`; what a pull imports is the    *)
(* subject of Mesh.  Ages are taken from the wall clock, since UTC() drops *)
(* the monotonic reading, and the wall clock may be set back; the recheck  *)
(* of the own address is timed by the monotonic one, of which only "not    *)
(* yet" and "due" are told apart.  A url is the address it is built on:    *)
(* scheme, port and path carry over.                                       *)
(*                                                                         *)
(* An operator named op_fault is op with one plausible mistake; no other   *)
(* definition uses it.                                                     *)
(***************************************************************************)
EXTENDS Slices

CONSTANTS
  PeerURLs,         \* DEE_NODE_MESH_PEERS as configured, "" and repeats included
  V4, V6,           \* addresses a peer can route to, by family
  Other,            \* link-local and loopback addresses, and names
  Hosts,            \* sequences of addresses the interfaces may hold
  RecheckInterval,
  MaxElapsed,       \* bound: how far ages are followed
  MaxBack           \* bound: how far the wall clock is set back

ASSUME PeerPoolConstants ==
  /\ PeerURLs \in Seq(STRING)
  /\ Hosts \subseteq Seq(V4 \cup V6 \cup Other)
  /\ V4 \cap V6 = {} /\ Other \cap (V4 \cup V6) = {}
  /\ RecheckInterval \in Nat \ {0}
  /\ MaxElapsed \in Nat /\ MaxBack \in Nat

VARIABLES
  status,   \* url -> [LastSuccessAt, failing]
  turn,     \* position in Targets of the peer SyncAll pulls from next
  up,       \* peers that answer
  elapsed,  \* time since boot
  back,     \* how much of it the wall clock was set back by
  truth,    \* url -> when its last good pull really was, and if it was its last
  host,     \* addresses of the interfaces that are up, in order
  self      \* [tracking, current, wait]: selfAddress; wait counts down to the recheck

poolVars == <<status, turn, up, elapsed, back, truth, host, self>>

-----------------------------------------------------------------------------
Never == -1

\* The wall clock; it starts far enough from zero to be set back.
Now == elapsed + MaxBack - back

\* NewPool keeps the first of each url, in order.
Targets ==
  Picked(PeerURLs, {i \in DOMAIN PeerURLs :
                      /\ PeerURLs[i] # ""
                      /\ \A j \in 1..(i - 1) : PeerURLs[j] # PeerURLs[i]})
Peers == ToSet(Targets)

RecordSuccess(url, now) ==
  [status EXCEPT ![url] = [LastSuccessAt |-> now, failing |-> FALSE]]

\* Of the count of failures only zero is ever read.
RecordFailure_forgets(url) == status
RecordFailure(url) == [status EXCEPT ![url].failing = TRUE]

-----------------------------------------------------------------------------
(***************************************************************************)
(* Health.  The loop ends at the first peer that never synced.             *)
(***************************************************************************)
Age_signed(url, now) == now - status[url].LastSuccessAt
Age(url, now) ==
  LET age == now - status[url].LastSuccessAt IN IF age < 0 THEN 0 ELSE age

Synced(url) == status[url].LastSuccessAt # Never

\* Positions in Targets.
Visited == {i \in DOMAIN Targets : \A j \in 1..(i - 1) : Synced(Targets[j])}

Reachable ==
  Cardinality({i \in Visited : Synced(Targets[i]) /\ ~status[Targets[i]].failing})

OldestSyncAge(now) ==
  IF Peers = {} \/ \E i \in Visited : ~Synced(Targets[i]) THEN -1
  ELSE CHOOSE age \in {Age(url, now) : url \in Peers} :
         \A other \in Peers : Age(other, now) <= age

-----------------------------------------------------------------------------
(***************************************************************************)
(* SyncAll pulls from the targets in turn; the ticker starts it again.     *)
(***************************************************************************)
SyncNext ==
  LET url == Targets[turn]
      good == url \in up
  IN  /\ Targets # <<>>
      /\ status' = IF good THEN RecordSuccess(url, Now) ELSE RecordFailure(url)
      /\ truth' = [truth EXCEPT ![url] = [at |-> IF good THEN elapsed ELSE @.at, good |-> good]]
      /\ turn' = IF turn = Len(Targets) THEN 1 ELSE turn + 1
      /\ UNCHANGED <<up, elapsed, back, host, self>>

Flip(url) ==
  /\ up' = IF url \in up THEN up \ {url} ELSE up \cup {url}
  /\ UNCHANGED <<status, turn, elapsed, back, truth, host, self>>

WallTick ==
  /\ elapsed < MaxElapsed
  /\ elapsed' = elapsed + 1
  /\ UNCHANGED <<status, turn, up, back, truth, host, self>>

SetBack ==
  /\ back < MaxBack
  /\ back' = back + 1
  /\ UNCHANGED <<status, turn, up, elapsed, truth, host, self>>

-----------------------------------------------------------------------------
(***************************************************************************)
(* The advertised address.                                                 *)
(***************************************************************************)
usableHostIP(a) == a \in V4 \cup V6
hostAddresses(interfaces) == SelectSeq(interfaces, usableHostIP)

\* latch: re-derived only if it is a literal this machine holds at boot.
latch(configured, addresses) ==
  [tracking |-> usableHostIP(configured) /\ configured \in Range(addresses),
   current |-> configured, wait |-> 0]

SameFamily(a, b) == (a \in V4) = (b \in V4)

pickHostIP(addresses, previous) ==
  LET same == SelectSeq(addresses, LAMBDA a : SameFamily(a, previous))
  IN  IF same # <<>> THEN Head(same) ELSE Head(addresses)

\* resolve, for a tracked address whose check is due.
Rederived_keeps(addresses) == self.current
Rederived(addresses) ==
  IF addresses = <<>> \/ self.current \in Range(addresses) THEN self.current
  ELSE pickHostIP(addresses, self.current)

\* GET /nodes, or the cleanup ticker.
Resolve ==
  /\ self.tracking /\ self.wait = 0
  /\ self' = [self EXCEPT !.current = Rederived(hostAddresses(host)), !.wait = RecheckInterval]
  /\ UNCHANGED <<status, turn, up, elapsed, back, truth, host>>

\* The monotonic clock moves on.
Elapse ==
  /\ self.wait > 0
  /\ self' = [self EXCEPT !.wait = @ - 1]
  /\ UNCHANGED <<status, turn, up, elapsed, back, truth, host>>

Move(interfaces) ==
  /\ host' = interfaces
  /\ UNCHANGED <<status, turn, up, elapsed, back, truth, self>>

-----------------------------------------------------------------------------
PoolInit ==
  /\ status = [url \in Peers |-> [LastSuccessAt |-> Never, failing |-> FALSE]]
  /\ truth = [url \in Peers |-> [at |-> Never, good |-> FALSE]]
  /\ turn = 1
  /\ up \in SUBSET Peers
  /\ elapsed = 0 /\ back = 0
  /\ host \in Hosts
  /\ self \in {latch(configured, hostAddresses(host)) : configured \in V4 \cup V6 \cup Other}

PoolNext ==
  \/ SyncNext
  \/ \E url \in Peers : Flip(url)
  \/ WallTick \/ SetBack
  \/ Resolve \/ Elapse
  \/ \E interfaces \in Hosts : Move(interfaces)

PoolSpec == PoolInit /\ [][PoolNext]_poolVars

\* The sync ticker and the cleanup ticker keep firing, and time passes for them.
PoolFairSpec == PoolSpec /\ WF_poolVars(SyncNext) /\ WF_poolVars(Resolve) /\ WF_poolVars(Elapse)

-----------------------------------------------------------------------------
(***************************************************************************)
(* Properties.                                                             *)
(***************************************************************************)
(***************************************************************************)
(* /health does not flatter, whatever the order of pulls, outages and      *)
(* clock changes: -1 exactly while some peer was never pulled from, and    *)
(* otherwise an age no younger than the real one of any peer, but for what *)
(* the clock was set back; never more peers reachable than answered last   *)
(* time, and exactly those once every peer has answered once.              *)
(***************************************************************************)
HealthHonest ==
  LET answered == {url \in Peers : truth[url].good}
      never == {url \in Peers : truth[url].at = Never}
  IN  Peers # {} =>
        /\ (OldestSyncAge(Now) = -1) = (never # {})
        /\ never = {} => \A url \in Peers : OldestSyncAge(Now) + back >= elapsed - truth[url].at
        /\ Reachable <= Cardinality(answered)
        /\ never = {} => Reachable = Cardinality(answered)

(***************************************************************************)
(* Monitoring that polls /health notices a peer that stays away, also one  *)
(* that never answered and one hidden behind it: Reachable falls short of  *)
(* the number of peers for good.  When all of them are back it comes to    *)
(* equal that number, and the age is one again.  In between, which peers   *)
(* it counts is not claimed.                                               *)
(***************************************************************************)
OutageShows ==
  \A url \in Peers :
    /\ <>[](url \notin up) => <>[](Reachable < Cardinality(Peers))
    /\ <>[](up = Peers) => <>[](Reachable = Cardinality(Peers) /\ OldestSyncAge(Now) # -1)

(***************************************************************************)
(* A machine that moved to another network comes to advertise an address   *)
(* it holds, through any number of moves and spells without a network,     *)
(* if it held the configured one at boot; any other url is published as    *)
(* configured for good.                                                    *)
(***************************************************************************)
AddressFollows ==
  /\ \A interfaces \in Hosts :
       hostAddresses(interfaces) # <<>> =>
         (<>[](self.tracking /\ host = interfaces) => <>[](self.current \in Range(interfaces)))
  /\ [][~self.tracking => self'.current = self.current]_poolVars
=============================================================================
