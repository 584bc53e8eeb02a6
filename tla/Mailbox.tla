------------------------------ MODULE Mailbox -------------------------------
(***************************************************************************)
(* What a relay's queue promises to the people whose mail it holds, with   *)
(* none of its counters, indexes, quotas, lanes or ack records: a message  *)
(* gets one deadline when it is accepted and keeps it, and it leaves in    *)
(* one of three ways only: at its deadline, when somebody settles it (a    *)
(* terminal ack), or when its owner purges, which takes all of that        *)
(* owner's mail and nobody else's.  While an owner's tombstone stands, no  *)
(* mail of that owner is accepted.                                         *)
(***************************************************************************)
EXTENDS Integers

CONSTANTS
  Messages,
  Owners,
  OwnerOf,   \* message -> its owner, or none of them
  MaxTTL,    \* the longest a message may be kept
  MaxLag     \* how late a deadline, once computed, may come into force

VARIABLES
  mail,      \* message -> deadline, for the messages held
  settled,   \* messages known to be settled
  graves,    \* owner -> until when its tombstone stands
  now

vars == <<mail, settled, graves, now>>

Held == DOMAIN mail
Of(owner) == {m \in Held : OwnerOf[m] = owner}
Only(map, keys) == [k \in keys |-> map[k]]

\* Moments an operation that takes effect now may have been called at.
CalledAt == {t \in 1..now : now <= t + MaxLag}

Buried(m) == OwnerOf[m] \in DOMAIN graves /\ graves[OwnerOf[m]] > now

-----------------------------------------------------------------------------
Init ==
  /\ mail = [m \in {} |-> 0] /\ graves = [owner \in {} |-> 0]
  /\ settled = {}
  /\ now = 1

Accept(m) ==
  /\ m \notin Held
  /\ ~Buried(m)
  /\ \E t \in CalledAt : \E deadline \in (t + 1)..(t + MaxTTL) :
       mail' = [x \in Held \cup {m} |-> IF x = m THEN deadline ELSE mail[x]]
  /\ UNCHANGED <<settled, graves, now>>

Settle(m) ==
  /\ settled' = settled \cup {m}
  /\ mail' = Only(mail, Held \ {m})
  /\ UNCHANGED <<graves, now>>

\* What is past its deadline goes; so may the memory of what was settled.
Sweep ==
  /\ \E t \in CalledAt :
       /\ mail' \in {mail, Only(mail, {m \in Held : mail[m] > t})}
       /\ graves' \in {graves, Only(graves, {owner \in DOMAIN graves : graves[owner] > t})}
  /\ settled' \subseteq settled
  /\ UNCHANGED now

\* The owner's mail goes, with or without room for a tombstone.
Purge(owner) ==
  /\ mail' = Only(mail, Held \ Of(owner))
  /\ settled' = settled \ Of(owner)
  /\ \/ UNCHANGED graves
     \/ /\ DOMAIN graves' = DOMAIN graves \cup {owner}
        /\ Only(graves', DOMAIN graves \ {owner}) = Only(graves, DOMAIN graves \ {owner})
  /\ UNCHANGED now

Tick ==
  /\ now' = now + 1
  /\ UNCHANGED <<mail, settled, graves>>

Next ==
  \/ \E m \in Messages : Accept(m) \/ Settle(m)
  \/ \E owner \in Owners : Purge(owner)
  \/ Sweep
  \/ Tick

Spec == Init /\ [][Next]_vars
=============================================================================
