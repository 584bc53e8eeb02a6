---------------------------- MODULE MCQueueStore ----------------------------
(***************************************************************************)
(* Small instances of QueueStore.  m1 and m2 share a lane and an owner; m3 *)
(* carries no purge hash.                                                  *)
(***************************************************************************)
EXTENDS QueueMailbox

mcEnvelope(sender, hash) ==
  [sender |-> sender, recipient |-> "bob", purgeHash |-> hash, form |-> "ok"]

mcEnvelopes == [m1 |-> mcEnvelope("alice", "hashA"),
                m2 |-> mcEnvelope("alice", "hashA"),
                m3 |-> mcEnvelope("carol", None)]

mcAck(m, type) == [messageID |-> m, type |-> type]

mcAcks == [n1 |-> mcAck("m1", "node_received"),
           n2 |-> mcAck("m2", "node_received"),
           n3 |-> mcAck("m3", "node_received"),
           d1 |-> mcAck("m1", "recipient_device_received"),
           r1 |-> mcAck("m1", "recipient_read"),
           x1 |-> mcAck("m1", "unknown")]

mcCoupled == [m1 |-> "n1", m2 |-> "n2", m3 |-> "n3"]

mcEnvelopeOf == [m \in MessageIDs |-> mcEnvelopes[m]]
mcAckOf == [a \in AckIDs |-> mcAcks[a]]
mcNodeReceived == [m \in MessageIDs |-> mcCoupled[m]]

\* Every message arrives with bob's tag; or m1's id comes with another one, or none.
mcOneTag == [m \in MessageIDs |-> {"tagB"}]
mcReused == [m \in MessageIDs |-> IF m = "m1" THEN {None, "tagB", "tagC"} ELSE {"tagB"}]

\* The free caller, and a circle with one slot and a retention of one tick.
mcFree == [slots |-> 0, maxPerPair |-> 0, retention |-> 0]
mcTermsOf == [c \in Callers |->
                IF c = NoCredential THEN mcFree
                ELSE [slots |-> 1, maxPerPair |-> 5, retention |-> 1]]
=============================================================================
