------------------------------- MODULE MCMesh -------------------------------
(***************************************************************************)
(* Two relays.  Every message is of one lane, and m1 has an owner's purge  *)
(* hash.                                                                   *)
(***************************************************************************)
EXTENDS Mesh

mcEnvelope(hash) == [sender |-> "alice", recipient |-> "bob",
                     purgeHash |-> hash, form |-> "ok"]
mcEnvelopes == [m1 |-> mcEnvelope("hashA"), m2 |-> mcEnvelope(None)]
mcEnvelopeOf == [m \in MessageIDs |-> mcEnvelopes[m]]

mcAcks == [n1 |-> [messageID |-> "m1", type |-> "node_received"],
           n2 |-> [messageID |-> "m2", type |-> "node_received"],
           r1 |-> [messageID |-> "m1", type |-> "recipient_read"],
           r2 |-> [messageID |-> "m2", type |-> "rejected"]]
mcAckOf == [a \in AckIDs |-> mcAcks[a]]

mcCoupled == [m1 |-> "n1", m2 |-> "n2"]
mcNodeReceived == [m \in MessageIDs |-> mcCoupled[m]]

\* West pulls from east.
mcOneWay == [r \in Relays |-> IF r = "west" THEN {"east"} ELSE {}]

mcTermsOf == [c \in Callers |-> [slots |-> 0, maxPerPair |-> 0, retention |-> 0]]
=============================================================================
