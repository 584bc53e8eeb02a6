---------------------------- MODULE QueueMailbox ----------------------------
(***************************************************************************)
(* The queue implements Mailbox.  The mail is the message map, a message   *)
(* is settled while an ack that ends it is held, and the graves are the    *)
(* tombstones; everything else in the store is there to get this right.    *)
(***************************************************************************)
EXTENDS QueueStore

Mail == INSTANCE Mailbox WITH
  Messages <- MessageIDs,
  Owners <- PurgeHashes,
  OwnerOf <- [m \in MessageIDs |-> purgeKey(m)],
  mail <- store.messages,
  settled <- {m \in MessageIDs : hasTerminalAck(store, m)},
  graves <- store.purges

(***************************************************************************)
(* Every step of the relay is a step of the mailbox, or changes nothing in *)
(* it: no run of calls, imports and sweeps loses a message silently, moves *)
(* a deadline, or takes in mail of an owner whose tombstone stands, and a  *)
(* purge, which works through an index, takes exactly the owner's mail.    *)
(***************************************************************************)
ImplementsMailbox == Mail!Spec
=============================================================================
