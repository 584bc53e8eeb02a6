---------------------------- MODULE MCPresence ----------------------------
(***************************************************************************)
(* Small instances of Presence: a profile that rotated its grant hash, and *)
(* another that wants a slot of a table that is soon full.                 *)
(***************************************************************************)
EXTENDS Presence

mcOwnerOf == [g1 |-> "alice", g2 |-> "alice", g3 |-> "bob"]
mcGrants == DOMAIN mcOwnerOf
=============================================================================
