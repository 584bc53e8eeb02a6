---------------------------- MODULE MCPrekeyStore ----------------------------
(***************************************************************************)
(* Small instances of PrekeyStore: an owner's batch, a batch that repeats  *)
(* an id and carries an incomplete entry, and a rotation of the last       *)
(* resort.                                                                 *)
(***************************************************************************)
EXTENDS PrekeyStore

mcPublications ==
  {[entries |-> <<"a", "b">>, lastResort |-> FALSE],
   [entries |-> <<Incomplete, "a", "a">>, lastResort |-> FALSE],
   [entries |-> <<>>, lastResort |-> TRUE]}
=============================================================================
