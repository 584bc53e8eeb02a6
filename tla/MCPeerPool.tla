----------------------------- MODULE MCPeerPool -----------------------------
(***************************************************************************)
(* Two peers, one of them configured twice, and a machine that roams.      *)
(***************************************************************************)
EXTENDS PeerPool

mcPeerURLs == <<"east", "", "west", "east">>

\* Asleep, without a lease, at home, on a network with both families or IPv6 alone.
mcHosts == {<<>>, <<"local">>, <<"local", "home">>, <<"six", "cafe">>, <<"six">>}
=============================================================================
