--------------------------- MODULE MCNetworkMonitor ---------------------------
(* Three connections that differ in their first or in their last field only. *)
EXTENDS NetworkMonitor

MCConnections == {<<1, 1, 1, 1, 1>>, <<1, 1, 1, 1, 2>>, <<2, 1, 1, 1, 1>>}
=============================================================================
