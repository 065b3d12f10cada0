---------------------------- MODULE MCClusterMap ----------------------------
(* Four items, so that an orphan has items before it and after it.           *)
EXTENDS ClusterMap
=============================================================================
