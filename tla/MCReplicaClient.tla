-------------------------- MODULE MCReplicaClient --------------------------
(* A replica with the default heartbeat interval and timeout.              *)
EXTENDS ReplicaClient
=============================================================================
