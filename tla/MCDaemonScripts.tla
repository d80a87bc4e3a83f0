--------------------------- MODULE MCDaemonScripts --------------------------
(* Instances of DaemonScripts for TLC. *)
EXTENDS DaemonScripts
=============================================================================
