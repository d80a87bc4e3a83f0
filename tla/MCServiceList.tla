--------------------------- MODULE MCServiceList ---------------------------
(* Instances of ServiceList for TLC. *)
EXTENDS ServiceList
=============================================================================
