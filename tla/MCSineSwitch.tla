---------------------------- MODULE MCSineSwitch ----------------------------
(* Instances of SineSwitch for TLC. *)
EXTENDS SineSwitch
=============================================================================
