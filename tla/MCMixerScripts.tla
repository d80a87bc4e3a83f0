--------------------------- MODULE MCMixerScripts ---------------------------
(* Instances of MixerScripts for TLC. *)
EXTENDS MixerScripts
=============================================================================
