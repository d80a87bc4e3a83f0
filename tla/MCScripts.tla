----------------------------- MODULE MCScripts ------------------------------
(* Instances of ShellScripts for TLC. *)
EXTENDS ShellScripts
=============================================================================
