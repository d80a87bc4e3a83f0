----------------------------- MODULE MCDabonCli -----------------------------
(* Instances of DabonCli for TLC. *)
EXTENDS DabonCli

\* With input and without, with and without reset, with zero, one and two
\* exchanges, with errors returned and dropped; and one dabon-cli has not.
MCCommand == {"start_tuner", "stop_tuner", "get_part_info",
              "dab_get_event_status", "help"}
=============================================================================
