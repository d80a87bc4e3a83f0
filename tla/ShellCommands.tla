--------------------------- MODULE ShellCommands ---------------------------
(***************************************************************************)
(* The command table.  input: there is something to check, and the command *)
(* fails before it talks to the tuner if the check does; reset: it drives  *)
(* the reset line; exchanges: how often it talks to the tuner; returns: it *)
(* returns the error of a failed exchange.                                 *)
(***************************************************************************)
Plain == [input |-> FALSE, reset |-> FALSE, exchanges |-> 1, returns |-> TRUE]
WithInput == [Plain EXCEPT !.input = TRUE]
Silent == [Plain EXCEPT !.returns = FALSE]
Resetting(checks, n) ==
  [input |-> checks, reset |-> TRUE, exchanges |-> n, returns |-> TRUE]

\* The exchanges of a start: FirmwareLoad goes through all of them.
start_tuner == Resetting(TRUE, 2)
stop_tuner  == Resetting(FALSE, 0)

dab_tune_frequency           == [Silent EXCEPT !.input = TRUE]
dab_digrad_status            == Silent
dab_get_event_status         == [Silent EXCEPT !.exchanges = 2]
dab_get_ensamble_info        == Silent
dab_get_audio_info           == Silent
dab_get_digital_service_list == Plain
dab_start_digital_service    == WithInput
dab_get_time                 == Plain
dab_get_frequencies_list     == Plain
dab_set_frequencies_list     == Plain
fm_tune_frequency            == WithInput
fm_seek_start                == WithInput
fm_rsq_status                == Plain
fm_rds_status                == Plain
fm_rds_blockcount            == Plain
tuner_get_part_info          == Plain
tuner_get_property           == WithInput
tuner_set_property           == WithInput

\* By the names a user gives.
shell_commands == [
  start_tuner |-> start_tuner, stop_tuner |-> stop_tuner,
  get_property |-> tuner_get_property, set_property |-> tuner_set_property,
  get_part_info |-> tuner_get_part_info,
  dab_tune_frequency |-> dab_tune_frequency,
  dab_digrad_status |-> dab_digrad_status,
  dab_get_event_status |-> dab_get_event_status,
  dab_get_ensamble_info |-> dab_get_ensamble_info,
  dab_get_digital_service_list |-> dab_get_digital_service_list,
  dab_start_digital_service |-> dab_start_digital_service,
  dab_get_audio_info |-> dab_get_audio_info, dab_get_time |-> dab_get_time,
  dab_get_frequencies_list |-> dab_get_frequencies_list,
  dab_set_frequencies_list |-> dab_set_frequencies_list,
  fm_tune_frequency |-> fm_tune_frequency, fm_seek_start |-> fm_seek_start,
  fm_rsq_status |-> fm_rsq_status, fm_rds_status |-> fm_rds_status,
  fm_rds_blockcount |-> fm_rds_blockcount]

Known(c) == c \in DOMAIN shell_commands
=============================================================================
