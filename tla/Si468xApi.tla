----------------------------- MODULE Si468xApi -----------------------------
(***************************************************************************)
(* The functions of libsi468x that talk to the tuner, one definition each. *)
(* They are straight-line code of one form, send a command, wait for bits  *)
(* of status byte 0, read the reply, and differ in which of these steps    *)
(* they take and in which results they look at; a Shape records that.      *)
(***************************************************************************)
EXTENDS Naturals

(***************************************************************************)
(*   checkSend  a failed SPI write ends the call with the error            *)
(*   waitCts    the call polls for STATUS0_CTS                             *)
(*   waitStc    and after that for STATUS0_STCINT                          *)
(*   reads      how many times the reply is read                           *)
(*   checkRead  a failed SPI read of the reply ends the call with the error*)
(*   tunes      the command starts a tune or a seek                        *)
(*   ackStc     the command acknowledges STCINT                            *)
(*   checkMode  the call compares the power-up state in status byte 3      *)
(*   oom        what a failed malloc before the last read makes of the call*)
(***************************************************************************)
Shape == [checkSend : BOOLEAN, waitCts : BOOLEAN, waitStc : BOOLEAN,
          reads : 0 .. 2, checkRead : BOOLEAN,
          tunes : BOOLEAN, ackStc : BOOLEAN, checkMode : BOOLEAN,
          oom : {"none", "error", "ok"}]

\* si468x_send_command_wait_cts_read_reply, with a reply buffer iff n > 0.
Checked(n) == [checkSend |-> TRUE, waitCts |-> TRUE, waitStc |-> FALSE,
               reads |-> n, checkRead |-> TRUE,
               tunes |-> FALSE, ackStc |-> FALSE, checkMode |-> FALSE,
               oom |-> "none"]

\* The functions that drop the result of send_command and of read_reply.
Unchecked(n) == [Checked(n) EXCEPT !.checkSend = FALSE, !.checkRead = FALSE]

-----------------------------------------------------------------------------
(* si468x_common.c *)

powerup   == [Checked(0) EXCEPT !.checkMode = TRUE]
load_init == Checked(0)
host_load == Checked(0)      \* one pass of its loop
boot      == [Checked(0) EXCEPT !.checkMode = TRUE]

get_part_info == Unchecked(1)

\* Reads the reply at once: the only function that does not wait for CTS.
get_sys_state == [Unchecked(1) EXCEPT !.waitCts = FALSE, !.checkRead = TRUE]

get_property == Checked(1)
set_property == Checked(0)

-----------------------------------------------------------------------------
(* si468x_dab.c *)

\* Reads the length first, allocates, and then reads everything.
dab_get_freq_list == [Unchecked(2) EXCEPT !.oom = "error"]
dab_set_freq_list == Unchecked(0)

dab_tune_freq == [Unchecked(0) EXCEPT !.waitStc = TRUE, !.tunes = TRUE]

dab_digrad_status(stc_ack) == [Unchecked(1) EXCEPT !.ackStc = stc_ack]

dab_get_ensamble_info == Unchecked(1)
dab_get_time          == Unchecked(1)

\* Without memory it returns ret_val, which is the 0 of the wait before.
dab_get_digital_service_list == [Unchecked(1) EXCEPT !.oom = "ok"]

dab_start_digital_service == Checked(0)
dab_get_event_status      == Checked(1)
dab_get_audio_info        == Checked(1)

-----------------------------------------------------------------------------
(* si468x_fm.c *)

fm_tune_freq      == [Checked(0) EXCEPT !.tunes = TRUE]
fm_seek_start     == [Checked(0) EXCEPT !.tunes = TRUE]
fm_rsq_status     == Checked(1)
fm_rds_status     == Checked(1)
fm_rds_blockcount == Checked(1)

-----------------------------------------------------------------------------
Table == [
  powerup |-> powerup, load_init |-> load_init, host_load |-> host_load,
  boot |-> boot, get_part_info |-> get_part_info,
  get_sys_state |-> get_sys_state, get_property |-> get_property,
  set_property |-> set_property, dab_get_freq_list |-> dab_get_freq_list,
  dab_set_freq_list |-> dab_set_freq_list, dab_tune_freq |-> dab_tune_freq,
  dab_digrad_status |-> dab_digrad_status(TRUE),
  dab_get_ensamble_info |-> dab_get_ensamble_info,
  dab_get_time |-> dab_get_time,
  dab_get_digital_service_list |-> dab_get_digital_service_list,
  dab_start_digital_service |-> dab_start_digital_service,
  dab_get_event_status |-> dab_get_event_status,
  dab_get_audio_info |-> dab_get_audio_info,
  fm_tune_freq |-> fm_tune_freq, fm_seek_start |-> fm_seek_start,
  fm_rsq_status |-> fm_rsq_status, fm_rds_status |-> fm_rds_status,
  fm_rds_blockcount |-> fm_rds_blockcount]
=============================================================================
