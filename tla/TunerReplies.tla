---------------------------- MODULE TunerReplies ----------------------------
(***************************************************************************)
(* The way of a reply from the tuner to the screen: the bytes are read     *)
(* into a buffer on the stack, the library decodes them into a structure   *)
(* on the stack of the command, and the command prints some of its fields. *)
(* None of the three is cleared before.  A bit is known here by where it   *)
(* comes from, not by its value.  The tuner may still be executing a       *)
(* command that an earlier caller gave up on, and a wait may end on a      *)
(* status that no poll has read: Si468xLink has every step of an exchange, *)
(* here are its outcomes.                                                  *)
(***************************************************************************)
EXTENDS Naturals, FiniteSets

CONSTANT MaxFaults \* bound on the calls of the bus that fail, a natural

\* Bits lo to hi, counted from byte b of the reply; whole bytes.
Bits(b, lo, hi) == (8 * b) + lo .. (8 * b) + hi
Bit(b, i) == Bits(b, i, i)
Octets(b, n) == Bits(b, 0, (8 * n) - 1)

(* The structures of si468x_dab.h, si468x_fm.h and si468x.h: the width of   *)
(* each field.                                                             *)

DAB_digrad_status == [
  hardmuteint |-> 1, ficerrint |-> 1, acqint |-> 1, rssihint |-> 1,
  rssilint |-> 1, hardmute |-> 1, ficerr |-> 1, acq |-> 1, valid |-> 1,
  rssi |-> 8, snr |-> 8, fic_quality |-> 8, cnr |-> 8, FIB_error_count |-> 16,
  tune_freq |-> 32, tune_index |-> 8, tune_offet |-> 8, fft_offset |-> 8,
  readantcap |-> 16, culevel |-> 16, fastdect |-> 8]

\* label has 18 characters, the last two of which are fields of their own.
DAB_ensamble_info == [
  eid |-> 16, label |-> 128, label_16 |-> 8, label_17 |-> 8,
  ensamble_ecc |-> 8, char_abbrev |-> 16]

DAB_event_status == [
  recfgint |-> 1, recfgwrnint |-> 1, annoint |-> 1, freqinfoint |-> 1,
  svrlistint |-> 1, freq_info |-> 1, svrlist |-> 1, svrlistver |-> 16]

DAB_time == [
  year |-> 16, month |-> 8, day |-> 8, hours |-> 8, minutes |-> 8,
  seconds |-> 8]

\* mode is an enum of four values.
DAB_audio_info == [
  bit_rate |-> 16, sample_rate |-> 16, mode |-> 2, drc_gain |-> 8]

FM_rsq_status == [
  snrhint |-> 1, snrlint |-> 1, rssihint |-> 1, rssilint |-> 1, bltf |-> 1,
  hddetected |-> 1, flt_hd_detected |-> 1, afcrl |-> 1, valid |-> 1,
  read_freq |-> 16, freq_off |-> 8, rssi |-> 8, snr |-> 8, mult |-> 8,
  readantcap |-> 16, hdlevel |-> 8, filtered_hdlevel |-> 8]

FM_rds_status == [
  rdstpptyint |-> 1, rdspiint |-> 1, rdssyncint |-> 1, rdsfifoint |-> 1,
  tpptyvalid |-> 1, pivalid |-> 1, rdssync |-> 1, rdsfifolost |-> 1,
  tp |-> 1, pty |-> 5, pi |-> 16, rdsfifoused |-> 8, blea |-> 2, bleb |-> 2,
  blec |-> 2, bled |-> 2, blocka |-> 16, blockb |-> 16, blockc |-> 16,
  blockd |-> 16]

FM_rds_blockcount == [expected |-> 16, received |-> 16, uncorrectable |-> 16]

info == [chiprev |-> 8, romid |-> 8, part |-> 16]

(* What the library assigns to the fields.                                 *)

\* A constant, not a bit of the reply.
Const == {}

digrad_status == [
  hardmuteint |-> Bit(0, 4), ficerrint |-> Bit(0, 3), acqint |-> Bit(0, 2),
  rssihint |-> Bit(0, 1), rssilint |-> Bit(0, 0), hardmute |-> Bit(1, 4),
  ficerr |-> Bit(1, 3), acq |-> Bit(1, 2), valid |-> Bit(1, 0),
  rssi |-> Octets(2, 1), snr |-> Octets(3, 1), fic_quality |-> Octets(4, 1),
  cnr |-> Octets(5, 1), FIB_error_count |-> Octets(6, 2),
  tune_freq |-> Octets(8, 4), tune_index |-> Octets(12, 1),
  fft_offset |-> Octets(13, 1), readantcap |-> Octets(14, 2),
  culevel |-> Octets(16, 2), fastdect |-> Octets(18, 1)]

ensamble_info == [
  eid |-> Octets(0, 2), label |-> Octets(2, 16), label_17 |-> Const,
  ensamble_ecc |-> Octets(18, 1), char_abbrev |-> Octets(20, 2)]

dab_time == [
  year |-> Octets(0, 2), month |-> Octets(2, 1), day |-> Octets(3, 1),
  hours |-> Octets(4, 1), minutes |-> Octets(5, 1), seconds |-> Octets(6, 1)]

event_status == [
  recfgint |-> Bit(0, 7), recfgwrnint |-> Bit(0, 6), annoint |-> Bit(0, 3),
  freqinfoint |-> Bit(0, 1), svrlistint |-> Bit(0, 0),
  freq_info |-> Bit(1, 1), svrlist |-> Bit(1, 0), svrlistver |-> Octets(2, 2)]

audio_info == [
  bit_rate |-> Octets(0, 2), sample_rate |-> Octets(2, 2),
  mode |-> Bits(4, 0, 1), drc_gain |-> Octets(5, 1)]

\* The flags are still to be decoded in the source.
rsq_status == [
  snrhint |-> Const, snrlint |-> Const, rssihint |-> Const,
  rssilint |-> Const, bltf |-> Const, hddetected |-> Const,
  flt_hd_detected |-> Const, afcrl |-> Const, valid |-> Const,
  read_freq |-> Octets(2, 2), freq_off |-> Octets(4, 1),
  rssi |-> Octets(5, 1), snr |-> Octets(6, 1), mult |-> Octets(7, 1),
  readantcap |-> Const, hdlevel |-> Const, filtered_hdlevel |-> Const]

rds_status == [
  rdstpptyint |-> Bit(0, 4), rdspiint |-> Bit(0, 3), rdssyncint |-> Bit(0, 1),
  rdsfifoint |-> Bit(0, 0), tpptyvalid |-> Bit(1, 4), pivalid |-> Bit(1, 3),
  rdssync |-> Bit(1, 1), rdsfifolost |-> Bit(1, 0), tp |-> Bit(2, 5),
  pty |-> Bits(2, 0, 4), pi |-> Octets(5, 2), rdsfifoused |-> Octets(6, 1),
  blea |-> Bits(7, 6, 7), bleb |-> Bits(7, 4, 5), blec |-> Bits(7, 2, 3),
  bled |-> Bits(7, 0, 1), blocka |-> Octets(8, 2), blockb |-> Octets(10, 2),
  blockc |-> Octets(12, 2), blockd |-> Octets(14, 2)]

\* Mutated form: the counts are one byte apart.
rds_blockcount_shift == [
  expected |-> Octets(0, 2), received |-> Octets(1, 2),
  uncorrectable |-> Octets(2, 2)]

rds_blockcount == [
  expected |-> Octets(0, 2), received |-> Octets(2, 2),
  uncorrectable |-> Octets(4, 2)]

part_info == [
  chiprev |-> Octets(0, 1), romid |-> Octets(1, 1), part |-> Octets(4, 2)]

-----------------------------------------------------------------------------
\* The commands: the structure, what the library assigns, the bytes of the
\* reply, what is printed; whether the library looks at the result of every
\* call of the bus, and the command at the result of the library.
Cmd(fields, decode, size, shows, checked, heeds) ==
  [fields |-> fields, decode |-> decode, size |-> size, shows |-> shows,
   checked |-> checked, heeds |-> heeds]

\* Mutated form: fm_rds_blockcount prints without looking at the result.
fm_rds_blockcount_heedless ==
  Cmd(FM_rds_blockcount, rds_blockcount, 6, DOMAIN FM_rds_blockcount,
      TRUE, FALSE)

fm_rds_blockcount ==
  Cmd(FM_rds_blockcount, rds_blockcount, 6, DOMAIN FM_rds_blockcount,
      TRUE, TRUE)

fm_rsq_status ==
  Cmd(FM_rsq_status, rsq_status, 17, {"read_freq", "rssi", "snr"}, TRUE, TRUE)

fm_rds_status ==
  Cmd(FM_rds_status, rds_status, 16,
      {"pty", "pi", "rdsfifoused", "blocka", "blockb", "blockc", "blockd"},
      TRUE, TRUE)

tuner_get_part_info == Cmd(info, part_info, 19, DOMAIN info, FALSE, TRUE)

dab_get_time == Cmd(DAB_time, dab_time, 7, DOMAIN DAB_time, FALSE, TRUE)

dab_digrad_status ==
  Cmd(DAB_digrad_status, digrad_status, 19, DOMAIN DAB_digrad_status,
      FALSE, FALSE)

dab_get_ensamble_info ==
  Cmd(DAB_ensamble_info, ensamble_info, 22, DOMAIN DAB_ensamble_info,
      FALSE, FALSE)

dab_get_audio_info ==
  Cmd(DAB_audio_info, audio_info, 6, {"bit_rate", "sample_rate", "drc_gain"},
      TRUE, FALSE)

\* Its first exchange; the second one prints nothing (DabEvents).
dab_get_event_status ==
  Cmd(DAB_event_status, event_status, 4, DOMAIN DAB_event_status, TRUE, FALSE)

Commands == [
  fm_rds_blockcount |-> fm_rds_blockcount, fm_rsq_status |-> fm_rsq_status,
  fm_rds_status |-> fm_rds_status, tuner_get_part_info |-> tuner_get_part_info,
  dab_get_time |-> dab_get_time, dab_digrad_status |-> dab_digrad_status,
  dab_get_ensamble_info |-> dab_get_ensamble_info,
  dab_get_audio_info |-> dab_get_audio_info,
  dab_get_event_status |-> dab_get_event_status]

VARIABLES
  pc,      \* "idle", "send", "wait", "read" or "print"
  cmd,     \* name of the command that runs, or ran last
  fields,  \* of the structure: what each one holds
  ret,     \* result of the library
  screen,  \* what the command printed: some of the fields
  faults,  \* calls of the bus that failed
  suspect, \* what went wrong in the command without ending it
  (* the tuner *)
  exec,    \* what it executes: "none", the command's "own" or an "older" one
  holds    \* whose reply it has: the command's own "reply" or an "older" one

vars == <<pc, cmd, fields, ret, screen, faults, suspect, exec, holds>>

C == Commands[cmd]

\* A value: where it was taken from, and which bits of it.
Value(from, bits) == [from |-> from, bits |-> bits]
Stack == Value("stack", {})

Init ==
  /\ pc = "idle" /\ cmd = "dab_get_time" /\ ret = "ok"
  /\ fields = [f \in DOMAIN DAB_time |-> Stack]
  /\ screen = << >> /\ faults = 0 /\ suspect = {}
  /\ exec = "none" /\ holds = "older"

\* Other commands may have come between, and left the tuner busy.
Call(c) ==
  /\ pc = "idle"
  /\ pc' = "send" /\ cmd' = c /\ suspect' = {}
  /\ exec' \in {"none", "older"} /\ holds' = "older"
  /\ fields' = [f \in DOMAIN Commands[c].fields |-> Stack]
  /\ ret' = "ok" /\ screen' = << >>
  /\ UNCHANGED faults

Fault(what) ==
  /\ faults < MaxFaults /\ faults' = faults + 1
  /\ suspect' = suspect \union what

\* The library gives up.
Fail ==
  /\ Fault({}) /\ pc' = "print" /\ ret' = "err"
  /\ UNCHANGED <<cmd, fields, screen, exec, holds>>

\* A tuner without CTS drops the command or takes it in place of the one it
\* is executing.
Send ==
  /\ pc = "send" /\ pc' = "wait"
  /\ \/ /\ exec' = "own" \/ (exec # "none" /\ exec' = exec)
        /\ suspect' = suspect \union (IF exec # "none" THEN {"busy"} ELSE {})
        /\ UNCHANGED faults
     \/ ~C.checked /\ Fault({"lost"}) /\ UNCHANGED exec
  /\ UNCHANGED <<cmd, fields, ret, screen, holds>>

SendFails == pc = "send" /\ C.checked /\ Fail

\* A poll shows CTS, of whatever command.
Wait ==
  /\ pc = "wait" /\ exec = "none" /\ pc' = "read"
  /\ UNCHANGED <<cmd, fields, ret, screen, faults, suspect, exec, holds>>

\* The polls fail, nobody looks, and CTS is set in what was on the stack.
WaitBlind ==
  /\ pc = "wait" /\ pc' = "read"
  /\ Fault({"blind"})
  /\ UNCHANGED <<cmd, fields, ret, screen, exec, holds>>

WaitFails == pc = "wait" /\ Fail

\* The fields that are assigned; the rest stays.
Decode(from) ==
  fields' = [f \in DOMAIN fields |->
    IF f \in DOMAIN C.decode THEN Value(from, C.decode[f]) ELSE fields[f]]

\* A tuner that executes a command has no reply, and says so in the status:
\* si468x_get_part_info looks at it, and then decodes nothing.
Read ==
  /\ pc = "read" /\ pc' = "print"
  /\ \/ /\ Decode(IF exec = "none" THEN holds ELSE "junk")
        /\ UNCHANGED <<faults, suspect>>
     \/ /\ cmd = "tuner_get_part_info" /\ exec # "none"
        /\ UNCHANGED <<fields, faults, suspect>>
     \/ ~C.checked /\ Fault({"unread"}) /\ Decode("stack")
  /\ UNCHANGED <<cmd, ret, screen, exec, holds>>

ReadFails == pc = "read" /\ C.checked /\ Fail

Show ==
  /\ pc = "print" /\ pc' = "idle"
  /\ screen' = IF ret = "err" /\ C.heeds THEN << >>
                ELSE [f \in C.shows |-> fields[f]]
  /\ UNCHANGED <<cmd, fields, ret, faults, suspect, exec, holds>>

\* The tuner is done with a command, at any time.
ChipFinish ==
  /\ exec # "none" /\ exec' = "none"
  /\ holds' = IF exec = "own" THEN "reply" ELSE "older"
  /\ UNCHANGED <<pc, cmd, fields, ret, screen, faults, suspect>>

Next ==
  \/ \E c \in DOMAIN Commands : Call(c)
  \/ Send \/ SendFails \/ Wait \/ WaitBlind \/ WaitFails
  \/ Read \/ ReadFails \/ Show
  \/ ChipFinish

Spec == Init /\ [][Next]_vars

-----------------------------------------------------------------------------
\* Every field holds bits that are in the reply, as many as were declared
\* for it in the header or fewer: no byte beyond the buffer is decoded and
\* no bit is lost in a narrow field.  And no bit of a reply is decoded twice,
\* but for the byte that is the high byte of pi and rdsfifoused as well
\* (si468x_dab.c:199-223,246-254,277-282, si468x_fm.c:80-96,118-137,159-161,
\* si468x_common.c:245-249).
EachBitOnce ==
  \A f \in DOMAIN fields :
    /\ fields[f].bits \subseteq 0 .. (8 * C.size) - 1
    /\ Cardinality(fields[f].bits) <= C.fields[f]
    /\ \A g \in DOMAIN fields :
         fields[f].bits \intersect fields[g].bits # {} =>
           f = g \/ {f, g} = {"pi", "rdsfifoused"}

\* The six commands of which a check is missing on the way.
Unchecked ==
  {"dab_digrad_status", "dab_get_event_status", "dab_get_ensamble_info",
   "dab_get_audio_info", "dab_get_time", "tuner_get_part_info"}

\* Where a value may come from although every result was looked at: from the
\* reply to an older command, if the tuner was still busy with it, or from a
\* tuner that is not done, if the wait believed a status it never read.
Excused(from) ==
  \/ from = "reply"
  \/ from = "older" /\ "busy" \in suspect
  \/ from = "junk" /\ "blind" \in suspect

\* What is printed was answered by the tuner to this very command.  The
\* exceptions are tune_offet and the 17th character of the label, which
\* nobody ever assigns (si468x_dab.c:199-223,252); with a busy tuner or a
\* blind wait, the answer to an older command or none at all, which every
\* command prints, those that look at every result too
\* (si468x_common.c:51-62,71-85); and when anything went wrong, what was on
\* the stack or in an older reply, which the six commands print of which a
\* check is missing on the way (shell_cmds.c:85,118,139,211,
\* si468x_dab.c:265-275, si468x_common.c:233-249).
ShownWasAnswered ==
  \A f \in DOMAIN screen :
    \/ Excused(screen[f].from)
    \/ f \in {"tune_offet", "label_16"}
    \/ (suspect # {} \/ ret = "err") /\ cmd \in Unchecked

-----------------------------------------------------------------------------
(***************************************************************************)
(* Why these hold: the inductive invariant, in parts.                      *)
(***************************************************************************)
TypeOK ==
  /\ pc \in {"idle", "send", "wait", "read", "print"}
  /\ cmd \in DOMAIN Commands
  /\ ret \in {"ok", "err"}
  /\ suspect \subseteq {"lost", "busy", "blind", "unread"}
  /\ exec \in {"none", "own", "older"} /\ holds \in {"reply", "older"}
  /\ DOMAIN fields = DOMAIN C.fields
  /\ \A f \in DOMAIN fields :
       fields[f].from \in {"stack", "reply", "older", "junk"}

\* A field holds what was on the stack, or the bits that are decoded for it.
StackOrDecoded ==
  \A f \in DOMAIN fields :
    \/ fields[f].bits = {}
    \/ f \in DOMAIN C.decode /\ fields[f].bits = C.decode[f]

\* Whose command the tuner executes, and whose reply it has, at each step of
\* the exchange: the command's own, unless it was lost or the tuner busy; and
\* when the wait is over it executes none, unless the wait was blind.
Owned ==
  /\ pc = "send" => suspect = {} /\ exec # "own"
  /\ pc \in {"wait", "read"} /\ suspect \intersect {"lost", "busy"} = {} =>
       exec = "own" \/ (exec = "none" /\ holds = "reply")
  /\ pc = "read" /\ "blind" \notin suspect => exec = "none"
  /\ suspect \intersect {"lost", "unread"} # {} => ~C.checked

\* What is about to be printed is decoded from the command's own reply, or
\* from what an exchange with a busy tuner or a blind wait got instead, or a
\* call of the bus failed and nobody looked, or somebody did.
DecodedBeforePrint ==
  pc = "print" =>
    \/ \A f \in DOMAIN C.decode : Excused(fields[f].from)
    \/ suspect # {} /\ ~C.checked
    \/ ret = "err"

\* A command prints once, at its end.
PrintedAtEnd == pc # "idle" => screen = << >>

\* The conjunction that every step preserves.
IInv ==
  /\ TypeOK /\ StackOrDecoded /\ Owned /\ DecodedBeforePrint
  /\ PrintedAtEnd /\ ShownWasAnswered
=============================================================================
