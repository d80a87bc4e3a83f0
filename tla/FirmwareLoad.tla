---------------------------- MODULE FirmwareLoad ----------------------------
(***************************************************************************)
(* dabon-cli start_tuner and stop_tuner: reset the tuner, load the         *)
(* bootloader patch and the application image over SPI in chunks, boot.    *)
(* The loader may fail at every step and may be killed at every step, the  *)
(* tuner keeps what it was given, and the user runs the command again.     *)
(* One exchange (send a command, wait for CTS) is two steps here; module   *)
(* Si468xLink has its details.                                             *)
(***************************************************************************)
EXTENDS Integers, Sequences

CONSTANTS
  Btldr, App,   \* the two image files
  Size,         \* their sizes in bytes
  MaxPayload,   \* MAX_FLASH_LOAD_PAYLOAD
  MaxRuns,      \* bound on the number of commands the user runs
  Faults        \* what may go wrong, a subset of AllFaults

Images == {Btldr, App}

\* file: an image cannot be read; gpio: gpiod_line_set_value has no effect;
\* spi: a write fails; reject: the tuner refuses a command; timeout: it is
\* too slow; garbage: CTS of a status no read ever filled; crash: the process
\* is killed.
AllFaults == {"file", "gpio", "spi", "reject", "timeout", "garbage", "crash"}

ASSUME ImagesAssumption == Btldr # App /\ Size \in [Images -> Nat]
ASSUME PayloadAssumption == MaxPayload \in Nat \ {0}
ASSUME BoundsAssumption == MaxRuns \in Nat /\ Faults \subseteq AllFaults

VARIABLES
  pc,    \* "idle", or where the process is
  step,  \* command of start_image it is at
  sent,  \* sent_bytes of the current host_load
  ret,   \* how the last command ended
  runs,  \* number of commands started
  mode,  \* of the tuner: held in reset, waiting for POWER_UP, or running one
         \* of its two programs
  mem,   \* what was loaded: a segment per LOAD_INIT
  exec,  \* the command the tuner is executing
  hit    \* faults since the tuner was last reset

host == <<pc, step, sent, ret, runs>>
chip == <<mode, mem, exec>>
vars == <<pc, step, sent, ret, runs, mode, mem, exec, hit>>

-----------------------------------------------------------------------------
\* si468x_start_image from the first command on.
Script == <<"POWER_UP", "LOAD_INIT", "HOST_LOAD", "LOAD_INIT", "HOST_LOAD",
            "BOOT">>
ImageAt(s) == IF s < 4 THEN Btldr ELSE App

ChunkLen(n, size) == IF size - n > MaxPayload THEN MaxPayload ELSE size - n

NoCmd == [op |-> "none", img |-> Btldr, from |-> 0, len |-> 0]
Cmd(s, n) == [op |-> Script[s], img |-> ImageAt(s), from |-> n,
              len |-> IF Script[s] = "HOST_LOAD"
                      THEN ChunkLen(n, Size[ImageAt(s)]) ELSE 0]

Commands == [op : {"none", "POWER_UP", "LOAD_INIT", "HOST_LOAD", "BOOT"},
             img : Images, from : Nat, len : Nat]

\* A segment with the first n bytes of an image; Mixed is anything else.
Seg(img, n) == [img |-> IF n = 0 THEN "empty" ELSE img, upto |-> n]
Mixed == [img |-> "mixed", upto |-> 0]
Segments == [img : Images \union {"empty", "mixed"}, upto : Nat]

Extend(seg, c) ==
  IF c.len = 0 THEN seg
  ELSE IF seg = Seg(c.img, c.from) THEN Seg(c.img, c.from + c.len)
  ELSE Mixed

\* What a correct load leaves behind.
Wanted == <<Seg(Btldr, Size[Btldr]), Seg(App, Size[App])>>

-----------------------------------------------------------------------------
Init ==
  /\ pc = "idle" /\ step = 1 /\ sent = 0 /\ ret = "none" /\ runs = 0
  /\ mode \in {"reset", "off"} /\ mem = <<>> /\ exec = NoCmd
  /\ hit = {}

\* The faults are those of AllFaults that the instance has.
Suffer(f) == f \in Faults /\ hit' = hit \union {f}

\* si468x_gpio_init requests the reset line as an output at 1: every run of
\* dabon-cli takes the tuner out of reset.
Start ==
  /\ pc = "idle" /\ runs < MaxRuns
  /\ runs' = runs + 1
  /\ mode' = IF mode = "reset" THEN "off" ELSE mode
  /\ pc' \in {"files", "stop"}
  /\ step' = 1 /\ sent' = 0 /\ ret' = "none"
  /\ UNCHANGED <<mem, exec, hit>>

\* read_file_to_buffer, twice.
ReadFiles ==
  /\ pc = "files"
  /\ \/ pc' = "assert" /\ UNCHANGED <<ret, hit>>
     \/ Suffer("file") /\ pc' = "idle" /\ ret' = "failed"
  /\ UNCHANGED <<step, sent, runs, chip>>

ResetLow ==
  \/ mode' = "reset" /\ mem' = <<>> /\ exec' = NoCmd /\ hit' = {}
  \/ Suffer("gpio") /\ UNCHANGED chip

\* Mutated form: the tuner is not reset before it is loaded.
AssertReset_skipped ==
  /\ pc = "assert"
  /\ pc' = "deassert"
  /\ UNCHANGED <<step, sent, ret, runs, chip, hit>>

AssertReset ==
  /\ pc = "assert"
  /\ pc' = "deassert" /\ ResetLow
  /\ UNCHANGED <<step, sent, ret, runs>>

\* Mutated form: the tuner is left in reset.
DeassertReset_skipped ==
  /\ pc = "deassert"
  /\ pc' = "send"
  /\ UNCHANGED <<step, sent, ret, runs, chip, hit>>

DeassertReset ==
  /\ pc = "deassert"
  /\ pc' = "send"
  /\ \/ mode' = (IF mode = "reset" THEN "off" ELSE mode) /\ UNCHANGED hit
     \/ Suffer("gpio") /\ UNCHANGED mode
  /\ UNCHANGED <<step, sent, ret, runs, mem, exec>>

StopTuner ==
  /\ pc = "stop"
  /\ pc' = "idle" /\ ret' = "stopped" /\ ResetLow
  /\ UNCHANGED <<step, sent, runs>>

\* si468x_send_command.  A tuner in reset does not listen, a busy one drops
\* the command or takes it instead of the one it executes.
Send ==
  /\ pc = "send"
  /\ pc' = "wait"
  /\ \/ mode # "reset" /\ exec' = Cmd(step, sent)
     \/ (mode = "reset" \/ exec # NoCmd) /\ UNCHANGED exec
  /\ UNCHANGED <<step, sent, ret, runs, mode, mem, hit>>

Fail == pc' = "idle" /\ ret' = "failed"

SendFails ==
  /\ pc = "send"
  /\ Fail /\ Suffer("spi")
  /\ UNCHANGED <<step, sent, runs, chip>>

\* Mutated form: si468x_boot does not look at the power-up state.
ModeOk_boot(m) == step = 1 => m = "bootloader"
\* The check of status byte 3 in si468x_powerup and si468x_boot.
ModeOk(m) ==
  /\ step = 1 => m = "bootloader"
  /\ step = 6 => m = "application"

\* Mutated form: the unsigned len is compared with >= 0.
LoadDone_never(n) == FALSE
\* The end of the do-while loop of si468x_host_load.
LoadDone(n) == n = Size[ImageAt(step)]

\* The exchange is over; go on with the next chunk, the next command, or the
\* end of start_image.
Advance ==
  LET n == sent + Cmd(step, sent).len
  IN IF Script[step] = "HOST_LOAD" /\ ~LoadDone(n)
     THEN pc' = "send" /\ sent' = n /\ UNCHANGED <<step, ret>>
     ELSE /\ sent' = 0
          /\ IF step = 6
             THEN pc' = "idle" /\ ret' = "ok" /\ UNCHANGED step
             ELSE pc' = "send" /\ step' = step + 1 /\ UNCHANGED ret

\* The polling loop sees CTS.
Answered ==
  /\ pc = "wait" /\ mode # "reset" /\ exec = NoCmd
  /\ IF ModeOk(mode) THEN Advance ELSE Fail /\ UNCHANGED <<step, sent>>
  /\ UNCHANGED <<runs, chip, hit>>

\* It sees the bits of a status that was never read.
Garbage ==
  /\ pc = "wait"
  /\ Suffer("garbage")
  /\ Advance \/ (Fail /\ UNCHANGED <<step, sent>>)
  /\ UNCHANGED <<runs, chip>>

\* The deadline passes; a tuner in reset never answers.
GiveUp ==
  /\ pc = "wait"
  /\ (mode = "reset" /\ UNCHANGED hit) \/ Suffer("timeout")
  /\ Fail
  /\ UNCHANGED <<step, sent, runs, chip>>

Crash ==
  /\ pc # "idle"
  /\ Suffer("crash")
  /\ pc' = "idle" /\ ret' = "crashed"
  /\ UNCHANGED <<step, sent, runs, chip>>

-----------------------------------------------------------------------------
(* The tuner, also when nobody is waiting for it any more. *)

Obey ==
  CASE exec.op = "POWER_UP" ->
         /\ mode' = IF mode = "off" THEN "bootloader" ELSE mode
         /\ UNCHANGED mem
    [] exec.op = "LOAD_INIT" /\ mode = "bootloader" ->
         mem' = Append(mem, Seg(Btldr, 0)) /\ UNCHANGED mode
    [] exec.op = "HOST_LOAD" /\ mode = "bootloader" /\ mem # <<>> ->
         mem' = [mem EXCEPT ![Len(mem)] = Extend(@, exec)] /\ UNCHANGED mode
    [] exec.op = "BOOT" /\ mode = "bootloader" ->
         mode' = "application" /\ UNCHANGED mem
    [] OTHER -> UNCHANGED <<mode, mem>>

\* It may refuse a command, and an image that is not the wanted one.
Execute ==
  /\ exec # NoCmd
  /\ exec' = NoCmd
  /\ \/ Obey /\ UNCHANGED hit
     \/ Suffer("reject") /\ UNCHANGED <<mode, mem>>
     \/ exec.op = "BOOT" /\ mem # Wanted /\ UNCHANGED <<mode, mem, hit>>
  /\ UNCHANGED host

-----------------------------------------------------------------------------
HostStep ==
  \/ ReadFiles \/ AssertReset \/ DeassertReset \/ StopTuner
  \/ Send \/ SendFails \/ Answered \/ Garbage \/ GiveUp

Next == Start \/ HostStep \/ Crash \/ Execute

Fairness == WF_vars(HostStep)

Spec == Init /\ [][Next]_vars /\ Fairness

-----------------------------------------------------------------------------
TypeOK ==
  /\ pc \in {"idle", "files", "assert", "deassert", "stop", "send", "wait"}
  /\ step \in 1 .. 6 /\ sent \in 0 .. Size[ImageAt(step)]
  /\ ret \in {"none", "ok", "failed", "stopped", "crashed"}
  /\ runs \in 0 .. MaxRuns
  /\ mode \in {"reset", "off", "bootloader", "application"}
  /\ mem \in Seq(Segments)
  /\ exec \in Commands
  /\ hit \subseteq AllFaults

\* What runs in application mode is the two images, complete and in order,
\* whatever earlier runs left in the tuner: si468x_start_image resets it
\* first, and stops at the first command that failed.  It takes a reset line
\* that works, a status that was read, and a tuner that refuses no command
\* (nobody looks at STATUS0_ERRCMD).
AppImage ==
  mode = "application" /\ hit \intersect {"gpio", "garbage", "reject"} = {}
    => mem = Wanted

\* When start_tuner returns 0 the tuner runs the application, also if the
\* reset line is dead (the check at the end of si468x_boot).
SuccessMeansRunning ==
  pc = "idle" /\ ret = "ok" /\ "garbage" \notin hit => mode = "application"

\* A start that fails has met a fault of its own: whatever an earlier run was
\* killed or given up in the middle of, running the command again is enough.
RetryRecovers == pc = "idle" /\ ret = "failed" => hit # {}

\* Nothing that an earlier run sent is executed in a later one after its
\* reset: the tuner only works on the command the loader waits for.
NoLateCommand ==
  pc \in {"send", "wait"} /\ exec # NoCmd
    /\ hit \intersect {"gpio", "garbage"} = {}
    => pc = "wait" /\ exec = Cmd(step, sent)

-----------------------------------------------------------------------------
(***************************************************************************)
(* Why these hold: the inductive invariant, in parts.                      *)
(***************************************************************************)
\* What is loaded when the tuner has obeyed the commands before command s,
\* and the first n bytes of its image if it is a HOST_LOAD.
Loaded(s, n) ==
  CASE s \in {1, 2} -> <<>>
    [] s = 3 -> <<Seg(Btldr, n)>>
    [] s = 4 -> <<Seg(Btldr, Size[Btldr])>>
    [] s = 5 -> <<Seg(Btldr, Size[Btldr]), Seg(App, n)>>
    [] s \in {6, 7} -> Wanted
ModeBefore(s) == IF s = 1 THEN "off"
                 ELSE IF s = 7 THEN "application" ELSE "bootloader"

\* A run starts at the first command, and between the edges of the reset
\* pulse the tuner is blank.
Blank ==
  /\ pc \in {"files", "assert", "deassert"} => step = 1 /\ sent = 0
  /\ pc = "deassert" /\ hit \intersect {"gpio", "garbage"} = {}
       => mode = "reset" /\ mem = <<>> /\ exec = NoCmd /\ hit = {}

\* The tuner is exactly where the loader thinks it is.
InStep ==
  pc \in {"send", "wait"}
    /\ hit \intersect {"gpio", "garbage", "reject"} = {} =>
    IF pc = "send" \/ exec # NoCmd
    THEN mem = Loaded(step, sent) /\ mode = ModeBefore(step)
    ELSE /\ mode = ModeBefore(step + 1)
         /\ mem = IF Script[step] = "HOST_LOAD"
                  THEN Loaded(step, sent + Cmd(step, sent).len)
                  ELSE Loaded(step + 1, 0)

\* Nobody boots anything else, now or when the pending command is executed.
BootsWanted ==
  (mode = "application" \/ exec.op = "BOOT")
    /\ hit \intersect {"gpio", "garbage", "reject"} = {} => mem = Wanted

\* The conjunction that every step preserves.
IInv ==
  /\ TypeOK /\ Blank /\ InStep /\ BootsWanted
  /\ NoLateCommand /\ SuccessMeansRunning /\ RetryRecovers

-----------------------------------------------------------------------------
\* Every run ends, also with a tuner that never answers.
StartReturns == pc # "idle" ~> pc = "idle"
=============================================================================
