# A verification project for car-player

`car-player` is a Buildroot external tree for a car radio: a DAB/FM tuner
(Silicon Labs Si468x) on SPI, an audio path through ALSA and PipeWire, a USB
automounter and a dashboard.  The programs of its own are a C library for the
tuner (`package/libsi468x`), a command line tool over it
(`package/dabon-cli`), two ALSA test programs (`package/alsa-tests`), and the
start-up and helper scripts of the root file system.  The repository has no
tests.

This directory holds TLA+ models of the parts with behaviour of their own, the
TLC configurations that check them on small instances, and TLAPS proofs of the
central results for every value of the constants.  Paths below are relative to
the root of the repository; `si468x_x.c` is in `package/libsi468x`.

Contents

1. [The system](#1-the-system)
2. [Modules](#2-modules)
3. [Runs](#3-runs)
4. [Fairness](#4-fairness)
5. [Proofs](#5-proofs)
6. [Where texts and code disagree](#6-where-texts-and-code-disagree)
7. [What is not modelled](#7-what-is-not-modelled)
8. [Plan](#8-plan)

## 1. The system

```
 scripts, dashboard, user            init scripts            USB disk
        | start processes                 |                     | udev
        v                                 v                     v
    dabon-cli  --- calls --->  libsi468x          pipewire   automount.sh
                                  |                   |
                       SPI + 2 GPIO lines          ALSA  <--- change_channel,
                                  v                   v        sine_switch
                               Si468x  --- I2S --> sound card
```

### libsi468x, exchanges with the tuner

*State.* Two global descriptors (`spi_fd`, `gpiochip`) and the two requested
lines.  The library remembers nothing about the tuner: all state is in the chip
and in the local variables of the call in progress.

*Operations.* 23 functions of one shape (`Si468xApi!Table`): send a command, poll status
byte 0 for CTS until a deadline (`si468x_wait_for_status0_bitmask`,
`si468x_common.c:43`), read the reply.  They differ in what they leave out or
add: some ignore the result of the send, of the read or of `malloc`, one does
not wait at all, `si468x_dab_tune_freq` waits for a second bit (STCINT), some
check a mode in the reply.

*Hard.* The tuner goes on after the caller gave up.  A status that no read
filled is uninitialised memory.  STCINT does not say whose tune ended.

*Correct if* a 0 means that the tuner is done with this command, the bytes
that are decoded are its reply, the next call finds the tuner idle, and every
call returns.

### libsi468x, firmware load

*State.* The two image files, the step of `si468x_start_image`
(`si468x_ext.c:11`), the offset of `si468x_host_load`
(`si468x_common.c:158`); in the chip the mode, the loaded memory and the command
in execution.

*Operations.* `start_tuner` (read both files, reset pulse, POWER_UP, patch,
application, BOOT) and `stop_tuner` (reset low).

*Hard.* Any step may fail or the process may be killed, with a chunk still being
executed; the user then runs the command again.

*Correct if* only the two complete images are ever booted, a 0 means that the
application runs, and running the command again is always enough.

### libsi468x, DAB service list

*State.* A structure with a heap block and two arrays of pointers into it,
handed in and out by the caller.

*Operations.* `si468x_dab_get_service_list` (`si468x_ext.c:67`) over
`si468x_dab_get_digital_service_list` (`si468x_dab.c:287`).

*Hard.* Old blocks freed before new ones are there, results dropped, sizes and
numbers taken from the reply and compared with nothing.

*Correct if* the pointers tell services apart, none is stale, no block is lost,
and no array or block is left but for a reply larger than the room there is.

### libsi468x, bus and GPIO

`si468x_platform.c` opens the SPI device, requests the lines, pulses the reset.

### libsi468x, encodings

*State.* The buffers and structures on the stack of a command, none of which is
initialised.

*Operations.* The packing of numbers into the bytes of a command
(`si468x_utils.h`, `si468x_dab.c`, `si468x_fm.c`), the decoding of nine replies
into structures, the parsing and printing around them (`shell_cmds.c`).

*Hard.* Widths, signs, offsets and byte orders, written by hand; structures that
are printed although nothing filled them; numbers printed in one base and read
in another.

*Correct if* a number survives the way to the tuner and back, a field is made
of bits of its own, and what is printed was answered to this very command,
where the code made sure of it.

### dabon-cli

*State.* One process per command; nothing persists but the tuner.

*Operations.* Twenty commands (`shell_cmds.c`) between
`si468x_platform_init` and `si468x_platform_deinit` (`main.c`).

*Interaction.* Started by hand, by `root/radio_test` and `root/radio_start_fm`,
and by the dashboard.  There is no lock: the kernel's exclusive GPIO lines are
what keeps a second process off the tuner.

*Hard.* Processes overlap, are killed, and give up on commands.
`dab_get_event_status` reads the events, prints them and clears them with a
second exchange, while the tuner goes on raising events.

*Correct if* one process uses the tuner at a time, no line is left behind, the
exit status tells that the tuner was left busy, every process ends, and no event
disappears unseen but in the gap between the two exchanges or after a read that
did not deliver.

### alsa-tests

`change_channel` plays a sine in three segments and changes the channel count
between them without closing the PCM; `sine_switch` plays four tones, of 16 and
24 bits in turn, and configures the open PCM anew before each.  The sound card is the second actor: it plays the ring buffer while the program
renders, and runs dry when the program is late.

*Correct if* no frame is played with the wrong layout, the frames counted as
done are those that were or will be heard, the last segment and every
undisturbed tone are heard to their end, and the program ends.

### Scripts and configuration

| part | state | operations | hard |
|---|---|---|---|
| `S95pipewire`, `S99dabondashboard` | pid files, the PipeWire socket | start, stop, restart | a daemon that writes its pid, makes its socket or ends late; one that crashes |
| `root/headphone`, `line-out`, `capture`, `S90alsaconf` | mixer controls | `amixer` calls under `set -e` | a call that fails half way |
| `root/aloop`, `test-loop-...` | background programs | start, wait for Enter, kill | a program that ended before; a pipeline of two with one pid |
| `automount.sh` and its udev rule | mount points, one per partition | add, remove | events in quick succession |
| `radio_test`, `radio_start_fm` | none | sequences of `dabon-cli` | a step that fails |
| boot script, device tree, `asound.conf`, kernel and Buildroot configuration | none | | |

`PROJECT.json` lists every component with its status and every hazard with the
line where it bites and the properties about it.

## 2. Modules

| module | models | extends / refines |
|---|---|---|
| `TunerExchange` | what a call promises (abstract) | |
| `Si468xApi` | the shape of every library function | |
| `Si468xLink` | a call and the tuner, one SPI transfer per step | implements `TunerExchange` |
| `FirmwareLoad` | `start_tuner`, `stop_tuner` and the tuner | |
| `ShellCommands` | the command table of `dabon-cli` | |
| `DabonCli` | processes, GPIO lines, the tuner | takes its commands from `ShellCommands` |
| `ServiceList` | the heap of the DAB service list | |
| `DabEvents` | `dab_get_event_status` and the events of the tuner | |
| `ByteOrder` | the packing macros, casts and fields, as operators | |
| `TunerValues` | numbers from the keyboard to the registers and back | extends `ByteOrder` |
| `TunerReplies` | the bits of nine replies, to the screen | |
| `TunerData` | the numbers, the events and the replies of one `dabon-cli` | extends `TunerValues`, instantiates `DabEvents` and `TunerReplies` |
| `ChannelSwitch` | `change_channel` and the sound card | |
| `SineSwitch` | `sine_switch` and the sound card | |
| `DaemonScripts` | `S95pipewire`, `S99dabondashboard` and the daemons | |
| `MixerScripts` | the mixer and loop scripts, and the programs they start | |
| `ShellScripts` | all the shell scripts | extends `DaemonScripts`, instantiates `MixerScripts` |
| `...Proofs` | the theorems about the module of that name | |
| `MC...` | the instances for TLC | |

`TunerData` puts `DabEvents`, `TunerValues` and `TunerReplies` together,
`ShellScripts` does so with `DaemonScripts` and `MixerScripts`.  The modules of
such a composition share no state: a variable `part`, chosen in the initial
state, says whose behaviour it is, and the others stand still.  What is said of
the composition is said of each of its modules (the lemmas
`DataImplementsParts` and `ScriptsImplementParts`, which hold by construction
and serve the theorems only).

The three tuner modules look at one boundary at three scales.  `Si468xLink` has
the inside of one exchange.  `FirmwareLoad` uses exchanges of two steps (the
command is on the bus; the answer is there, or given up) and has the chunks and
commands between them.  `DabonCli` has the processes around them; an exchange
there ends successfully only when the tuner is idle, or blindly, by a status
that no read ever filled.  That is the contract `TunerExchange`, which the link
is shown to implement.

### TunerExchange

The contract of one call, without functions, bits and deadlines.  A call goes
from `idle` to `sending` to `waiting` and back; the tuner is `busy` with one
command at a time, and `done` with that of the latest call or not.  `doubt` is
the set of phases that went wrong without anybody noticing: `sending`, when the
write failed and nobody looked or the tuner was still busy; `waiting`, when the
status was never read or the function does not wait.  A 0 without doubt means
that this command is done and that the tuner is free; with only `sending` in
doubt the tuner is still free.  In `Si468xLink`, `phase` is `pc`, `busy` is
`exec # 0`, `done` is `replyOf = id`, and `doubt` comes from `suspect`.

Definitions named `X_y` with a comment "Mutated form" are not part of a model:
each is `X` with a plausible mistake, and replacing `X` by it makes a property
of the runs fail.

### Si468xLink

`pc` is the place in `si468x_send_command_wait_cts_read_reply` or a hand-written
copy of it; `API[f]` says which steps function `f` has.

| action | code |
|---|---|
| `Call`, `SendCommand`, `SendFails` | the head of a function and `si468x_send_command` |
| `PollReads` | `si468x_read_reply(NULL, 0, status)` in the loop; a failed `ioctl` leaves `status` alone |
| `CheckTimeout`, `CheckAgain`, `CheckSeen` | the rest of the loop, deadline first |
| `ReadReply`, `ReadFails`, `AllocFails` | the read of the reply, and `malloc` in the service list |
| `Tick` | the clock; `elapsed` saturates after the deadline |
| `ChipFinish`, `ChipTuned` | the tuner (external) |

Calls have numbers, so that a reply can be told from an older one:
`got = id` says that the buffer holds the reply to this call.  Reply contents
are otherwise left out.  `suspect` is a history variable: what went wrong in
this call without ending it ("lost": an ignored send failure, "busy": the tuner
still had an older command, "garbage": CTS in a status nobody read, "stc": a
stale STCINT or running tune, "nowait": the function does not wait, "unread": an
ignored read failure or `malloc`).  The properties name the exact disturbances
under which the code makes no promise; each of them is needed: with one of them
taken out of a property TLC finds a counterexample.

Uninitialised memory is nondeterministic: `Call` chooses the bits of `status`.

### FirmwareLoad

`pc` is the place in `start_tuner` or `stop_tuner`, `step` the command of
`si468x_start_image` (`Script`), `sent` the offset of `si468x_host_load`.  `mem`
is what the tuner was given since its reset, one segment per LOAD_INIT; a
segment that is the first `n` bytes of an image is `Seg(img, n)` and anything
else is `Mixed`.  The reset clears it.  `exec` is the command in execution,
which goes on when the process is gone; a busy tuner drops a new command or
takes it in place of the old one.  `hit` is a history variable: the faults since
the last reset.

`Faults` switches the faults of an instance: an unreadable file, a reset line
that does not move (the result of `gpiod_line_set_value` is ignored), a failing
write, a refused command (STATUS0_ERRCMD is not looked at), a deadline, an
uninitialised status, a kill.

Consequence worth knowing: a refused chunk goes unnoticed, so `AppImage`
excepts "reject".  What protects the tuner then is its own check of the image.
As in the link, every fault that a property excepts is needed: without it TLC
finds a counterexample.

### DabonCli

One entry of `pc`, `cmd`, `left`, `code` per process.  `SpiInit`,
`RequestReset`, `RequestInt` are `si468x_platform_init`; `Begin`, `Send`,
`Receive`, `ReceiveBlind`, `ExchangeFails` a command as a sequence of exchanges
(a blind one ends by a CTS in a status that no read filled; `blind` remembers
who did that, and fairness does not count on it); `Exit` is
`si468x_platform_deinit` and the end of the process, after which the kernel has
the lines back, also for a killed one.  `shell_commands` is the command table,
with what the model needs of each handler: whether it checks input, resets the
tuner, how many exchanges it does, and whether it returns their error.
`start_tuner` has two exchanges here, which stand for its whole sequence.

`Unknown` has both exit statuses: for an unknown command `main` tests a
`command_ret` that nothing has set (`main.c:45`).

### ServiceList

Statement by statement, with `malloc` returning a new block or NULL and `heap`
the set of live blocks.  `filled` is the part of the two pointer arrays before
the first NULL.  `content` is the received list: component counts and the size
in its header, which differ only when the read failed (`Garbage`).  Sizes are in
units of one component entry.

`num_of_services` is a byte of the reply, and the number of components of a
service four bits of it (`Counts`); the code compares neither with the arrays.
The components need no comparison, since four bits cannot say more than the 15
there is room for (`FieldAssumption`); the services do: `service_list` has 33
slots, the last for the NULL that the loop of the caller looks for.  `Release` is
that caller: it reads every component (`Unprintable`) before it frees the list.
The model ends at the first undefined behaviour, and `ub` says which: "overrun"
is an array that is left, "overread" a `memcpy` of more than `tmp_buffer` holds,
"bounds" a pointer beyond the block, "null" and "freed" what the pointers go
into.  `ErrorsAreCaused` says what can cause each of them.

### ChannelSwitch

`FillPeriod`, `WriteSome`, `WriteReturns`, `WriteFails`, `Recover`,
`SegmentOver` are `play_segment`; `Drop`, `Refine`, `Prepare` are
`switch_channels`; `Open`, `InitialHwParams`, `Drain`, `Close` are `main`.
`CallFails` is the error path of every call.  `Play` and `Xrun` are the card.
The sine is the phase of a frame, counted in steps and never wrapped, so that a
phase names one rendered frame.  Each frame in `ring` carries the channel count
it was rendered for.  `snd_pcm_writei` is a loop (`WriteSome`): the card plays
and may run dry between two copies, which is how a short write comes about.

### DabEvents

`Keep` and `Clear` are the two exchanges of `dab_get_event_status`, with KEEP and
with CLEAR; `PrintStatus` is between them.  Both results are dropped in the code,
so `KeepFails` goes on with whatever the stack holds (`Start` chooses it; a wait
that ends on the wrong CTS prints no error either), and a
`Clear` whose answer is lost has cleared all the same; `GiveUp` is a command
that does not reach the tuner, or a kill.  `Raise` is the tuner, at any time.
`late`, `seen`, `missed`, `shown` and `kept` are history variables.  The only
consumer of the events is a reader of what is printed; `ListIsCurrent` says what
the printed version of the service list is worth to it.

### ByteOrder, TunerValues

`ByteOrder` has `BYTE_0` to `BYTE_3`, the casts to `uint8_t` and `uint16_t` (also
of negative numbers), the composition of two and four bytes, and the fields that
the macros of `si468x_dab.h` take out of the bytes of a service.  `TunerValues`
puts them in their place: a numeral is a sign, perhaps `0x`, and digits; `scan_d`
and `scan_x` are what `sscanf` makes of it with `%d` and `%x`; each command is
one step with its check, its cast, its bytes and the effect in the tuner.
`asked` is what the user meant.  Exchanges succeed here, but the tuner may
refuse a command: a property it does not have is set and read without an error
(the commands accept every index up to 0xe800), and reads as what the reply to a
refused command holds (`Leftover`).  `ReadBackAsSet` names that exception.

Worth knowing: the service list prints IDs with `0x%08x` and
`dab_start_digital_service` reads them with `%d`, which stops at the `x`: an ID
copied from the list starts service 0 (`StartedOrZero`).  A number beyond the
frequency list is cast into it: 286 is tuned to as 30.

### TunerReplies

A bit is known by where it comes from: `Octets(2, 2)` are the bits of bytes 2
and 3 of the reply.  The structures of the headers are the widths of their
fields, the decoding is one record per reply, and a command is its structure, its
decoding, the size of its reply, what it prints, and the checks it makes
(`checked`, `heeds`).  A field holds `Value(from, bits)`: from this reply, from an
older one, from a tuner that is not done ("junk"), or from the stack.

The exchange has the disturbances of `Si468xLink`.  The tuner may still be `exec`
with an `older` command when a command begins; then it drops the new one or takes
it instead, and the CTS that `Wait` sees may be that of either.  `WaitBlind` is a
wait whose polls fail and that believes a status on the stack.  `holds` is whose
reply the tuner has, and `suspect` the history of what went wrong unnoticed.
`ShownWasAnswered` names the exceptions: two fields nobody assigns; six commands
that miss a check; and for all nine, the FM commands that check every result
included, a busy tuner, after which they print an older reply with a 0, and a
blind wait, after which they print what a tuner that is not done hands out.

### SineSwitch

`SetParams` is `snd_pcm_set_params`, which frees the ring and is refused while
the card is still at work; `WriteSome`, `WriteReturns`, `WriteStops`, `WriteFails`
are the one `snd_pcm_writei` of a tone with the recovery after it; `StartDrain`
and `Drain` are `snd_pcm_drain`; `NoMemory` is the unchecked `malloc`.  `Play`,
`Xrun` and `Suspend` are the card.  `hurt` names the tones during which something
happened; everything else is heard in full, and underruns alone never end the
program.

### DaemonScripts

A script is the list `todo` of the steps that are left of its command.
`start-stop-daemon` is BusyBox's: `-b` forks and returns, and the child writes the
pid file and executes the daemon later (`Exec`), which makes its socket later
still (`Listen`).  `-K` sends TERM and does not wait (`End` comes when it comes).
`overlap`, `clean` and `late` are history variables that name the cases in
which the scripts promise nothing.

### MixerScripts

A script is the list `commands` of what it still has to run; `set -e` empties it
at the first failure, and a script that calls others has their commands in its
own list.  `run` has the background programs by call; `BrokenPipe` is what the
kernel does to the other end of a pipeline.  The mixer is external.

## 3. Runs

Distinct states and time are of two workers on a laptop-class machine.

| run | instance | states | shows |
|---|---|---|---|
| `link` | 11 functions (one of every shape, which the module asserts), deadline of 1 tick, 3 calls | 388,024, 25 s | what a 0 means, whose reply is read, `TunerExchange` is implemented, every call returns |
| `firmware` | a one-chunk and a two-chunk image, 2 runs, all faults | 116,398, 6 s | which image runs, what success means, a retry is enough |
| `cli` | 3 processes, 5 commands | 456,896, 40 s | one process at a time, no line left, exit statuses, every process ends |
| `channels` | ring of 4 periods, 3 segments of 2, 8, 2 channels, 3 faults | 10,609, 1 s | no counted frame lost, no frame with the wrong layout |
| `sine` | 4 tones of 5 frames, ring of 2, 2 faults | 40,811, 2 s | undisturbed tones are heard in full, the program ends |
| `services` | up to 4 services of up to 2 components, room for 2 and the NULL, 3 calls | 145,582, 2 s | pointers, ownership, room, causes of heap errors |
| `data` | 2 events, 2 versions; a list of 3 and the 41 frequencies, 11 numerals; 9 commands, a busy tuner, 3 faults | 75,957, 55 s | which events are missed, numbers survive, whose answer is printed |
| `scripts` | 2 looks at the socket, 5 processes, 1 crash; 3 scripts, 2 faults | 223,254, 27 s | no orphan, the socket comes first, every command ends; no half-set loop, Enter ends it |
| `channels_phase`, `services_reuse`, `daemons_restart`, `mixer_linein` | the same modules, without faults but for `services_reuse` | | the disagreements of section 6 |

The inductive invariants (`IInv`, and for the two compositions `DataInv` and
`ScriptsInv`) are invariants of the runs.  Several safety properties are conjuncts or direct consequences of one, and theorems of their
own (section 5), so that no run lists them again: `TypeOK`, `OkMeansDone`,
`NoLateCommand`, `SuccessMeansRunning`, `NoLineLeft`, `BusyIsTold`,
`LayoutMatches`, `NominalSuccess`, `ErrorsAreCaused`, `ListIsCurrent`,
`NothingCut`, `UnderrunSurvived`.

Why the bounds are enough:

- *link.* A disturbance needs an earlier call whose command is still in the
  tuner, and a stale STCINT needs a tune before the tune: two calls.  The third
  lets an undisturbed call follow a disturbed one.  With a deadline of one tick
  a poll can come before, at and after it.  The proofs do not depend on either.
- *firmware.* The second run meets what the first left.  Images of 2 and 3
  bytes with payloads of 2 give an exactly full chunk and a short last chunk.
  The empty chunk that the `do`-`while` sends for an empty image is in the
  proofs, which hold for sizes from 0.
- *cli.* Two processes compete for the lines, the third meets what they left.
  The five commands have every combination of exchanges (0, 1, 2), reset, and
  dropped errors that the table has, and one name that is not in it.
- *channels.* A segment (11) is longer than the ring (8), as in the source, and
  ends in a short block.  Three faults allow an underrun in the middle of the
  recovery from another, in any segment.
- *services.* Two services are the least for which the second pointer depends
  on the first.  `service_list` has three slots, and a reply may claim up to
  four services (`ByteMax`): one list fits with its NULL, one fills the slot of
  the NULL, one goes beyond it.  Two component bits and two slots are equal, as
  15 and 15 are in the source.  `BufferSize` (27) is less than the longest list,
  and the sizes of a buffer that was not read to (`GarbageSizes`) are zero, one
  service, within and beyond it.  Three calls: one that fails, one that meets
  it, one after that.

- *sine.* Every format follows every other; a tone is longer than two rings, so
  that the card starts inside the write; the second fault meets what the first
  one left.
- *data, events.* One event that comes with a list and one that does not.  Two
  versions: one while the command runs, one after.
- *data, numbers.* The numerals are the edges of the checks and casts: in the
  list, its last, beyond it, beyond a byte, negative; in the FM band, one above;
  16 bits and one more; hexadecimal with and without `0x`, of a property the tuner has and of one it
  does not.
- *data, replies.* All nine commands; each may begin with a busy tuner, and has
  at most three calls of the bus, all of which may fail.
- *scripts.* Two looks at the socket are one that fails and the last; five
  processes are two starts of both daemons, or restarts of each; a crash leaves
  a stale socket or pid file.  Three scripts one after the other, of which the
  loops call two more; two faults can hit both ends of a pipeline.

`CHECK_DEADLOCK FALSE`, but in `data`, where commands go on for ever: the calls, runs and processes of an instance
are bounded, and a program that has ended stays so.

## 4. Fairness

| specification | assumed | why |
|---|---|---|
| `Si468xLink!Spec` | the process runs, the clock advances while it polls | a scheduled process and `CLOCK_MONOTONIC`; nothing is asked of the tuner |
| `FirmwareLoad!Spec` | the process runs | a call always ends (`CallReturns` of the link) |
| `DabonCli!Spec` | each process that was started runs | the kernel's scheduler |
| `ServiceList!Spec` | the call runs | as above |
| `ChannelSwitch!Spec` | the program runs, a started stream plays | the I2S clock; a stream is stopped by the card only through an underrun |
| `SineSwitch!Spec` | the program runs, a started stream plays | as above |
| `DaemonScripts!Spec` | the script runs | nothing is asked of the daemons: a start that waits for a socket gives up |
| `MixerScripts!Spec` | the script runs, a broken pipe ends its other end | the scheduler; SIGPIPE, which the kernel sends at the next write |

`DabEvents`, `TunerValues` and `TunerReplies` have no fairness: nothing of what is
said of them is about the future.  In `ChannelSwitch` underruns are finitely many (`MaxFaults`): `play_segment`
retries without limit, and a card that always runs dry keeps it there forever.

## 5. Proofs

Every theorem holds for all values of the constants under the named
assumptions.  TLC first checked each inductive invariant (`IInv` is an
invariant of the runs), then TLAPS proved it.  In each of these modules
`Inductive` (for the compositions `DataInductive` and `ScriptsInductive`) says
that it holds in every state, with one lemma per action below it.

### Si468xLinkProofs

Assumes `ApiAssumption` (the record of each function is well formed, and who
waits for STCINT also waits for CTS and starts a tune), `TimeoutAssumption` and
`MaxCallsAssumption` (natural numbers).  Hence for any function of these shapes,
any deadline, any number of calls.

Neither `OkMeansDone` nor `ReplyOwn` is inductive: they speak of a call that has
returned.  `IInv` follows the command through the call:

- `Fresh`: before the send everything the tuner knows is older than this call;
- `Owned`: after an undisturbed send the command is in the tuner, or finished;
- `Ready`: CTS in a status that was read is still true, since only this call
  sends;
- `Replied`: what was read after that is the reply;
- `Tuned`: a tune is in the command, running, or over with STCINT set.

`OkMeansDoneHolds`, `ReplyOwnHolds`, `TuneCompleteHolds`,
`ChipIdleAfterOkHolds` follow from it.  `ImplementsExchangeHolds` is the
refinement: every step maps to a step of `TunerExchange` or to a stutter, the
interesting ones being that a return of 0 without doubt has `done` and not
`busy` (`Deserved`, from `Owned` and `Ready`), and that the tuner, once it got
the command of the call in progress, finishes that one and no other
(`FinishPhase`, from `Fresh` and `Owned`).

### FirmwareLoadProofs

Assumes `ImagesAssumption` (two different images with sizes),
`PayloadAssumption` (a positive payload) and `BoundsAssumption`.  Hence for
images and payloads of any size, and any number of runs.

The invariant says that the tuner is where the loader thinks it is:

- `Blank`: between the two edges of the reset pulse the tuner is empty;
- `InStep`: at step `s` with `n` bytes sent the memory is `Loaded(s, n)`, before
  or after the command in execution;
- `BootsWanted`: neither the running program nor a pending BOOT is about
  anything but the wanted images;
- `NoLateCommand`, `SuccessMeansRunning`, `RetryRecovers` are inductive with
  these.

`BootsWanted` is needed because the process may be killed after it sent BOOT,
and `NoLateCommand` because it may be killed after it sent a chunk, which then
may be executed when the next run has already begun.

### DabonCliProofs

Assumes `NoProcAssumption`.  Any number of processes, any commands, including
unknown ones.  `Lines` (who holds which line is exactly a matter of where a
process is) gives `NoLineLeft` and, with `Owner`, `OneAtATime`; `InCommand` and
`Owner` carry `BusyIsTold`.  A process that believed a status it never read is
the third exception of `BusyIsTold`, after the errors that five commands drop;
without it TLC finds a counterexample.

### ServiceListProofs

Assumes `SizesAssumption` (natural numbers; sizes are positive) and
`FieldAssumption` (no more components than slots, which the four bits of the
field guarantee).  Nothing is assumed of the number of services.  Hence for
lists, arrays, buffers and numbers of calls of any size.  Where a service lies in a list is `SizeUpto`, a function defined by
recursion over the services before it; its equations are `SizeUptoDef`, and what
is needed of it (`SizeUptoNat`, `SizeUptoGrows`: services do not overlap) is shown
by least counterexample, with `LeastOf` from the well-foundedness of strict
inclusion on finite sets.  The invariant has `HeapOwned` (which block is whose at
each statement), `RawExplained` (a pointer to a freed list comes from a failed
call), `Progress` (the filled entries are the services so far) and
`ErrorsAreCaused`, for which `EndsInside` shows that the components of an intact
list end inside its block; `NoLeak`, `NoStalePointer` and `PointersIntoList` follow.

### ChannelSwitchProofs

Assumes `SizesAssumption`, `ScheduleAssumption`, `MaxFaultsAssumption`: segments,
periods and rings of any size, any sequence of channel counts.  `Stream` has the
state of the stream at each call, `Block` the block in work, `Accounts` where the
frames of the segment are (`CountedIsPlayedOrQueued` and, between a write and its
return, the part that is in the ring already), `Outcome` the exit statuses,
`Continuous` the phases in the ring.  `LayoutMatches` is in it because what is in
the ring must have the present channel count when the next one is set.
`SegmentContinuousHolds` is an action property and comes from `Continuous`.

### SineSwitchProofs

Assumes `SizesAssumption`: any number and length of tones, any ring.  `Handle`
has the state of the PCM at each statement, `Accounts` where the frames of the
tone are; `HeardInFull`, `NothingCut` and `UnderrunSurvived` are inductive with
them.

### TunerDataProofs

The three modules of `TunerData` and the operators of `ByteOrder`.  Assumes
`ListsAssumption` (frequencies of four bytes; at most 256 of them to start with,
at most 255 to set: their number is sent in a byte), `WidthsAssumption` (an ID
has four bytes and an FM frequency two), `LeftoverAssumption` (a refused command leaves two
bytes), `NumeralAssumption` (a numeral is a
sign, perhaps `0x`, and any digits) and `EventAssumption`.  Hence for every
frequency list, every number a user types, any set of events, any number of
versions and of faults.

*Operators.* For every 16-bit and 32-bit word, unpacking undoes packing
(`Word2OfBytes2`, `Word4OfBytes4`); the cast to `uint16_t` is the remainder, also
of a negative number (`CastWraps`); the fields of a service byte make up the byte
again, but for the top bit of the first (`FieldsOfService`).  `Value`, what
`sscanf` reads, is a recursive function; its equations are `ValueDef`, and what is
needed of it (`ValueInt`, `ValueOfZero`) is shown by least counterexample.

*Numbers.* `TunedAsListed`, `ReadBackAsSet` and `StartedOrZero` are inductive
only with `SetAsAsked`, which says of the registers what the properties say of
what is printed: what is in the tuner is what was asked for, but for the last
digit of an FM frequency and the bits above the sixteenth of a property.  That
an ID copied from the list starts service 0 is `Hex08IsZero`.

*Events.* `ReadIsRecent`, `SeenIsRecent`, `AboutToClear` and `SeenIsCleared` say
how what was read, shown and is still latched differ at each step;
`ListIsCurrent` is inductive with them, and the two action properties follow.

*Replies.* `Described`, proved of each of the nine commands, says that its
decoding assigns fields of its structure, from bits inside its reply, that fit
and are disjoint but for `pi` and `rdsfifoused`.  `StackOrDecoded` carries that to
the states, and `EachBitOnce` follows.  `Owned` says whose command the tuner
executes and whose reply it has at each step of the exchange: the command's own,
unless it was lost or the tuner was busy, and finished after the wait unless the
wait was blind.  With it `DecodedBeforePrint` follows each disturbance through
the command to the print, which is `ShownWasAnswered`.

### ShellScriptsProofs

No assumption: for any number of looks at the socket, processes, crashes, calls
and faults.

*Daemons.* `InOrder` is what a command has left to do, by what may follow what;
it makes the other parts local to one step.

- `OneOfEach`: a child that has not written its pid is not in a pid file and,
  without an overlap, is alone: this is why `Exec` may overwrite the file;
- `ToldToEnd`: when a pid file is removed, nobody is left whom it should name;
- `NoOrphan` is inductive with these;
- `OnlyNewest`: after a clean launch the only pipewire is the newest, and the
  socket, if there is one, is its own.  At the launch of wireplumber it is there:
  `SocketFirst`;
- `LateIsStopped`: who still waits, or is about to launch wireplumber, has a
  pipewire of its own; one that was given up before is ending or gone:
  `LateIsStuck`.

*Mixer.* `RestOfScript`: the commands are the rest of the script, and with
`set -e` the controls before them have their values.  It is inductive because
every script sets a control once, and `SetBeforeLoop` follows because the scripts
that start programs have `set -e` and set first; both are `Careful`, proved of
each script, of `aloop` and `test-loop-line-out-line-in` with the scripts they
call (`SetsOfTwo`, `SetsBeforeRest`).

### Only model-checked

All liveness (`CallReturns`, `StartReturns`, `Ends`, `Finishes`, `CommandEnds`,
`LoopEnds`): fairness is out of the prover's reach.  Every safety invariant and
action property of the passing runs is a theorem.

## 6. Where texts and code disagree

Each is the single property of a run that TLC finds violated.

| run | text | what happens |
|---|---|---|
| `services_reuse` | "clear all data from the input structure", `si468x_ext.c:71` | the list is freed at line 79 and the pointer stays; a failing exchange hands the structure back with it, and the next call frees it again |
| `channels_phase` | "phase-continuous across segment boundaries", `change_channel.c:171` | `snd_pcm_drop` discards rendered frames; the phase jumps by up to a ring buffer |
| `daemons_restart` | "WirePlumber needs the pipewire socket to be up before it connects", `S95pipewire:32` | `restart` does not wait for the old pipewire; its socket ends the wait, and wireplumber is launched before the new one is there |
| `mixer_linein` | "Valid options are: "off", "line-in" or "dac"", `headphone:19` | `[ $USE_DAC ]` is true for "0" as well: the DAC is selected |

In the trace of `daemons_restart` the start before the restart may have given up
on the socket; that changes nothing about the restart.

`dabon-cli` itself calls `si468x_dab_get_service_list` once, on a zeroed
structure, and does not meet the first one; `ErrorsAreCaused` states this.

Others that were met while modelling, without a run of their own:

- `change_channel.c:214` "retry the same block": the loop renders a new block,
  from a phase the lost one has advanced.
- `change_channel.c:174` "takes exactly 'seconds' of real time": the segment
  returns with up to a ring buffer unplayed.
- `test-loop-line-out-line-in:52` "Press enter to stop the test": when
  `speaker-test` has ended before, its `kill` fails and `set -e` ends the script
  with `arecord` running.
- `si468x_ext.c:14` "wait for 50ms": `usleep(5000)`.
- `si468x_common.c:170` "up to 4096 bytes": chunks are of 2048.
- `capture:19` sets 'AUDIN FIFO0 SRC SEL', `S90alsaconf:9` 'TODDR0 SRC SEL', for
  the same purpose.
- `si468x_fm.c:128-129`: byte 6 of the RDS reply is the high byte of `pi` and
  `rdsfifoused`.  `EachBitOnce` excepts it.

## 7. What is not modelled

- *`automount.sh`*: two commands without a state of their own.  What can go
  wrong (a name that is used again, a disk that is still in use) is decided by
  udev and the kernel, of which nothing is in the repository.
- *`radio_test`, `radio_start_fm`*: sequences of `dabon-cli` calls; what they rely
  on is in `DabonCli` and `Si468xLink`.
- *`si468x_get_sys_state`* beyond its shape: it tests the wrong byte
  (`si468x_common.c:270`), and nothing calls it.
- *SPI settings* (`si468x_platform.c:43`): they do not change the order of steps.
- *Delays* (`usleep`): nothing relies on their length but the tuner.
- *The layout of what is printed*, and names and labels of services.
- *The dashboard*: only its package recipe is in the repository.
- *Boot script, device tree, build recipes, Docker and CI files*: declarative
  data, or nothing that runs in the product.

## 8. Plan

Built, in this order: `TunerExchange`, `Si468xApi`, `Si468xLink`,
`FirmwareLoad`, `DabonCli`, `ChannelSwitch`, `ServiceList` and the proofs of the
first three components; then `ShellCommands`, `DabEvents`, `ByteOrder`,
`TunerValues`, `TunerReplies`, `SineSwitch`, `DaemonScripts`, `MixerScripts` and
the proofs for `ServiceList`, `ChannelSwitch` and `SineSwitch`; then `TunerData`,
`ShellScripts` and their proofs.

Left:

1. A refinement between the scales: an exchange of `FirmwareLoad` and of
   `DabonCli` as a call of `TunerExchange`.  Both begin the next exchange in the
   step that ends the last one, where the contract has two steps, and forget
   whether a command was dropped: they need a contract of coarser steps and a
   history of the doubts.
