--------------------------- MODULE ChannelSwitch ---------------------------
(***************************************************************************)
(* alsa-tests change_channel: play a sine in segments, change the channel  *)
(* count between them, never close the PCM.  Two actors share the PCM: the *)
(* program, which renders blocks and writes them, and the sound card, which*)
(* plays the ring buffer and runs dry (XRUN) when the program is late.     *)
(* alsa-lib and the driver are external, modelled from what the program    *)
(* relies on.  The phase of the sine is counted in steps, one per rendered *)
(* frame, so that it tells every frame of a run from every other one.      *)
(***************************************************************************)
EXTENDS Integers, Sequences

CONSTANTS
  Period,    \* PERIOD_FRAMES
  Buffer,    \* PERIOD_FRAMES * PERIODS_PER_BUF
  Total,     \* total_frames of a segment
  Schedule,  \* channel counts of the segments
  MaxFaults  \* bound on the underruns and failing calls of a run

ASSUME SizesAssumption ==
  /\ Period \in Nat \ {0} /\ Total \in Nat /\ Buffer \in Nat
  /\ Period <= Buffer
ASSUME ScheduleAssumption == Schedule \in Seq(Nat) /\ Schedule # <<>>
ASSUME MaxFaultsAssumption == MaxFaults \in Nat

VARIABLES
  (* the program *)
  pc,           \* the call it is at
  seg,          \* segment
  frames_done,  \* frames of the segment the driver has accepted
  phase,        \* phase_accum, shared by all segments
  block,        \* the rendered block in buf: its first phase, length, channels
  put,          \* frames of it that the running snd_pcm_writei has copied
  again,        \* a write failed and the stream was recovered
  result,       \* exit status
  (* the PCM *)
  state,        \* of the stream
  channels,     \* configured channel count
  ring,         \* frames in the ring buffer
  last,         \* phase of the last frame the card played, -1 before it
  heard,        \* frames the card played of this segment
  faults        \* faults so far

prog == <<pc, seg, frames_done, phase, block, put, again, result>>
card == <<state, channels, ring, last, heard, faults>>
vars == <<pc, seg, frames_done, phase, block, put, again, result,
          state, channels, ring, last, heard, faults>>

NoBlock == [from |-> 0, len |-> 0, ch |-> 0]

Init ==
  /\ pc = "open" /\ seg = 1 /\ frames_done = 0 /\ phase = 0
  /\ block = NoBlock /\ put = 0 /\ again = FALSE /\ result = "none"
  /\ state = "CLOSED" /\ channels = 0 /\ ring = <<>>
  /\ last = -1 /\ heard = 0 /\ faults = 0

Fault == faults < MaxFaults /\ faults' = faults + 1

-----------------------------------------------------------------------------
(* The program. *)

\* A call of alsa-lib fails, or the malloc of play_segment does: main closes
\* the PCM, if it is open, and returns EXIT_FAILURE.
CallFails ==
  /\ \/ pc \in {"open", "params", "prepare", "recover", "drop", "refine"}
     \/ pc = "loop" /\ frames_done = 0 /\ ~again
  /\ Fault
  /\ pc' = IF pc = "open" THEN "gone" ELSE "close"
  /\ result' = "failure"
  /\ UNCHANGED <<seg, frames_done, phase, block, put, again,
                 state, channels, ring, last, heard>>

Open ==
  /\ pc = "open"
  /\ pc' = "params" /\ state' = "OPEN"
  /\ UNCHANGED <<seg, frames_done, phase, block, put, again, result,
                 channels, ring, last, heard, faults>>

\* initial_hw_params.
InitialHwParams ==
  /\ pc = "params"
  /\ pc' = "prepare" /\ state' = "SETUP" /\ channels' = Schedule[1]
  /\ UNCHANGED <<seg, frames_done, phase, block, put, again, result,
                 ring, last, heard, faults>>

\* snd_pcm_prepare, in main and in switch_channels.
Prepare ==
  /\ pc = "prepare"
  /\ pc' = "loop" /\ state' = "PREPARED" /\ ring' = <<>>
  /\ UNCHANGED <<seg, frames_done, phase, block, put, again, result,
                 channels, last, heard, faults>>

BlockLen == IF Total - frames_done < Period THEN Total - frames_done
            ELSE Period

\* Mutated form: phase_accum is passed by value.
FillPeriod_local ==
  /\ pc = "loop" /\ frames_done < Total
  /\ pc' = "write" /\ put' = 0 /\ again' = FALSE
  /\ block' = [from |-> phase, len |-> BlockLen, ch |-> Schedule[seg]]
  /\ UNCHANGED <<seg, frames_done, phase, result, card>>

\* The head of the loop in play_segment, and fill_period.
FillPeriod ==
  /\ pc = "loop" /\ frames_done < Total
  /\ pc' = "write" /\ put' = 0 /\ again' = FALSE
  /\ block' = [from |-> phase, len |-> BlockLen, ch |-> Schedule[seg]]
  /\ phase' = phase + BlockLen
  /\ UNCHANGED <<seg, frames_done, result, card>>

\* play_segment returns, and main goes on with the next segment.
SegmentOver ==
  /\ pc = "loop" /\ frames_done >= Total
  /\ IF seg < Len(Schedule)
     THEN pc' = "drop" /\ seg' = seg + 1 /\ frames_done' = 0
     ELSE pc' = "drain" /\ UNCHANGED <<seg, frames_done>>
  /\ UNCHANGED <<phase, block, put, again, result, card>>

\* The frames n + 1 .. m of the block.
Frames(n, m) ==
  [i \in 1 .. m - n |-> [at |-> block.from + n + i - 1, ch |-> block.ch]]

Smaller(a, b) == IF a < b THEN a ELSE b

\* Mutated form: the stream is not started before the program says so.
StartThreshold_never == Buffer + 1
\* snd_pcm_sw_params_set_start_threshold.
StartThreshold == Period

\* Inside snd_pcm_writei: what fits is copied, and the stream is started when
\* the threshold is reached.  It blocks when nothing fits.
WriteSome ==
  /\ pc = "write" /\ put < block.len
  /\ state \in {"PREPARED", "RUNNING"} /\ Len(ring) < Buffer
  /\ put' = put + Smaller(block.len - put, Buffer - Len(ring))
  /\ ring' = ring \o Frames(put, put')
  /\ state' = IF Len(ring') >= StartThreshold THEN "RUNNING" ELSE state
  /\ UNCHANGED <<pc, seg, frames_done, phase, block, again, result,
                 channels, last, heard, faults>>

\* Mutated form: a short write counts as a whole one.
WriteReturns_whole ==
  /\ pc = "write"
  /\ put = block.len \/ (state = "XRUN" /\ put > 0)
  /\ pc' = "loop" /\ frames_done' = frames_done + block.len
  /\ UNCHANGED <<seg, phase, block, put, again, result, card>>

\* It returns the number of frames that it copied: all of them, or the ones
\* it had copied when the card ran dry.
WriteReturns ==
  /\ pc = "write"
  /\ put = block.len \/ (state = "XRUN" /\ put > 0)
  /\ pc' = "loop" /\ frames_done' = frames_done + put
  /\ UNCHANGED <<seg, phase, block, put, again, result, card>>

\* It has copied nothing and returns -EPIPE.
WriteFails ==
  /\ pc = "write" /\ put = 0 /\ state = "XRUN"
  /\ pc' = "recover"
  /\ UNCHANGED <<seg, frames_done, phase, block, put, again, result, card>>

\* snd_pcm_recover, and continue.
Recover ==
  /\ pc = "recover"
  /\ pc' = "loop" /\ again' = TRUE
  /\ state' = "PREPARED" /\ ring' = <<>>
  /\ UNCHANGED <<seg, frames_done, phase, block, put, result,
                 channels, last, heard, faults>>

\* Mutated form: the stream is not stopped before the switch.
Drop_not == pc = "drop" /\ pc' = "refine" /\ UNCHANGED <<seg, frames_done,
              phase, block, put, again, result, card>>

\* snd_pcm_drop.
Drop ==
  /\ pc = "drop"
  /\ pc' = "refine" /\ state' = "SETUP" /\ ring' = <<>> /\ heard' = 0
  /\ UNCHANGED <<seg, frames_done, phase, block, put, again, result,
                 channels, last, faults>>

\* refine_hw_params: a stream that is not stopped refuses.
Refine ==
  /\ pc = "refine"
  /\ IF state = "SETUP"
     THEN pc' = "prepare" /\ channels' = Schedule[seg] /\ UNCHANGED result
     ELSE pc' = "close" /\ result' = "failure" /\ UNCHANGED channels
  /\ UNCHANGED <<seg, frames_done, phase, block, put, again,
                 state, ring, last, heard, faults>>

\* Mutated form: the PCM is closed without snd_pcm_drain.
Drain_not ==
  /\ pc = "drain"
  /\ pc' = "close" /\ result' = "success"
  /\ UNCHANGED <<seg, frames_done, phase, block, put, again, card>>

\* snd_pcm_drain starts a stream that waits for its threshold and blocks
\* until the ring is empty.  Its result is not looked at.
Drain ==
  /\ pc = "drain"
  /\ IF ring # <<>>
     THEN state' = "DRAINING" /\ state # "DRAINING" /\ UNCHANGED <<pc, result>>
     ELSE pc' = "close" /\ result' = "success" /\ state' = "SETUP"
  /\ UNCHANGED <<seg, frames_done, phase, block, put, again,
                 channels, ring, last, heard, faults>>

\* snd_pcm_close throws away what is left in the ring.
Close ==
  /\ pc = "close"
  /\ pc' = "gone" /\ state' = "CLOSED" /\ ring' = <<>>
  /\ UNCHANGED <<seg, frames_done, phase, block, put, again, result,
                 channels, last, heard, faults>>

-----------------------------------------------------------------------------
(* The card. *)

Play ==
  /\ state \in {"RUNNING", "DRAINING"} /\ ring # <<>>
  /\ ring' = Tail(ring) /\ last' = Head(ring).at
  /\ heard' = heard + 1
  /\ UNCHANGED <<prog, state, channels, faults>>

Xrun ==
  /\ state = "RUNNING" /\ ring = <<>>
  /\ Fault
  /\ state' = "XRUN"
  /\ UNCHANGED <<prog, channels, ring, last, heard>>

-----------------------------------------------------------------------------
ProgStep ==
  \/ Open \/ InitialHwParams \/ Prepare
  \/ FillPeriod \/ SegmentOver
  \/ WriteSome \/ WriteReturns \/ WriteFails \/ Recover
  \/ Drop \/ Refine \/ Drain \/ Close

Next == ProgStep \/ CallFails \/ Play \/ Xrun

\* The program runs and the card plays.  MaxFaults says that underruns end:
\* play_segment retries for as long as they go on.
Fairness == WF_vars(ProgStep) /\ WF_vars(Play)

Spec == Init /\ [][Next]_vars /\ Fairness

-----------------------------------------------------------------------------
TypeOK ==
  /\ pc \in {"open", "params", "prepare", "loop", "write", "recover", "drop",
             "refine", "drain", "close", "gone"}
  /\ seg \in 1 .. Len(Schedule)
  /\ frames_done \in 0 .. Total
  /\ phase \in Nat
  /\ block \in [from : Nat, len : 0 .. Period, ch : Nat]
  /\ put \in 0 .. block.len /\ again \in BOOLEAN
  /\ result \in {"none", "success", "failure"}
  /\ state \in {"CLOSED", "OPEN", "SETUP", "PREPARED", "RUNNING", "XRUN",
                "DRAINING"}
  /\ channels \in Nat
  /\ ring \in Seq([at : Nat, ch : Nat]) /\ Len(ring) <= Buffer
  /\ last \in Nat \union {-1} /\ heard \in 0 .. Total
  /\ faults \in 0 .. MaxFaults

\* Every frame in the ring was rendered for the channel count that the card
\* plays it with: the ring is emptied before the count changes, and nothing
\* is written before the change is through (switch_channels).
LayoutMatches == \A i \in 1 .. Len(ring) : ring[i].ch = channels

\* While a segment is played, what play_segment counts as done was played or
\* is going to be: short writes, underruns and recoveries lose no frame that
\* was counted and count none twice.
CountedIsPlayedOrQueued ==
  pc \in {"loop", "write", "recover", "drain"} =>
    heard + Len(ring) = frames_done + (IF pc = "write" THEN put ELSE 0)

\* An exit with success means that the card played the whole last segment,
\* underruns or not (snd_pcm_drain before snd_pcm_close).
LastSegmentHeard == pc = "gone" /\ result = "success" => heard = Total

\* As long as nothing fails the program succeeds: the order of drop, refine
\* and prepare is one that alsa-lib accepts in every state of the stream.
NominalSuccess == pc = "gone" /\ faults = 0 => result = "success"

\* Without faults the card plays one continuous sine within a segment.
SegmentContinuous ==
  [][last' # last /\ faults = 0 /\ heard > 0 => last' = last + 1]_vars

\* Every run ends.
Finishes == <>(pc = "gone")

-----------------------------------------------------------------------------
(* What every step preserves, and the safety properties follow from.       *)

\* The phase of the next frame that reaches the ring.
Pending == IF pc = "write" THEN block.from + put ELSE phase

\* What the state of the stream is at each call, and the channel count.
Stream ==
  /\ pc \in {"open", "params", "prepare", "refine"} =>
       ring = <<>> /\ heard = 0 /\ frames_done = 0
  /\ pc \in {"open", "params"} => seg = 1
  /\ pc \in {"prepare", "refine"} => state = "SETUP"
  /\ pc = "recover" => state = "XRUN"
  /\ state = "XRUN" => ring = <<>> /\ faults > 0
  /\ pc \in {"prepare", "loop", "write", "recover"} =>
       channels = Schedule[seg]

\* The block fits into the rest of the segment.
Block ==
  pc = "write" =>
    /\ block.len > 0 /\ frames_done + block.len <= Total
    /\ block.ch = Schedule[seg] /\ phase = block.from + block.len

\* No frame is lost or heard twice, and none is left after a success.
Accounts ==
  /\ CountedIsPlayedOrQueued
  /\ heard + Len(ring) <= Total
  /\ pc = "drop" => frames_done = 0
  /\ pc = "drain" => frames_done = Total

Outcome ==
  /\ pc \in {"close", "gone"} <=> result # "none"
  /\ result = "success" => heard = Total /\ ring = <<>>
  /\ result = "failure" => faults > 0

\* Without faults the frames in the ring are the ones rendered last, one
\* after the other, and follow the frame the card played last.
Continuous ==
  faults = 0 =>
    /\ \A i \in 1 .. Len(ring) : ring[i].at = Pending - Len(ring) + i - 1
    /\ heard > 0 => last = Pending - Len(ring) - 1

\* The inductive invariant.
IInv ==
  TypeOK /\ LayoutMatches /\ Stream /\ Block /\ Accounts /\ Outcome
    /\ Continuous

-----------------------------------------------------------------------------
(***************************************************************************)
(* What comments of the program say, and the program does not do.          *)
(***************************************************************************)
\* "the waveform is phase-continuous across segment boundaries": what
\* snd_pcm_drop throws away was rendered, and its phase is skipped.
PhaseContinuous == [][last' # last => last' = last + 1]_vars
=============================================================================
