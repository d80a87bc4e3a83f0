----------------------------- MODULE SineSwitch -----------------------------
(***************************************************************************)
(* sine_switch: four tones, of 16 and of 24 bits in turn, on one PCM       *)
(* handle that is never closed in between.  A tone is written with one     *)
(* snd_pcm_writei, drained, and the handle configured anew in place.  The  *)
(* sound card (external) plays the ring it shares with the program, runs   *)
(* dry when the program is late, and may be suspended.                     *)
(***************************************************************************)
EXTENDS Naturals

CONSTANTS
  Tones,     \* number of tones
  Frames,    \* of a tone; RATE * DURATION in the source
  Ring,      \* frames the ring holds, which is also the start threshold
  MaxFaults  \* bound on the faults, underruns aside

ASSUME SizesAssumption ==
  /\ {Tones, Frames, Ring} \subseteq Nat \ {0} /\ MaxFaults \in Nat

VARIABLES
  pc,     \* "open", "params", "write", "drain", "close" or "exit"
  tone,   \* the one it is at
  todo,   \* frames of it that are not in the ring yet
  code,   \* exit status
  (* the card *)
  pcm,    \* state of the handle
  ring,   \* frames in the ring
  heard,  \* frames played of each tone
  (* for the properties only *)
  faults, \* calls that failed, and suspends
  hurt    \* the tones during which one of these or an underrun happened

vars == <<pc, tone, todo, code, pcm, ring, heard, faults, hurt>>

Tone == 1 .. Tones

Init ==
  /\ pc = "open" /\ tone = 1 /\ todo = 0 /\ code = "none"
  /\ pcm = "closed" /\ ring = 0
  /\ heard = [t \in Tone |-> 0]
  /\ faults = 0 /\ hurt = {}

Fault ==
  /\ faults < MaxFaults
  /\ faults' = faults + 1 /\ hurt' = hurt \union {tone}

\* exit(1), or a crash: the kernel closes the handle.
Die(c) ==
  /\ pc' = "exit" /\ code' = c
  /\ pcm' = "closed" /\ ring' = 0
  /\ UNCHANGED <<tone, todo, heard>>

Open ==
  /\ pc = "open"
  /\ \/ /\ pc' = "params" /\ pcm' = "open"
        /\ UNCHANGED <<tone, todo, code, ring, heard, faults, hurt>>
     \/ Fault /\ Die("err")

\* snd_pcm_set_params frees the ring; it is refused while the card is still
\* at work on the tone before.
SetParams ==
  /\ pc = "params" /\ pcm \in {"open", "setup", "prepared"}
  /\ pc' = "write"
  /\ todo' = Frames
  /\ pcm' = "prepared" /\ ring' = 0
  /\ UNCHANGED <<tone, code, heard, faults, hurt>>

SetParamsFails ==
  /\ pc = "params"
  /\ \/ pcm \notin {"open", "setup", "prepared"} /\ UNCHANGED <<faults, hurt>>
     \/ Fault
  /\ Die("err")

\* malloc has returned NULL, which nobody looks at.
NoMemory ==
  /\ pc = "write" /\ todo = Frames
  /\ Fault /\ Die("crash")

\* snd_pcm_writei, which starts the card when the ring is full.
WriteSome ==
  /\ pc = "write" /\ pcm \in {"prepared", "running"}
  /\ todo > 0 /\ ring < Ring
  /\ todo' = todo - 1 /\ ring' = ring + 1
  /\ pcm' = IF ring' = Ring THEN "running" ELSE pcm
  /\ UNCHANGED <<pc, tone, code, heard, faults, hurt>>

\* Mutated form: one frame too few is written.
WriteReturns_early ==
  /\ pc = "write" /\ todo = 1
  /\ pc' = "drain"
  /\ UNCHANGED <<tone, todo, code, pcm, ring, heard, faults, hurt>>

WriteReturns ==
  /\ pc = "write" /\ todo = 0
  /\ pc' = "drain"
  /\ UNCHANGED <<tone, todo, code, pcm, ring, heard, faults, hurt>>

\* Mutated form: the write is repeated without a recovery.
WriteStops_retry ==
  /\ pc = "write" /\ pcm \in {"xrun", "suspended"}
  /\ UNCHANGED vars

\* The card has stopped.  What was written counts as the whole tone, and if
\* it is nothing, snd_pcm_recover makes good for it; either way the rest of
\* the tone is given up.
WriteStops ==
  /\ pc = "write" /\ pcm \in {"xrun", "suspended"}
  /\ pc' = "drain"
  /\ UNCHANGED <<tone, todo, code, pcm, ring, heard, faults, hurt>>

\* An error that snd_pcm_recover does not know; it is reported if it is the
\* first thing that happens.
WriteFails ==
  /\ pc = "write"
  /\ Fault
  /\ IF todo = Frames
     THEN Die("err")
     ELSE pc' = "drain" /\ UNCHANGED <<tone, todo, code, pcm, ring, heard>>

\* snd_pcm_drain starts what has not started.
StartDrain ==
  /\ pc = "drain"
  /\ pcm = "running" \/ (pcm = "prepared" /\ ring > 0)
  /\ pcm' = "draining"
  /\ UNCHANGED <<pc, tone, todo, code, ring, heard, faults, hurt>>

\* Mutated form: the result is looked at.
Drain_checked ==
  /\ pc = "drain"
  /\ \/ /\ pcm \in {"prepared", "draining"} /\ ring = 0 /\ pcm' = "setup"
        /\ IF tone < Tones
           THEN pc' = "params" /\ tone' = tone + 1
           ELSE pc' = "close" /\ UNCHANGED tone
        /\ UNCHANGED <<todo, code, ring, heard>>
     \/ pcm \in {"xrun", "suspended"} /\ Die("err")
  /\ UNCHANGED <<faults, hurt>>

\* It returns when the ring is empty or the card has stopped; its result is
\* not looked at, and play returns.
Drain ==
  /\ pc = "drain"
  /\ \/ pcm \in {"prepared", "draining"} /\ ring = 0 /\ pcm' = "setup"
     \/ pcm = "xrun" /\ pcm' = "setup"
     \/ pcm = "suspended" /\ UNCHANGED pcm
  /\ IF tone < Tones
     THEN pc' = "params" /\ tone' = tone + 1
     ELSE pc' = "close" /\ UNCHANGED tone
  /\ UNCHANGED <<todo, code, ring, heard, faults, hurt>>

Close ==
  /\ pc = "close"
  /\ Die("ok")
  /\ UNCHANGED <<faults, hurt>>

\* The card plays a frame.
Play ==
  /\ pcm \in {"running", "draining"} /\ ring > 0
  /\ ring' = ring - 1
  /\ heard' = [heard EXCEPT ![tone] = @ + 1]
  /\ UNCHANGED <<pc, tone, todo, code, pcm, faults, hurt>>

\* Nothing is left to play: an underrun, which costs nothing any more when
\* the whole tone has been written.
Xrun ==
  /\ pcm = "running" /\ ring = 0
  /\ pcm' = "xrun"
  /\ hurt' = IF todo > 0 THEN hurt \union {tone} ELSE hurt
  /\ UNCHANGED <<pc, tone, todo, code, ring, heard, faults>>

Suspend ==
  /\ pcm \in {"running", "draining"}
  /\ Fault
  /\ pcm' = "suspended"
  /\ UNCHANGED <<pc, tone, todo, code, ring, heard>>

Program ==
  \/ Open \/ SetParams \/ SetParamsFails \/ WriteSome \/ WriteReturns
  \/ WriteStops \/ StartDrain \/ Drain \/ Close
Trouble == NoMemory \/ WriteFails \/ Suspend
Next == Program \/ Trouble \/ Play \/ Xrun

\* The program runs, and a card that runs plays.
Spec == Init /\ [][Next]_vars /\ WF_vars(Program) /\ WF_vars(Play)

-----------------------------------------------------------------------------
TypeOK ==
  /\ pc \in {"open", "params", "write", "drain", "close", "exit"}
  /\ tone \in Tone /\ todo \in 0 .. Frames
  /\ code \in {"none", "ok", "err", "crash"}
  /\ pcm \in {"closed", "open", "setup", "prepared", "running", "draining",
              "xrun", "suspended"}
  /\ ring \in 0 .. Ring
  /\ heard \in [Tone -> 0 .. Frames]
  /\ faults \in 0 .. MaxFaults /\ hurt \subseteq Tone

Past(t) == t < tone \/ code = "ok"

\* A tone is heard to its last frame before the handle is configured for the
\* next one or closed, unless something happened during it: the exit status
\* says nothing about that.
HeardInFull == \A t \in Tone : Past(t) /\ t \notin hurt => heard[t] = Frames

\* The card is never configured anew while frames of the tone before are in
\* the ring, even after a fault: reconfiguring in place does not cut a tone.
NothingCut ==
  pc = "params" /\ pcm # "suspended" => ring = 0

\* However often the card runs dry, the program gets to its last tone:
\* it fails only if a call failed or the card was suspended.
UnderrunSurvived == code \in {"err", "crash"} => faults > 0

-----------------------------------------------------------------------------
(* What every step preserves, and the three properties follow from.        *)

\* What the card may be doing at each statement.
Handle ==
  /\ pc = "open" => pcm = "closed"
  /\ pc \in {"params", "close"} => pcm \in {"open", "setup", "suspended"}
  /\ pc = "write" => pcm \in {"prepared", "running", "xrun", "suspended"}
  /\ pc = "drain" =>
       pcm \in {"prepared", "running", "draining", "xrun", "suspended"}
  /\ pc = "exit" => pcm = "closed"
  /\ pcm \in {"closed", "open", "setup", "xrun"} => ring = 0
  /\ pcm = "suspended" => faults > 0

\* Where the frames of the present tone are, and that none of the ones to
\* come has been heard.
Accounts ==
  /\ \A t \in Tone : t > tone => heard[t] = 0
  /\ pc \in {"open", "params"} => heard[tone] = 0
  /\ pc \in {"write", "drain"} => heard[tone] + ring + todo <= Frames
  /\ pc \in {"write", "drain"} /\ tone \notin hurt =>
       /\ heard[tone] + ring + todo = Frames
       /\ pcm # "suspended"
       /\ pc = "drain" \/ pcm = "xrun" => todo = 0
  /\ pc = "close" =>
       tone = Tones /\ (tone \notin hurt => heard[tone] = Frames)
  /\ code = "ok" =>
       tone = Tones /\ (tone \notin hurt => heard[tone] = Frames)
  /\ pc = "exit" <=> code # "none"

\* The inductive invariant.
IInv ==
  TypeOK /\ Handle /\ Accounts /\ HeardInFull /\ NothingCut
    /\ UnderrunSurvived

-----------------------------------------------------------------------------
\* The program ends.
Ends == <>(pc = "exit")
=============================================================================
