---------------------------- MODULE MixerScripts ----------------------------
(***************************************************************************)
(* The shell scripts that set the mixer (headphone, capture, line-out, the *)
(* boot script S90alsaconf) and the two that loop the line input to an     *)
(* output until Enter is pressed (aloop, test-loop-line-out-line-in).  A   *)
(* script is the list of the commands it has still to run; "set -e" ends   *)
(* it at the first that fails.  The mixer, the players and recorders and   *)
(* the user are external.                                                  *)
(***************************************************************************)
EXTENDS Naturals, Sequences

CONSTANTS
  MaxCalls,  \* bound on the scripts that are run, a natural
  MaxFaults  \* bound on the commands and programs that fail, a natural

VARIABLES
  call,     \* the script that runs, or ran last, and its argument
  commands, \* those it has still to run
  code,     \* exit status of the one that ran last
  mixer,    \* value of every control
  run,      \* the audio programs that run: <<call number, program>>
  enter,    \* read returned a line in this call
  calls, faults

vars == <<call, commands, code, mixer, run, enter, calls, faults>>

Controls == {"Headphone", "Headphone volume", "Headphone Mux", "Lineout",
             "Capture Switch", "Capture Mux", "AUDIN FIFO0 SRC SEL",
             "TODDR0 SRC SEL"}

(* The scripts. *)

Set(control, value) == [do |-> "set", what |-> control, to |-> value]
Spawn(program) == [do |-> "spawn", what |-> program, to |-> ""]
Kill(program) == [do |-> "kill", what |-> program, to |-> ""]
Read == [do |-> "read", what |-> "", to |-> ""]

UseDac(arg) == IF arg = "line-in" THEN "0" ELSE "1"

\* [ $USE_DAC ] asks whether the text is empty.
headphone(arg) ==
  IF arg = "off" THEN <<Set("Headphone", "off")>>
  ELSE <<Set("Headphone", "on"), Set("Headphone volume", "90"),
         Set("Headphone Mux", IF UseDac(arg) # "" THEN "DAC" ELSE "LINE_IN")>>

capture(arg) ==
  <<Set("Capture Switch", arg), Set("Capture Mux", "LINE_IN"),
    Set("AUDIN FIFO0 SRC SEL", "I2S")>>

line_out(arg) == <<Set("Lineout", arg)>>

S90alsaconf ==
  <<Set("Capture Switch", "on"), Set("Capture Mux", "LINE_IN"),
    Set("TODDR0 SRC SEL", "I2S"), Set("Headphone Mux", "DAC"),
    Set("Headphone", "on"), Set("Headphone volume", "90")>>

\* Mutated form: the pipeline is not ended.
aloop_nokill ==
  headphone("dac") \o capture("on")
    \o <<Spawn("arecord | aplay"), Read>>

\* $! is the last program of the pipeline.
aloop ==
  headphone("dac") \o capture("on")
    \o <<Spawn("arecord | aplay"), Read, Kill("aplay")>>

test_loop ==
  line_out("on") \o capture("on")
    \o <<Spawn("speaker-test"), Spawn("arecord"), Read,
         Kill("speaker-test"), Kill("arecord")>>

Script(c) ==
  CASE c[1] = "headphone"   -> headphone(c[2])
    [] c[1] = "capture"     -> capture(c[2])
    [] c[1] = "line-out"    -> line_out(c[2])
    [] c[1] = "S90alsaconf" -> S90alsaconf
    [] c[1] = "aloop"       -> aloop
    [] c[1] = "test-loop"   -> test_loop

Calls ==
  {<<"headphone", a>> : a \in {"line-in", "dac", "off"}}
    \union {"capture", "line-out"} \X {"on", "off"}
    \union {"S90alsaconf", "aloop", "test-loop"} \X {""}

\* Mutated form: no script has set -e.
SetE_none(c) == FALSE

SetE(c) == c[1] # "S90alsaconf"

Pipe == {"pipe arecord", "aplay"}

Programs(p) == IF p = "arecord | aplay" THEN Pipe ELSE {p}

Init ==
  /\ call = <<"none", "">> /\ commands = <<>> /\ code = 0
  /\ mixer = [c \in Controls |-> "unknown"]
  /\ run = {} /\ enter = FALSE /\ calls = 0 /\ faults = 0

\* An argument, rate or format that is not valid is told and ends the call.
Usage ==
  /\ commands = <<>> /\ calls < MaxCalls
  /\ calls' = calls + 1 /\ code' = 1
  /\ call' = <<"none", "">> /\ enter' = FALSE
  /\ UNCHANGED <<commands, mixer, run, faults>>

Begin(c) ==
  /\ commands = <<>> /\ calls < MaxCalls
  /\ call' = c /\ commands' = Script(c) /\ code' = 0
  /\ calls' = calls + 1 /\ enter' = FALSE
  /\ UNCHANGED <<mixer, run, faults>>

Doing(what) == commands # <<>> /\ Head(commands).do = what

Done == commands' = Tail(commands) /\ code' = 0 /\ UNCHANGED <<call, calls>>

Failed ==
  /\ commands' = IF SetE(call) THEN <<>> ELSE Tail(commands)
  /\ code' = 1 /\ UNCHANGED <<call, calls>>

Amixer ==
  /\ Doing("set") /\ Done
  /\ mixer' = [mixer EXCEPT ![Head(commands).what] = Head(commands).to]
  /\ UNCHANGED <<run, enter, faults>>

AmixerFails ==
  /\ Doing("set") /\ faults < MaxFaults
  /\ Failed /\ faults' = faults + 1
  /\ UNCHANGED <<mixer, run, enter>>

Background ==
  /\ Doing("spawn") /\ Done
  /\ run' = run \union {<<calls, p>> : p \in Programs(Head(commands).what)}
  /\ UNCHANGED <<mixer, enter, faults>>

Enter ==
  /\ Doing("read") /\ Done /\ enter' = TRUE
  /\ UNCHANGED <<mixer, run, faults>>

\* read fails at the end of its input.
EndOfInput ==
  /\ Doing("read") /\ Failed
  /\ UNCHANGED <<mixer, run, enter, faults>>

KillWorks ==
  /\ Doing("kill") /\ <<calls, Head(commands).what>> \in run
  /\ Done /\ run' = run \ {<<calls, Head(commands).what>>}
  /\ UNCHANGED <<mixer, enter, faults>>

\* The program has ended before.
KillFails ==
  /\ Doing("kill") /\ <<calls, Head(commands).what>> \notin run
  /\ Failed
  /\ UNCHANGED <<mixer, run, enter, faults>>

Step ==
  \/ Amixer \/ AmixerFails \/ Background \/ Enter \/ EndOfInput
  \/ KillWorks \/ KillFails

(* The programs. *)

\* One that cannot open or use its device ends.
ProgramFails(p) ==
  /\ p \in run /\ faults < MaxFaults
  /\ run' = run \ {p} /\ faults' = faults + 1
  /\ UNCHANGED <<call, commands, code, mixer, enter, calls>>

\* The other end of the pipe is gone: SIGPIPE for the recorder, the end of
\* its input for the player.
BrokenPipe ==
  \E n \in 1 .. calls, p \in Pipe :
    /\ run \intersect ({n} \X Pipe) = {<<n, p>>}
    /\ run' = run \ {<<n, p>>}
    /\ UNCHANGED <<call, commands, code, mixer, enter, calls, faults>>

Next ==
  \/ Usage \/ \E c \in Calls : Begin(c)
  \/ Step \/ BrokenPipe \/ \E p \in run : ProgramFails(p)

Spec == Init /\ [][Next]_vars /\ WF_vars(Step) /\ WF_vars(BrokenPipe)

(* Properties. *)

\* No sound is looped through a mixer that is only partly set: what starts
\* a program does so after every control of the script was set, in the
\* scripts it calls too (aloop:9,59-62, headphone:3, capture:3, line-out:3,
\* test-loop-line-out-line-in:3,43-49).
SetBeforeLoop ==
  [][Background =>
       \A i \in DOMAIN Script(call) :
         LET s == Script(call)[i] IN s.do = "set" => mixer[s.what] = s.to]_vars

\* After Enter nothing of the pipeline is left, also when one end of it had
\* failed before (aloop:62-67: only the last program is killed).
LoopEnds ==
  \A n \in 1 .. MaxCalls :
    calls = n /\ call[1] = "aloop" /\ enter
      ~> run \intersect ({n} \X Pipe) = {}

\* headphone:19, "Valid options are: "off", "line-in" or "dac"": a call with
\* "line-in" that succeeds has selected the line input.
LineInIsSelected ==
  commands = <<>> /\ call = <<"headphone", "line-in">> /\ code = 0
    => mixer["Headphone Mux"] = "LINE_IN"

-----------------------------------------------------------------------------
(***************************************************************************)
(* Why SetBeforeLoop holds: the inductive invariant.                       *)
(***************************************************************************)
\* The commands are the rest of the script; with set -e, those before them
\* have succeeded.
RestOfScript ==
  commands # <<>> =>
    /\ call \in Calls
    /\ \E k \in 1 .. Len(Script(call)) :
         /\ commands = SubSeq(Script(call), k, Len(Script(call)))
         /\ SetE(call) =>
              \A i \in 1 .. k - 1 :
                LET s == Script(call)[i]
                IN s.do = "set" => mixer[s.what] = s.to

\* The conjunction that every step preserves.
IInv == DOMAIN mixer = Controls /\ RestOfScript
=============================================================================
