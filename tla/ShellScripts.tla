---------------------------- MODULE ShellScripts ----------------------------
(***************************************************************************)
(* The shell scripts of the car player, in two parts: the init scripts and *)
(* their daemons (DaemonScripts), and the scripts that set the mixer and   *)
(* loop the sound (MixerScripts).  The two share no state: a behaviour is  *)
(* one of one of them.                                                     *)
(***************************************************************************)
EXTENDS DaemonScripts

CONSTANTS MaxCalls, MaxFaults \* of MixerScripts

VARIABLES
  part, \* "daemons" or "mixer": whose behaviour it is
  call, commands, code, mixer, run, enter, calls, faults \* of MixerScripts

mixervars == <<call, commands, code, mixer, run, enter, calls, faults>>

Mixer == INSTANCE MixerScripts

ScriptsInit == Init /\ Mixer!Init /\ part \in {"daemons", "mixer"}

InitScripts == part = "daemons" /\ Next /\ UNCHANGED <<part, mixervars>>

MixerAndLoops == part = "mixer" /\ Mixer!Next /\ UNCHANGED <<part, vars>>

ScriptsNext == InitScripts \/ MixerAndLoops

\* The fairness of the two modules; a step of the one is disabled in a
\* behaviour of the other.
ScriptsSpec ==
  /\ ScriptsInit /\ [][ScriptsNext]_<<part, vars, mixervars>>
  /\ WF_vars(Script)
  /\ WF_mixervars(Mixer!Step) /\ WF_mixervars(Mixer!BrokenPipe)

-----------------------------------------------------------------------------
\* The inductive invariants of the two (S95pipewire, S99dabondashboard, aloop,
\* test-loop-line-out-line-in).
ScriptsInv == IInv /\ Mixer!IInv

\* No program is started before every control of its script was set
\* (aloop:9,59-62, test-loop-line-out-line-in:3,43-49).
SetBeforeLoop == Mixer!SetBeforeLoop

\* After Enter nothing of aloop's pipeline is left (aloop:62-67).
LoopEnds == Mixer!LoopEnds
=============================================================================
