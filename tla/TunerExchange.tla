--------------------------- MODULE TunerExchange ---------------------------
(***************************************************************************)
(* What one call of libsi468x promises its caller.  A call is sent and     *)
(* waited for; the tuner works on one command at a time, also on one that  *)
(* was given up.  A return of 0 means that the tuner is done with the      *)
(* command of this call and free for the next one.  Each half of the       *)
(* promise is void for a call in doubt: sending, because the command may   *)
(* never have reached the tuner or met a busy one; waiting, because nobody *)
(* looked at what the tuner says of itself.  An error says nothing: the    *)
(* tuner may be done with the command, may be so later, or never.          *)
(***************************************************************************)

CONSTANT Results  \* what a call can return; "ok" is the C library's 0

VARIABLES
  phase,  \* "idle", or what the call in progress is doing
  busy,   \* the tuner is executing a command
  done,   \* it is done with the command of the latest call
  doubt,  \* the phases of the latest call that went wrong unnoticed
  ret     \* result of the latest finished call

vars == <<phase, busy, done, doubt, ret>>

Init ==
  /\ phase = "idle" /\ doubt = {} /\ ret = "none"
  /\ busy = FALSE /\ done = FALSE

Begin ==
  /\ phase = "idle"
  /\ phase' = "sending" /\ done' = FALSE /\ doubt' = {}
  /\ UNCHANGED <<busy, ret>>

\* A free tuner takes the command, unless it gets lost; a busy one may take it
\* instead of the one it executes.
Send ==
  /\ phase = "sending"
  /\ \/ ~busy /\ busy' = TRUE /\ doubt' \subseteq {"waiting"}
     \/ busy' = busy /\ doubt' \in {{"sending"}, {"sending", "waiting"}}
  /\ \/ phase' = "waiting" /\ UNCHANGED ret
     \/ "waiting" \in doubt' /\ phase' = "idle" /\ ret' \in Results
  /\ UNCHANGED done

\* The caller is told that nothing was sent.
NotSent ==
  /\ phase = "sending"
  /\ phase' = "idle" /\ ret' \in Results \ {"ok"}
  /\ UNCHANGED <<busy, done, doubt>>

\* The tuner finishes a command: that of the call in progress if it got it,
\* otherwise possibly an older one.
Execute ==
  /\ busy
  /\ busy' = FALSE
  /\ done' \in {done, TRUE}
  /\ phase = "sending" => done' = done
  /\ phase = "waiting" /\ "sending" \notin doubt => done'
  /\ UNCHANGED <<phase, doubt, ret>>

Overlook ==
  /\ phase = "waiting"
  /\ doubt' = doubt \union {"waiting"}
  /\ UNCHANGED <<phase, busy, done, ret>>

Return ==
  /\ phase = "waiting"
  /\ phase' = "idle" /\ ret' \in Results
  /\ doubt' \in {doubt, doubt \union {"waiting"}}
  /\ ret' = "ok" /\ "waiting" \notin doubt' =>
       ~busy /\ (done \/ "sending" \in doubt)
  /\ UNCHANGED <<busy, done>>

Next == Begin \/ Send \/ NotSent \/ Execute \/ Overlook \/ Return

Spec == Init /\ [][Next]_vars
=============================================================================
