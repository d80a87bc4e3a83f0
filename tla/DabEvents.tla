----------------------------- MODULE DabEvents -----------------------------
(***************************************************************************)
(* dabon-cli dab_get_event_status: the events that the tuner has latched   *)
(* are read and kept, printed, and only then cleared by a second exchange. *)
(* The results of both exchanges are dropped, and the structure that is    *)
(* printed is not initialised.  Meanwhile the tuner goes on raising        *)
(* events.  Si468xLink has the inside of an exchange.                      *)
(***************************************************************************)
EXTENDS Naturals

CONSTANTS
  Event,      \* the interrupt flags of struct si468x_DAB_event_status
  svrlistint, \* one of them, which tells of a new service list
  MaxVersion  \* bound on the versions of the service list, a natural

VARIABLES
  pc,      \* "idle", or the next thing dab_get_event_status does
  (* the tuner *)
  latched, \* the events raised and not cleared
  version, \* of its service list
  (* the command *)
  status,  \* event_status: the flags that are set, and svrlistver
  read,    \* the first exchange filled it
  (* what has happened, for the properties only *)
  late,    \* the events raised since the first exchange
  seen,    \* the events that were shown and not raised since
  missed,  \* the events that were cleared and not shown
  shown,   \* the latest version of the list that was shown
  kept     \* the run before this one did not get to clear the events

vars == <<pc, latched, version, status, read, late, seen, missed, shown, kept>>

\* The stack says anything: event_status is not initialised.
EventStatus == [flags : SUBSET Event, svrlistver : 0 .. MaxVersion]

Init ==
  /\ pc = "idle"
  /\ latched \in SUBSET Event \ {{}} /\ version = 0
  /\ status \in EventStatus /\ read = FALSE
  /\ late = {} /\ seen = {} /\ missed = {}
  /\ shown = 0 /\ kept = FALSE

\* The tuner (external) raises an event, again perhaps; a new service list
\* comes with its event.
Raise(e) ==
  /\ latched' = latched \union {e}
  /\ IF e = svrlistint
     THEN version < MaxVersion /\ version' = version + 1
     ELSE UNCHANGED version
  /\ late' = late \union {e}
  /\ seen' = seen \ {e}
  /\ missed' = missed \ {e}
  /\ UNCHANGED <<pc, status, read, shown, kept>>

Start ==
  /\ pc = "idle"
  /\ pc' = "keep"
  /\ status' \in EventStatus
  /\ read' = FALSE
  /\ UNCHANGED <<latched, version, late, seen, missed, shown, kept>>

\* The exchange with si468x_KEEP_INT.
Keep ==
  /\ pc = "keep"
  /\ pc' = "print"
  /\ status' = [flags |-> latched, svrlistver |-> version]
  /\ read' = TRUE
  /\ late' = {}
  /\ UNCHANGED <<latched, version, seen, missed, shown, kept>>

\* Mutated form: what has not been read is reported as read.
KeepFails_unnoticed ==
  /\ pc = "keep"
  /\ pc' = "print"
  /\ read' = TRUE
  /\ late' = {}
  /\ UNCHANGED <<latched, version, status, seen, missed, shown, kept>>

\* It fails and nobody looks at the result, or ends on the CTS of an older
\* command or on a status that no poll has read, and what is decoded is not
\* what the tuner has latched.  Neither leaves a trace in what is printed.
KeepFails ==
  /\ pc = "keep"
  /\ pc' = "print"
  /\ late' = {}
  /\ UNCHANGED <<latched, version, status, read, seen, missed, shown, kept>>

\* The eight lines, which look the same whether or not anything was read.
PrintStatus ==
  /\ pc = "print"
  /\ pc' = "clear"
  /\ IF read
     THEN /\ seen' = seen \union (status.flags \ late)
          /\ shown' = status.svrlistver
     ELSE UNCHANGED <<seen, shown>>
  /\ UNCHANGED <<latched, version, status, read, late, missed, kept>>

\* Mutated form: the second exchange keeps the events, too.
Clear_keeps ==
  /\ pc = "clear"
  /\ pc' = "idle"
  /\ kept' = FALSE
  /\ UNCHANGED <<latched, version, status, read, late, seen, missed, shown>>

\* The exchange with si468x_CLEAR_INT.  The tuner executes it, whether or
\* not its answer, which nobody reads, arrives.
Clear ==
  /\ pc = "clear"
  /\ pc' = "idle"
  /\ latched' = {}
  /\ missed' = missed \union (latched \ seen)
  /\ kept' = FALSE
  /\ UNCHANGED <<version, status, read, late, seen, shown>>

\* The command does not reach the tuner, or the process is killed first.
GiveUp ==
  /\ pc # "idle"
  /\ pc' = "idle"
  /\ kept' = TRUE
  /\ UNCHANGED <<latched, version, status, read, late, seen, missed, shown>>

dab_get_event_status ==
  Start \/ Keep \/ KeepFails \/ PrintStatus \/ Clear \/ GiveUp

Next == dab_get_event_status \/ \E e \in Event : Raise(e)

Spec == Init /\ [][Next]_vars

-----------------------------------------------------------------------------
TypeOK ==
  /\ pc \in {"idle", "keep", "print", "clear"}
  /\ {latched, late, seen, missed} \subseteq SUBSET Event
  /\ {version, shown} \subseteq 0 .. MaxVersion
  /\ status \in EventStatus
  /\ {read, kept} \subseteq BOOLEAN

\* Someone who fetches the service list when svrlistint is shown has the
\* list of the tuner, unless a change is still pending or the command has
\* swallowed it: the number alone is never out of date.
ListIsCurrent ==
  \/ shown = version
  \/ svrlistint \in latched
  \/ svrlistint \in missed

\* An event disappears from the tuner unseen only in a run whose read failed
\* or if it was raised after that read: the gap between the two exchanges is
\* the only one.
OnlyLateOnesAreMissed ==
  [][\A e \in missed' \ missed : e \in late' \/ ~read']_vars

\* An event is shown twice without having been raised twice only after a run
\* that did not get to clear it.
ShownOnce ==
  [][PrintStatus /\ read => status.flags \intersect seen = {} \/ kept]_vars

-----------------------------------------------------------------------------
(***************************************************************************)
(* Why these hold: the inductive invariant, in parts.                      *)
(***************************************************************************)
\* Until it is printed, what was read differs from what the tuner has by the
\* late events only.
ReadIsRecent ==
  /\ pc = "keep" => ~read
  /\ pc = "print" /\ read =>
       /\ status.flags \subseteq latched
       /\ latched \subseteq status.flags \union late
       /\ late \subseteq latched
       /\ status.svrlistver = version \/ svrlistint \in late

\* A late event is not a seen one, and who has seen the event has seen the
\* list it tells of.
SeenIsRecent ==
  /\ late \intersect seen = {}
  /\ svrlistint \in seen => shown = version

\* What is about to be cleared has been shown, but for the late events.
AboutToClear == pc = "clear" /\ read => latched \subseteq seen \union late

\* Except in a run after its printing, a seen event is pending only if it
\* has been kept.
SeenIsCleared == pc = "clear" \/ kept \/ latched \intersect seen = {}

\* The conjunction that every step preserves.
IInv ==
  /\ TypeOK /\ ListIsCurrent
  /\ ReadIsRecent /\ SeenIsRecent /\ AboutToClear /\ SeenIsCleared
=============================================================================
