----------------------------- MODULE TunerData -----------------------------
(***************************************************************************)
(* What the commands of dabon-cli carry, in three parts: the numbers on    *)
(* their way to the registers and back (TunerValues), the events that one  *)
(* command reads and clears (DabEvents), and where the bits that are       *)
(* printed come from (TunerReplies).  They look at the same commands and   *)
(* share no state: a behaviour is one of one of them.                      *)
(***************************************************************************)
EXTENDS TunerValues

CONSTANTS
  Event, svrlistint, MaxVersion, \* of DabEvents
  MaxFaults                      \* of TunerReplies

ASSUME EventAssumption == svrlistint \in Event /\ MaxVersion \in Nat

VARIABLES
  part, \* "events", "values" or "replies": whose behaviour it is
  pc, latched, version, status, read, late, seen, missed, shown, kept,
  at, cmd, fields, ret, screen, faults, suspect, exec, holds

events == <<pc, latched, version, status, read, late, seen, missed, shown,
            kept>>
replies == <<at, cmd, fields, ret, screen, faults, suspect, exec, holds>>

Events == INSTANCE DabEvents
Replies == INSTANCE TunerReplies WITH pc <- at

\* The events of the others start in one state.
DataInit ==
  /\ part \in {"events", "values", "replies"}
  /\ Init /\ Events!Init /\ Replies!Init
  /\ part # "events" =>
       latched = Event /\ status = [flags |-> {}, svrlistver |-> 0]

Numbers == part = "values" /\ Next /\ UNCHANGED <<part, events, replies>>

Latching ==
  part = "events" /\ Events!Next /\ UNCHANGED <<part, vars, replies>>

Printing ==
  part = "replies" /\ Replies!Next /\ UNCHANGED <<part, vars, events>>

DataNext == Numbers \/ Latching \/ Printing

DataSpec == DataInit /\ [][DataNext]_<<part, vars, events, replies>>

-----------------------------------------------------------------------------
\* The inductive invariants of the three (shell_cmds.c:64-446).
DataInv == IInv /\ Events!IInv /\ Replies!IInv

\* dab_get_event_status clears no event unseen but those raised between its
\* two exchanges, unless the first of them failed (shell_cmds.c:112-132).
OnlyLateOnesAreMissed == Events!OnlyLateOnesAreMissed

\* It shows no event twice that was raised once, unless it did not get to
\* clear it (shell_cmds.c:112-132).
ShownOnce == Events!ShownOnce

\* Every field of a reply is made of bits of its own, inside the reply and
\* the field (si468x_dab.c:199-223,246-254,277-282, si468x_fm.c:80-96,118-137,
\* 159-161, si468x_common.c:245-249).
EachBitOnce == Replies!EachBitOnce

\* What is printed was answered to this very command, with the exceptions
\* that TunerReplies names (si468x_dab.c:199-223,252, shell_cmds.c:85,118,139,
\* 211).
ShownWasAnswered == Replies!ShownWasAnswered
=============================================================================
