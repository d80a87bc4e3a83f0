--------------------------- MODULE DabonCliProofs ---------------------------
(***************************************************************************)
(* Proofs about DabonCli, for any set of processes and any commands: the   *)
(* two GPIO lines keep the processes apart.                                *)
(***************************************************************************)
EXTENDS DabonCli, TLAPS

\* What a row of the command table can be.
Rows == [input : BOOLEAN, reset : BOOLEAN, exchanges : 0 .. 2,
         returns : BOOLEAN]

\* The rows of the table are rows: all that the proofs need to know of it.
LEMMA CommandShape ==
  ASSUME NEW c, Known(c)
  PROVE  /\ shell_commands[c].exchanges \in 0 .. 2
         /\ shell_commands[c].reset \in BOOLEAN
         /\ shell_commands[c].returns \in BOOLEAN
<1>1. Plain \in Rows
  BY DEF Rows, Plain
<1>2. WithInput \in Rows /\ Silent \in Rows
  <2>1. WithInput \in Rows
    BY <1>1 DEF Rows, WithInput
  <2>2. Silent \in Rows
    BY <1>1 DEF Rows, Silent
  <2> QED BY <2>1, <2>2
<1>3. start_tuner \in Rows /\ stop_tuner \in Rows
  BY DEF Rows, start_tuner, stop_tuner, Resetting
<1>4. dab_tune_frequency \in Rows /\ dab_get_event_status \in Rows
  <2>1. dab_tune_frequency \in Rows
    BY <1>2 DEF Rows, dab_tune_frequency
  <2>2. dab_get_event_status \in Rows
    BY <1>2 DEF Rows, dab_get_event_status
  <2> QED BY <2>1, <2>2
<1>5. shell_commands[c] \in {start_tuner, stop_tuner, dab_tune_frequency,
        dab_get_event_status, Plain, WithInput, Silent}
  BY DEF Known, shell_commands,
     tuner_get_property, tuner_set_property, tuner_get_part_info,
     dab_digrad_status, dab_get_ensamble_info, dab_get_digital_service_list,
     dab_start_digital_service, dab_get_audio_info, dab_get_time,
     dab_get_frequencies_list, dab_set_frequencies_list, fm_tune_frequency,
     fm_seek_start, fm_rsq_status, fm_rds_status, fm_rds_blockcount
<1>6. shell_commands[c] \in Rows
  BY <1>1, <1>2, <1>3, <1>4, <1>5
<1> QED BY <1>6 DEF Rows

\* One lemma per step: the variables stay in their types, the lines with the
\* process that requested them, the tuner with the process it works for.
\* The process starts.
LEMMA StartStep ==
  ASSUME IInv, NEW p \in Proc, Start(p)
  PROVE  IInv'
BY NoProcAssumption
DEF IInv, TypeOK, Lines, InCommand, Owner, BusyIsTold, Using, Start, Goto

\* It opens the SPI device.
LEMMA SpiInitStep ==
  ASSUME IInv, NEW p \in Proc, SpiInit(p)
  PROVE  IInv'
BY NoProcAssumption
DEF IInv, TypeOK, Lines, InCommand, Owner, BusyIsTold, Using, SpiInit, Goto,
    Exit

\* It requests the reset line.
LEMMA RequestResetStep ==
  ASSUME IInv, NEW p \in Proc, RequestReset(p)
  PROVE  IInv'
BY NoProcAssumption
DEF IInv, TypeOK, Lines, InCommand, Owner, BusyIsTold, Using, RequestReset,
    Goto, Exit

\* It requests the interrupt line, and is the only one past this point.
LEMMA RequestIntStep ==
  ASSUME IInv, NEW p \in Proc, RequestInt(p)
  PROVE  IInv'
BY NoProcAssumption
DEF IInv, TypeOK, Lines, InCommand, Owner, BusyIsTold, Using, RequestInt,
    Goto, Exit

\* It begins its command.
LEMMA BeginStep ==
  ASSUME IInv, NEW p \in Proc, Begin(p)
  PROVE  IInv'
BY NoProcAssumption, CommandShape
DEF IInv, TypeOK, Lines, InCommand, Owner, BusyIsTold, Using, Begin, Goto,
    Exit

\* It sends to the tuner, which is free or left busy by a process that ended.
LEMMA SendStep ==
  ASSUME IInv, NEW p \in Proc, Send(p)
  PROVE  IInv'
BY NoProcAssumption
DEF IInv, TypeOK, Lines, InCommand, Owner, BusyIsTold, Using, Send, Goto

\* It has its answer.
LEMMA ReceiveStep ==
  ASSUME IInv, NEW p \in Proc, Receive(p)
  PROVE  IInv'
BY NoProcAssumption
DEF IInv, TypeOK, Lines, InCommand, Owner, BusyIsTold, Using, Receive,
    Continue, Goto, Exit

\* It goes on without an answer, and is known for it.
LEMMA ReceiveBlindStep ==
  ASSUME IInv, NEW p \in Proc, ReceiveBlind(p)
  PROVE  IInv'
BY NoProcAssumption
DEF IInv, TypeOK, Lines, InCommand, Owner, BusyIsTold, Using, ReceiveBlind,
    Continue, Goto, Exit

\* It gives up: the tuner may be left busy, and the exit status says so.
LEMMA ExchangeFailsStep ==
  ASSUME IInv, NEW p \in Proc, ExchangeFails(p)
  PROVE  IInv'
BY NoProcAssumption, CommandShape
DEF IInv, TypeOK, Lines, InCommand, Owner, BusyIsTold, Using, ExchangeFails,
    Continue, Goto, Exit

\* It ends before its command begins, or is killed anywhere.
LEMMA EndStep ==
  ASSUME IInv, NEW p \in Proc, Unknown(p) \/ BadInput(p) \/ Killed(p)
  PROVE  IInv'
BY NoProcAssumption
DEF IInv, TypeOK, Lines, InCommand, Owner, BusyIsTold, Using, Unknown,
    BadInput, Killed, Goto, Exit, Alive

\* The tuner becomes free.
LEMMA ChipDoneStep ==
  ASSUME IInv, ChipDone
  PROVE  IInv'
BY NoProcAssumption
DEF IInv, TypeOK, Lines, InCommand, Owner, BusyIsTold, Using, ChipDone

-----------------------------------------------------------------------------
\* The inductive invariant holds in every state.
THEOREM Inductive == Spec => []IInv
<1>1. Init => IInv
  BY NoProcAssumption
  DEF Init, IInv, TypeOK, Lines, InCommand, Owner, BusyIsTold, Using
<1>2. IInv /\ [Next]_vars => IInv'
  <2> SUFFICES ASSUME IInv, [Next]_vars PROVE IInv'
    OBVIOUS
  <2>1. CASE \E p \in Proc :
               Start(p) \/ Step(p) \/ ReceiveBlind(p) \/ Killed(p)
    BY <2>1, StartStep, SpiInitStep, RequestResetStep, RequestIntStep,
       BeginStep, SendStep, ReceiveStep, ReceiveBlindStep, ExchangeFailsStep,
       EndStep DEF Step
  <2>2. CASE ChipDone
    BY <2>2, ChipDoneStep
  <2>3. CASE UNCHANGED vars
    BY <2>3 DEF vars, IInv, TypeOK, Lines, InCommand, Owner, BusyIsTold, Using
  <2> QED BY <2>1, <2>2, <2>3 DEF Next
<1> QED BY <1>1, <1>2, PTL DEF Spec

\* Every state is well typed.
THEOREM TypeCorrect == Spec => []TypeOK
<1>1. IInv => TypeOK
  BY DEF IInv
<1> QED BY <1>1, Inductive, PTL

\* Two processes never use the tuner at the same time: both would hold the
\* interrupt line.  So the tuner never works for one that still waits when
\* another one waits too.
THEOREM OneAtATimeHolds == Spec => []OneAtATime
<1>1. IInv => OneAtATime
  <2> SUFFICES ASSUME IInv PROVE OneAtATime
    OBVIOUS
  <2>1. \A p, q \in Proc : Using(p) /\ Using(q) => p = q
    BY DEF IInv, Lines
  <2>2. ASSUME NEW p \in Proc, pc[p] = "wait", exec \notin {p, NoProc}
        PROVE  pc[exec] = "gone"
    <3>1. exec \in Proc /\ pc[exec] \in {"send", "wait", "gone"}
      BY <2>2 DEF IInv, TypeOK, Owner
    <3>2. ~Using(exec)
      BY <2>1, <2>2, <3>1 DEF Using
    <3> QED
      BY <3>1, <3>2 DEF Using
  <2> QED
    BY <2>1, <2>2 DEF OneAtATime
<1> QED BY <1>1, Inductive, PTL

\* No line stays with a process that ended, and who has the interrupt line
\* has the reset line.
THEOREM NoLineLeftHolds == Spec => []NoLineLeft
<1>1. IInv => NoLineLeft
  <2> SUFFICES ASSUME IInv PROVE NoLineLeft
    OBVIOUS
  <2>1. resetLine # NoProc => Alive(resetLine)
    BY DEF IInv, TypeOK, Lines, Alive, Using
  <2>2. intLine # NoProc => resetLine = intLine
    BY DEF IInv, TypeOK, Lines
  <2> QED BY <2>1, <2>2 DEF NoLineLeft
<1> QED BY <1>1, Inductive, PTL

\* A process whose tuner is left busy has an exit status that says so, a
\* command that drops errors, or never read a status.
THEOREM BusyIsToldHolds == Spec => []BusyIsTold
<1>1. IInv => BusyIsTold
  BY DEF IInv
<1> QED BY <1>1, Inductive, PTL
=============================================================================
