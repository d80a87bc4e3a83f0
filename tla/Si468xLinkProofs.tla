-------------------------- MODULE Si468xLinkProofs --------------------------
(***************************************************************************)
(* Proofs about Si468xLink, for any set of functions and shapes, any       *)
(* deadline and any number of calls.  Every part of IInv has a lemma that  *)
(* goes through the steps of the library and the tuner; the properties     *)
(* follow from the conjunction, and so does the refinement of              *)
(* TunerExchange.                                                          *)
(***************************************************************************)
EXTENDS Si468xLink, TLAPS

\* Every step keeps the variables in their types.
LEMMA TypeStep ==
  ASSUME TypeOK, [Next]_vars
  PROVE  TypeOK'
<1> USE ApiAssumption, TimeoutAssumption, MaxCallsAssumption DEF TypeOK,
    Errors, Faults
<1>1. ASSUME NEW f \in Fn, Call(f) PROVE TypeOK'
  BY <1>1 DEF Call, chip
<1>2. CASE SendCommand
  BY <1>2 DEF SendCommand, AfterSend, ToWait, ToReply, Return, Skipped
<1>3. CASE SendFails
  <2>1. CASE API[fn].checkSend
    BY <1>3, <2>1 DEF SendFails, Return, chip
  <2>2. CASE ~API[fn].checkSend /\ API[fn].waitCts
    <3>1. suspect' \subseteq Faults
      BY <1>3, <2>2 DEF SendFails, Skipped
    <3> QED BY <1>3, <2>2, <3>1 DEF SendFails, AfterSend, ToWait, chip
  <2>3. CASE ~API[fn].checkSend /\ ~API[fn].waitCts
    BY <1>3, <2>3 DEF SendFails, AfterSend, ToReply, Return, Skipped, chip
  <2> QED BY <2>1, <2>2, <2>3
<1>4. CASE PollReads
  <2> DEFINE read == [cts |-> exec = 0, stc |-> stc, real |-> TRUE]
  <2>1. read \in [cts : BOOLEAN, stc : BOOLEAN, real : BOOLEAN]
    OBVIOUS
  <2>2. status' \in {status, read}
    BY <1>4 DEF PollReads
  <2>3. status' \in [cts : BOOLEAN, stc : BOOLEAN, real : BOOLEAN]
    BY <2>1, <2>2
  <2> HIDE DEF read
  <2> QED BY <1>4, <2>3 DEF PollReads, chip
<1>5. CASE CheckTimeout
  BY <1>5 DEF CheckTimeout, chip, Return
<1>6. CASE CheckAgain
  BY <1>6 DEF CheckAgain, chip
<1>7. CASE CheckSeen
  BY <1>7 DEF CheckSeen, chip, Seen, ToWait, ToReply, Return
<1>8. CASE ReadReply
  <2>1. left' \in 0 .. 2 /\ (pc' = "reply" => left' > 0)
    BY <1>8 DEF ReadReply, Return
  <2> QED BY <1>8, <2>1 DEF ReadReply, Return, chip
<1>9. CASE ReadFails
  <2>1. left' \in 0 .. 2 /\ (pc' = "reply" => left' > 0)
    BY <1>9 DEF ReadFails, Return
  <2>2. suspect' \subseteq Faults
    BY <1>9 DEF ReadFails
  <2> QED BY <1>9, <2>1, <2>2 DEF ReadFails, Return, chip
<1>10. CASE AllocFails
  <2>1. suspect' \subseteq Faults
    BY <1>10 DEF AllocFails
  <2> QED BY <1>10, <2>1 DEF AllocFails, Return, chip
<1>11. CASE Tick
  BY <1>11 DEF Tick, chip
<1>12. CASE ChipFinish
  <2>1. {got', exec', replyOf', tuning', tunedBy'} \subseteq 0 .. id'
    BY <1>12 DEF ChipFinish, host
  <2>2. stc' \in BOOLEAN
    BY <1>12 DEF ChipFinish
  <2> QED BY <1>12, <2>1, <2>2 DEF ChipFinish, host
<1>13. CASE ChipTuned
  BY <1>13 DEF ChipTuned, host
<1>14. CASE UNCHANGED vars
  BY <1>14 DEF vars
<1> QED BY <1>1, <1>2, <1>3, <1>4, <1>5, <1>6, <1>7, <1>8, <1>9, <1>10,
       <1>11, <1>12, <1>13, <1>14 DEF Next, Step

\* Before the send everything at the tuner belongs to earlier calls.
LEMMA FreshStep ==
  ASSUME IInv, [Next]_vars
  PROVE  Fresh'
<1> USE ApiAssumption, MaxCallsAssumption DEF IInv, TypeOK, Fresh
<1>1. ASSUME NEW f \in Fn, Call(f) PROVE Fresh'
  BY <1>1 DEF Call, chip
<1>2. CASE SendCommand
  BY <1>2 DEF SendCommand, AfterSend, ToWait, ToReply, Return, Skipped
<1>3. CASE SendFails
  BY <1>3 DEF SendFails, chip, AfterSend, ToWait, ToReply, Return, Skipped
<1>4. CASE PollReads
  BY <1>4 DEF PollReads, chip
<1>5. CASE CheckTimeout
  BY <1>5 DEF CheckTimeout, chip, Return
<1>6. CASE CheckAgain
  BY <1>6 DEF CheckAgain, chip
<1>7. CASE CheckSeen
  BY <1>7 DEF CheckSeen, chip, Seen, ToWait, ToReply, Return
<1>8. CASE ReadReply
  BY <1>8 DEF ReadReply, chip, Return
<1>9. CASE ReadFails
  BY <1>9 DEF ReadFails, chip, Return
<1>10. CASE AllocFails
  BY <1>10 DEF AllocFails, chip, Return
<1>11. CASE Tick
  BY <1>11 DEF Tick, chip
<1>12. CASE ChipFinish
  BY <1>12 DEF ChipFinish, host
<1>13. CASE ChipTuned
  BY <1>13 DEF ChipTuned, host
<1>14. CASE UNCHANGED vars
  BY <1>14 DEF vars
<1> QED BY <1>1, <1>2, <1>3, <1>4, <1>5, <1>6, <1>7, <1>8, <1>9, <1>10,
       <1>11, <1>12, <1>13, <1>14 DEF Next, Step

\* Unless the command got lost, the tuner has it or is done with it.
LEMMA OwnedStep ==
  ASSUME IInv, [Next]_vars
  PROVE  Owned'
<1> USE ApiAssumption DEF IInv, TypeOK, Fresh, Owned, Sent, Succeeded
<1>1. ASSUME NEW f \in Fn, Call(f) PROVE Owned'
  BY <1>1 DEF Call, chip
<1>2. CASE SendCommand
  BY <1>2 DEF SendCommand, AfterSend, ToWait, ToReply, Return, Skipped
<1>3. CASE SendFails
  BY <1>3 DEF SendFails, chip, AfterSend, ToWait, ToReply, Return, Skipped
<1>4. CASE PollReads
  BY <1>4 DEF PollReads, chip
<1>5. CASE CheckTimeout
  BY <1>5 DEF CheckTimeout, chip, Return
<1>6. CASE CheckAgain
  BY <1>6 DEF CheckAgain, chip
<1>7. CASE CheckSeen
  BY <1>7 DEF CheckSeen, chip, Seen, ToWait, ToReply, Return
<1>8. CASE ReadReply
  BY <1>8 DEF ReadReply, chip, Return
<1>9. CASE ReadFails
  BY <1>9 DEF ReadFails, chip, Return
<1>10. CASE AllocFails
  BY <1>10 DEF AllocFails, chip, Return
<1>11. CASE Tick
  BY <1>11 DEF Tick, chip
<1>12. CASE ChipFinish
  BY <1>12 DEF ChipFinish, host
<1>13. CASE ChipTuned
  BY <1>13 DEF ChipTuned, host
<1>14. CASE UNCHANGED vars
  BY <1>14 DEF vars
<1> QED BY <1>1, <1>2, <1>3, <1>4, <1>5, <1>6, <1>7, <1>8, <1>9, <1>10,
       <1>11, <1>12, <1>13, <1>14 DEF Next, Step

\* Once CTS was seen, the tuner stays ready until the next call.
LEMMA ReadyStep ==
  ASSUME IInv, [Next]_vars
  PROVE  Ready'
<1> USE ApiAssumption DEF IInv, TypeOK, Fresh, Owned, Ready, Heard, Succeeded
<1>1. ASSUME NEW f \in Fn, Call(f) PROVE Ready'
  BY <1>1 DEF Call, chip
<1>2. CASE SendCommand
  BY <1>2 DEF SendCommand, AfterSend, ToWait, ToReply, Return, Skipped
<1>3. CASE SendFails
  BY <1>3 DEF SendFails, chip, AfterSend, ToWait, ToReply, Return, Skipped
<1>4. CASE PollReads
  BY <1>4 DEF PollReads, chip
<1>5. CASE CheckTimeout
  BY <1>5 DEF CheckTimeout, chip, Return
<1>6. CASE CheckAgain
  BY <1>6 DEF CheckAgain, chip
<1>7. CASE CheckSeen
  BY <1>7 DEF CheckSeen, chip, Seen, ToWait, ToReply, Return
<1>8. CASE ReadReply
  BY <1>8 DEF ReadReply, chip, Return
<1>9. CASE ReadFails
  BY <1>9 DEF ReadFails, chip, Return
<1>10. CASE AllocFails
  BY <1>10 DEF AllocFails, chip, Return
<1>11. CASE Tick
  BY <1>11 DEF Tick, chip
<1>12. CASE ChipFinish
  BY <1>12 DEF ChipFinish, host
<1>13. CASE ChipTuned
  BY <1>13 DEF ChipTuned, host
<1>14. CASE UNCHANGED vars
  BY <1>14 DEF vars
<1> QED BY <1>1, <1>2, <1>3, <1>4, <1>5, <1>6, <1>7, <1>8, <1>9, <1>10,
       <1>11, <1>12, <1>13, <1>14 DEF Next, Step

\* A reply that is read after CTS is the reply to this call.
LEMMA RepliedStep ==
  ASSUME IInv, [Next]_vars
  PROVE  Replied'
<1> USE ApiAssumption DEF IInv, TypeOK, Fresh, Owned, Ready, Replied, Heard,
    Sent, Succeeded
<1>1. ASSUME NEW f \in Fn, Call(f) PROVE Replied'
  BY <1>1 DEF Call, chip
<1>2. CASE SendCommand
  BY <1>2 DEF SendCommand, AfterSend, ToWait, ToReply, Return, Skipped
<1>3. CASE SendFails
  BY <1>3 DEF SendFails, chip, AfterSend, ToWait, ToReply, Return, Skipped
<1>4. CASE PollReads
  BY <1>4 DEF PollReads, chip
<1>5. CASE CheckTimeout
  BY <1>5 DEF CheckTimeout, chip, Return
<1>6. CASE CheckAgain
  BY <1>6 DEF CheckAgain, chip
<1>7. CASE CheckSeen
  BY <1>7 DEF CheckSeen, chip, Seen, ToWait, ToReply, Return
<1>8. CASE ReadReply
  BY <1>8 DEF ReadReply, chip, Return
<1>9. CASE ReadFails
  BY <1>9 DEF ReadFails, chip, Return
<1>10. CASE AllocFails
  BY <1>10 DEF AllocFails, chip, Return
<1>11. CASE Tick
  BY <1>11 DEF Tick, chip
<1>12. CASE ChipFinish
  BY <1>12 DEF ChipFinish, host
<1>13. CASE ChipTuned
  BY <1>13 DEF ChipTuned, host
<1>14. CASE UNCHANGED vars
  BY <1>14 DEF vars
<1> QED BY <1>1, <1>2, <1>3, <1>4, <1>5, <1>6, <1>7, <1>8, <1>9, <1>10,
       <1>11, <1>12, <1>13, <1>14 DEF Next, Step

\* STCINT that is seen in an undisturbed tune was set by that tune.
LEMMA TunedStep ==
  ASSUME IInv, [Next]_vars
  PROVE  Tuned'
<1> USE ApiAssumption DEF IInv, TypeOK, Fresh, Owned, Ready, Tuned, Heard,
    Sent, Succeeded
<1>1. ASSUME NEW f \in Fn, Call(f) PROVE Tuned'
  BY <1>1 DEF Call, chip
<1>2. CASE SendCommand
  BY <1>2 DEF SendCommand, AfterSend, ToWait, ToReply, Return, Skipped
<1>3. CASE SendFails
  BY <1>3 DEF SendFails, chip, AfterSend, ToWait, ToReply, Return, Skipped
<1>4. CASE PollReads
  BY <1>4 DEF PollReads, chip
<1>5. CASE CheckTimeout
  BY <1>5 DEF CheckTimeout, chip, Return
<1>6. CASE CheckAgain
  BY <1>6 DEF CheckAgain, chip
<1>7. CASE CheckSeen
  BY <1>7 DEF CheckSeen, chip, Seen, ToWait, ToReply, Return
<1>8. CASE ReadReply
  BY <1>8 DEF ReadReply, chip, Return
<1>9. CASE ReadFails
  BY <1>9 DEF ReadFails, chip, Return
<1>10. CASE AllocFails
  BY <1>10 DEF AllocFails, chip, Return
<1>11. CASE Tick
  BY <1>11 DEF Tick, chip
<1>12. CASE ChipFinish
  BY <1>12 DEF ChipFinish, host
<1>13. CASE ChipTuned
  BY <1>13 DEF ChipTuned, host
<1>14. CASE UNCHANGED vars
  BY <1>14 DEF vars
<1> QED BY <1>1, <1>2, <1>3, <1>4, <1>5, <1>6, <1>7, <1>8, <1>9, <1>10,
       <1>11, <1>12, <1>13, <1>14 DEF Next, Step
-----------------------------------------------------------------------------
\* The initial values have their types.
LEMMA TypeInit == Init => TypeOK
<1> SUFFICES ASSUME Init PROVE TypeOK
  OBVIOUS
<1>1. status \in [cts : BOOLEAN, stc : BOOLEAN, real : BOOLEAN]
  BY DEF Init
<1>2. {got, exec, replyOf, tuning, tunedBy} \subseteq 0 .. id
  BY DEF Init
<1>3. elapsed \in 0 .. Timeout + 1 /\ id \in 0 .. MaxCalls /\ left \in 0 .. 2
  BY TimeoutAssumption, MaxCallsAssumption DEF Init
<1> QED BY <1>1, <1>2, <1>3 DEF Init, TypeOK

\* Every variable stays in its type.
THEOREM TypeCorrect == Spec => []TypeOK
<1>1. Init => TypeOK
  BY TypeInit
<1>2. TypeOK /\ [Next]_vars => TypeOK'
  BY TypeStep
<1> QED BY <1>1, <1>2, PTL DEF Spec

\* The inductive invariant holds initially and is kept by every step.
THEOREM Inductive == Spec => []IInv
<1>1. Init => IInv
  <2> SUFFICES ASSUME Init PROVE IInv
    OBVIOUS
  <2>1. TypeOK
    BY TypeInit
  <2>2. Fresh /\ Owned /\ Ready /\ Tuned
    BY DEF Init, Fresh, Owned, Ready, Tuned, Sent, Heard, Succeeded
  <2>3. Replied
    BY ApiAssumption DEF Init, Replied, Succeeded
  <2> QED BY <2>1, <2>2, <2>3 DEF IInv
<1>2. IInv /\ [Next]_vars => IInv'
  BY TypeStep, FreshStep, OwnedStep, ReadyStep, RepliedStep, TunedStep
     DEF IInv
<1> QED BY <1>1, <1>2, PTL DEF Spec

-----------------------------------------------------------------------------
(* What a return value of 0 means. *)

\* A call that waits for CTS and returns 0 undisturbed was executed: the
\* tuner has the command (Owned) and is not busy (Ready).
THEOREM OkMeansDoneHolds == Spec => []OkMeansDone
<1>1. IInv => OkMeansDone
  BY DEF IInv, TypeOK, Fresh, Owned, Ready, OkMeansDone, Sent, Heard, Succeeded
<1> QED BY <1>1, Inductive, PTL

\* The bytes a caller decodes are the reply to its own command.
THEOREM ReplyOwnHolds == Spec => []ReplyOwn
<1>1. IInv => ReplyOwn
  BY ApiAssumption
     DEF IInv, TypeOK, Replied, ReplyOwn, Succeeded
<1> QED BY <1>1, Inductive, PTL

\* si468x_dab_tune_freq returns 0 when its own tune is over.
THEOREM TuneCompleteHolds == Spec => []TuneComplete
<1>1. IInv => TuneComplete
  BY ApiAssumption DEF IInv, TypeOK, Tuned, TuneComplete, Sent, Succeeded
<1> QED BY <1>1, Inductive, PTL

\* After a 0 the tuner is ready for the next command.
THEOREM ChipIdleAfterOkHolds == Spec => []ChipIdleAfterOk
<1>1. IInv => ChipIdleAfterOk
  BY DEF IInv, Ready, ChipIdleAfterOk, Heard
<1> QED BY <1>1, Inductive, PTL

-----------------------------------------------------------------------------
(* The library and the tuner implement the contract of TunerExchange. *)

done == id > 0 /\ replyOf = id

\* What one of the library's steps after the send looks like in the contract:
\* nothing, a look that was missed, or a return.
LEMMA WaitingStep ==
  ASSUME phase = "waiting", UNCHANGED <<id, exec, replyOf>>,
         doubt' \in {doubt, doubt \union {"waiting"}},
         phase' \in {"waiting", "idle"},
         phase' = "waiting" => UNCHANGED ret,
         phase' = "idle" => ret' \in {"ok"} \union Errors,
         phase' = "idle" /\ ret' = "ok" /\ "waiting" \notin doubt' =>
           exec = 0 /\ (done \/ "sending" \in doubt)
  PROVE  [Exchange!Next]_Exchange!vars
<1>1. CASE phase' = "idle"
  BY <1>1 DEF Exchange!Next, Exchange!Return, done
<1>2. CASE phase' = "waiting" /\ doubt' = doubt
  BY <1>2 DEF Exchange!vars
<1>3. CASE phase' = "waiting" /\ doubt' = doubt \union {"waiting"}
  BY <1>3 DEF Exchange!Next, Exchange!Overlook
<1> QED BY <1>1, <1>2, <1>3

\* A call that waited for CTS and may return 0 now, undoubted or with only the
\* send in doubt, has a free tuner, and one that is done with its command.
LEMMA Deserved ==
  ASSUME IInv, pc = "reply", "waiting" \notin doubt
  PROVE  exec = 0 /\ (done \/ "sending" \in doubt)
BY DEF IInv, TypeOK, Fresh, Owned, Ready, Sent, Heard, done, doubt

\* A read of the reply, done or failed, or malloc, is a return or not visible.
LEMMA ReplyPhase ==
  ASSUME IInv, pc = "reply", UNCHANGED <<id, exec, replyOf>>,
         suspect' \in {suspect, suspect \union {"unread"}},
         pc' \in {"reply", "idle"},
         pc' = "reply" => UNCHANGED ret,
         pc' = "idle" => ret' \in {"ok"} \union Errors
  PROVE  [Exchange!Next]_Exchange!vars
<1>1. phase = "waiting" /\ doubt' = doubt
  BY DEF phase, doubt
<1>2. /\ phase' \in {"waiting", "idle"}
      /\ phase' = "waiting" => UNCHANGED ret
      /\ phase' = "idle" => ret' \in {"ok"} \union Errors
  BY DEF phase
<1>3. "waiting" \notin doubt' => exec = 0 /\ (done \/ "sending" \in doubt)
  BY <1>1, Deserved
<1> QED BY <1>1, <1>2, <1>3, WaitingStep

\* The send: the tuner has the command, or the call is in doubt.
LEMMA SendPhase ==
  ASSUME IInv, SendCommand
  PROVE  Exchange!Send
<1>1. phase = "sending" /\ UNCHANGED <<id, replyOf>>
  BY DEF SendCommand, phase
<1>2. \/ phase' = "waiting" /\ UNCHANGED ret
      \/ /\ "waiting" \in doubt' /\ phase' = "idle"
         /\ ret' \in {"ok"} \union Errors
  BY DEF SendCommand, AfterSend, ToWait, ToReply, Return, Skipped, phase,
         doubt, Errors
<1>3. \/ exec = 0 /\ exec' # 0 /\ doubt' \subseteq {"waiting"}
      \/ /\ (exec' # 0) = (exec # 0)
         /\ doubt' \in {{"sending"}, {"sending", "waiting"}}
  <2>1. suspect = {} /\ id > 0
    BY DEF SendCommand, IInv, TypeOK, Fresh
  <2>2. CASE exec = 0
    <3>1. exec' # 0
      BY <2>1, <2>2 DEF SendCommand, IInv, TypeOK
    <3>2. suspect' \intersect {"lost", "busy"} = {}
      BY <2>1, <2>2 DEF SendCommand, Skipped
    <3> QED BY <2>2, <3>1, <3>2 DEF doubt
  <2>3. CASE exec # 0
    <3>1. exec' # 0
      BY <2>1, <2>3 DEF SendCommand, IInv, TypeOK
    <3>2. "busy" \in suspect'
      BY <2>3 DEF SendCommand
    <3> QED BY <2>3, <3>1, <3>2 DEF doubt
  <2> QED BY <2>2, <2>3
<1> QED BY <1>1, <1>2, <1>3 DEF Exchange!Send

\* The SPI write fails: the caller is told, or the call is in doubt.
LEMMA SendFailsPhase ==
  ASSUME IInv, SendFails
  PROVE  Exchange!Next
<1>1. phase = "sending" /\ UNCHANGED <<id, exec, replyOf>>
  BY DEF SendFails, chip, phase
<1>2. CASE API[fn].checkSend
  <2>1. phase' = "idle" /\ ret' \in Errors /\ ret' # "ok" /\ doubt' = doubt
    BY <1>2 DEF SendFails, Return, Errors, phase, doubt
  <2> QED BY <1>1, <2>1 DEF Exchange!Next, Exchange!NotSent
<1>3. CASE ~API[fn].checkSend
  <2>1. doubt' \in {{"sending"}, {"sending", "waiting"}}
    BY <1>3 DEF SendFails, doubt
  <2>2. \/ phase' = "waiting" /\ UNCHANGED ret
        \/ /\ "waiting" \in doubt' /\ phase' = "idle"
           /\ ret' \in {"ok"} \union Errors
    BY <1>3 DEF SendFails, AfterSend, ToWait, ToReply, Return, Skipped,
                phase, doubt, Errors
  <2> QED BY <1>1, <2>1, <2>2 DEF Exchange!Next, Exchange!Send
<1> QED BY <1>2, <1>3

\* The bit was seen, or was in a status that no read filled.
LEMMA SeenPhase ==
  ASSUME IInv, CheckSeen
  PROVE  [Exchange!Next]_Exchange!vars
<1>1. phase = "waiting" /\ UNCHANGED <<id, exec, replyOf>>
  BY DEF CheckSeen, chip, phase
<1>2. /\ phase' \in {"waiting", "idle"}
      /\ phase' = "waiting" => UNCHANGED ret
      /\ phase' = "idle" => ret' \in {"ok"} \union Errors
  BY DEF CheckSeen, ToWait, ToReply, Return, phase, Errors
<1>3. doubt' \in {doubt, doubt \union {"waiting"}}
  BY DEF CheckSeen, doubt
<1>4. "waiting" \notin doubt' => exec = 0 /\ (done \/ "sending" \in doubt)
  <2> SUFFICES ASSUME "waiting" \notin doubt'
               PROVE  exec = 0 /\ (done \/ "sending" \in doubt)
    OBVIOUS
  <2>1. status.real /\ "garbage" \notin suspect
    BY DEF CheckSeen, doubt
  <2>2. exec = 0
    BY <2>1 DEF CheckSeen, Seen, IInv, TypeOK, Fresh, Ready, Heard
  <2> QED BY <2>2 DEF CheckSeen, IInv, TypeOK, Fresh, Owned, Sent, doubt, done
<1> QED BY <1>1, <1>2, <1>3, <1>4, WaitingStep

\* The tuner finishes the command of this call or an older one.
LEMMA FinishPhase ==
  ASSUME IInv, ChipFinish
  PROVE  Exchange!Execute
<1>1. UNCHANGED <<phase, doubt, ret, id>> /\ exec # 0 /\ exec' = 0
  BY DEF ChipFinish, host, phase, doubt
<1>2. ~done /\ (done' <=> exec = id)
  BY DEF ChipFinish, host, IInv, TypeOK, Owned, done
<1>3. phase = "sending" => exec # id
  BY DEF phase, IInv, TypeOK, Fresh
<1>4. phase = "waiting" /\ "sending" \notin doubt => exec = id
  BY <1>1 DEF phase, doubt, IInv, TypeOK, Owned, Sent
<1> QED BY <1>1, <1>2, <1>3, <1>4 DEF Exchange!Execute, done

\* Every step of the library and of the tuner is a step of the contract of
\* TunerExchange, or is not visible in it.
THEOREM ImplementsExchangeHolds == Spec => ImplementsExchange
<1>1. Init => Exchange!Init
  BY DEF Init, Exchange!Init, phase, doubt
<1>2. IInv /\ [Next]_vars => [Exchange!Next]_Exchange!vars
  <2> SUFFICES ASSUME IInv, [Next]_vars PROVE [Exchange!Next]_Exchange!vars
    OBVIOUS
  <2>1. ASSUME NEW f \in Fn, Call(f) PROVE Exchange!Begin
    BY <2>1 DEF IInv, TypeOK, Call, chip, phase, doubt, Exchange!Begin
  <2>2. CASE PollReads \/ CheckAgain \/ Tick
    BY <2>2 DEF PollReads, CheckAgain, Tick, chip, phase, doubt,
                Exchange!vars
  <2>3. CASE CheckTimeout
    <3>1. phase = "waiting" /\ phase' = "idle" /\ doubt' = doubt
      BY <2>3 DEF CheckTimeout, Return, phase, doubt
    <3> QED BY <2>3, <3>1, WaitingStep DEF CheckTimeout, Return, chip, Errors
  <2>4. CASE ReadReply
    BY <2>4, ReplyPhase DEF ReadReply, Return, chip
  <2>5. CASE ReadFails
    BY <2>5, ReplyPhase DEF ReadFails, Return, chip, Errors
  <2>6. CASE AllocFails
    BY <2>6, ReplyPhase DEF AllocFails, Return, chip, Errors
  <2>7. CASE ChipTuned
    BY <2>7 DEF ChipTuned, host, phase, doubt, Exchange!vars
  <2>8. CASE UNCHANGED vars
    BY <2>8 DEF vars, phase, doubt, Exchange!vars
  <2> QED BY <2>1, <2>2, <2>3, <2>4, <2>5, <2>6, <2>7, <2>8, SendPhase,
             SendFailsPhase, SeenPhase, FinishPhase
          DEF Next, Step, Exchange!Next
<1> QED BY <1>1, <1>2, Inductive, PTL
       DEF Spec, Exchange!Spec, ImplementsExchange
=============================================================================
