----------------------------- MODULE Si468xLink -----------------------------
(***************************************************************************)
(* One dabon-cli process calling functions of libsi468x, and the tuner at  *)
(* the other end of the SPI bus (external: modelled from what the library  *)
(* relies on).  A call sends a command, polls status byte 0 until it shows *)
(* CTS (and STCINT for a DAB tune) or the deadline has passed, and reads   *)
(* the reply.  SPI writes and reads may fail, the tuner may be slow, may   *)
(* never answer, and may execute a command after the caller gave up on it. *)
(* Calls are numbered, so that a reply can be told from an older one.      *)
(***************************************************************************)
EXTENDS Naturals

CONSTANTS
  Fn,        \* the functions that are called
  API,       \* their shapes, see Si468xApi
  Timeout,   \* WAIT_FOR_STATUS_BIT_MAX_TIMEOUT_MS, in ticks of the clock
  MaxCalls   \* bound on the number of calls

ASSUME ApiAssumption ==
  /\ DOMAIN API = Fn
  /\ \A f \in Fn :
       /\ {API[f].checkSend, API[f].waitCts, API[f].waitStc, API[f].checkRead,
           API[f].tunes, API[f].ackStc, API[f].checkMode} \subseteq BOOLEAN
       /\ API[f].reads \in 0 .. 2
       /\ API[f].oom \in {"none", "error", "ok"}
       /\ API[f].waitStc => API[f].waitCts /\ API[f].tunes
ASSUME TimeoutAssumption == Timeout \in Nat
ASSUME MaxCallsAssumption == MaxCalls \in Nat

VARIABLES
  (* the library *)
  pc,       \* the step the call is at, "idle" between calls
  fn,       \* function of the latest call
  id,       \* its number; calls are numbered from 1
  waiting,  \* status bit that is polled for
  elapsed,  \* curr_time_ms - start_time_ms, saturating
  status,   \* the caller's struct si468x_status; real once a read filled it
  left,     \* read_reply calls that are left
  got,      \* whose reply is in the caller's buffer, 0 if nobody's
  ret,      \* result of the latest finished call
  suspect,  \* what went wrong in the latest call without ending it
  (* the tuner *)
  exec,     \* number of the command it executes, 0 (and CTS is set) if none
  execFn,   \* the function that sent that command
  replyOf,  \* number of the last finished command
  tuning,   \* command that started the running tune, 0 if none
  tunedBy,  \* command that started the last finished tune
  stc       \* STCINT

host == <<pc, fn, id, waiting, elapsed, status, left, got, ret, suspect>>
chip == <<exec, execFn, replyOf, tuning, tunedBy, stc>>
vars == <<pc, fn, id, waiting, elapsed, status, left, got, ret, suspect,
          exec, execFn, replyOf, tuning, tunedBy, stc>>

Errors == {"ioerr", "timeout", "badmode", "nomem"}
Faults == {"lost", "busy", "garbage", "stc", "nowait", "unread"}

Init ==
  /\ pc = "idle" /\ id = 0 /\ fn \in Fn
  /\ waiting = "CTS" /\ elapsed = 0 /\ left = 0 /\ got = 0
  /\ status = [cts |-> FALSE, stc |-> FALSE, real |-> FALSE]
  /\ ret = "none" /\ suspect = {}
  /\ exec = 0 /\ execFn = fn /\ replyOf = 0
  /\ tuning = 0 /\ tunedBy = 0 /\ stc = FALSE

-----------------------------------------------------------------------------
(* The library. *)

\* A function is called.  Its status is a local variable without initial
\* value: whatever the stack holds.
Call(f) ==
  /\ pc = "idle" /\ id < MaxCalls
  /\ pc' = "send" /\ fn' = f /\ id' = id + 1
  /\ \E cts, fin \in BOOLEAN :
       status' = [cts |-> cts, stc |-> fin, real |-> FALSE]
  /\ waiting' = "CTS" /\ elapsed' = 0
  /\ left' = API[f].reads /\ got' = 0 /\ suspect' = {}
  /\ UNCHANGED <<ret, chip>>

Return(r) == pc' = "idle" /\ ret' = r

ToWait(bit) == pc' = "poll" /\ waiting' = bit /\ elapsed' = 0

\* The replies that were asked for are read, or the call is over.
ToReply ==
  IF left > 0
  THEN pc' = "reply" /\ UNCHANGED ret
  ELSE \/ Return("ok")
       \/ API[fn].checkMode /\ Return("badmode")

\* The command is on the bus, and the next step depends on the function.
AfterSend ==
  IF API[fn].waitCts
  THEN ToWait("CTS") /\ UNCHANGED ret
  ELSE ToReply /\ UNCHANGED <<waiting, elapsed>>

\* si468x_get_sys_state reads its reply without having seen CTS.
Skipped == IF API[fn].waitCts THEN {} ELSE {"nowait"}

\* The SPI write succeeds.  A tuner without CTS drops the command or takes
\* it in place of the one it is executing.
SendCommand ==
  /\ pc = "send"
  /\ AfterSend
  /\ suspect' = suspect
       \union (IF exec # 0 THEN {"busy"} ELSE {})
       \union (IF API[fn].tunes /\ (stc \/ tuning # 0) THEN {"stc"} ELSE {})
       \union Skipped
  /\ \/ exec' = id /\ execFn' = fn
     \/ exec # 0 /\ UNCHANGED <<exec, execFn>>
  /\ UNCHANGED <<fn, id, status, left, got, replyOf, tuning, tunedBy, stc>>

\* The SPI write fails.  Half of the functions do not look.
SendFails ==
  /\ pc = "send"
  /\ IF API[fn].checkSend
     THEN Return("ioerr") /\ UNCHANGED <<waiting, elapsed, suspect>>
     ELSE AfterSend /\ suspect' = suspect \union {"lost"} \union Skipped
  /\ UNCHANGED <<fn, id, status, left, got, chip>>

\* read_reply(NULL, 0, status) in the polling loop, whose result is ignored:
\* a failed ioctl leaves status as it was.
PollReads ==
  /\ pc = "poll"
  /\ pc' = "check"
  /\ status' \in {status, [cts |-> exec = 0, stc |-> stc, real |-> TRUE]}
  /\ UNCHANGED <<fn, id, waiting, elapsed, left, got, ret, suspect, chip>>

\* Mutated form: the status byte is tested for not being zero.
Seen_any == status.cts \/ status.stc
Seen == IF waiting = "CTS" THEN status.cts ELSE status.stc

\* Mutated form: the function returns 0 after the deadline as well.
CheckTimeout_ok ==
  /\ pc = "check" /\ elapsed > Timeout
  /\ Return("ok")
  /\ UNCHANGED <<fn, id, waiting, elapsed, status, left, got, suspect, chip>>

\* The deadline comes first: an answer read after it is not looked at.
CheckTimeout ==
  /\ pc = "check" /\ elapsed > Timeout
  /\ Return("timeout")
  /\ UNCHANGED <<fn, id, waiting, elapsed, status, left, got, suspect, chip>>

\* Mutated form: start_time_ms is taken in every pass of the loop.
CheckAgain_restart ==
  /\ pc = "check" /\ elapsed <= Timeout /\ ~Seen
  /\ pc' = "poll" /\ elapsed' = 0
  /\ UNCHANGED <<fn, id, waiting, status, left, got, ret, suspect, chip>>

CheckAgain ==
  /\ pc = "check" /\ elapsed <= Timeout /\ ~Seen
  /\ pc' = "poll"
  /\ UNCHANGED <<fn, id, waiting, elapsed, status, left, got, ret, suspect,
                 chip>>

\* Mutated form: the loop ends after its first pass.
CheckSeen_once ==
  /\ pc = "check" /\ elapsed <= Timeout
  /\ ToReply /\ UNCHANGED <<waiting, elapsed>>
  /\ UNCHANGED <<fn, id, status, left, got, suspect, chip>>

CheckSeen ==
  /\ pc = "check" /\ elapsed <= Timeout /\ Seen
  /\ IF waiting = "CTS" /\ API[fn].waitStc
     THEN ToWait("STCINT") /\ UNCHANGED ret
     ELSE ToReply /\ UNCHANGED <<waiting, elapsed>>
  /\ suspect' = suspect \union (IF status.real THEN {} ELSE {"garbage"})
  /\ UNCHANGED <<fn, id, status, left, got, chip>>

\* One read_reply with a data buffer; a tuner that is executing a command
\* has no reply to give.
ReadReply ==
  /\ pc = "reply"
  /\ left' = left - 1
  /\ got' = IF exec = 0 THEN replyOf ELSE 0
  /\ IF left = 1 THEN Return("ok") ELSE UNCHANGED <<pc, ret>>
  /\ UNCHANGED <<fn, id, waiting, elapsed, status, suspect, chip>>

ReadFails ==
  /\ pc = "reply"
  /\ left' = left - 1 /\ got' = 0
  /\ IF API[fn].checkRead
     THEN Return("ioerr") /\ UNCHANGED suspect
     ELSE /\ IF left = 1 THEN Return("ok") ELSE UNCHANGED <<pc, ret>>
          /\ suspect' = suspect \union {"unread"}
  /\ UNCHANGED <<fn, id, waiting, elapsed, status, chip>>

\* malloc fails before the last read.
AllocFails ==
  /\ pc = "reply" /\ left = 1 /\ API[fn].oom # "none"
  /\ got' = 0
  /\ IF API[fn].oom = "error"
     THEN Return("nomem") /\ UNCHANGED suspect
     ELSE Return("ok") /\ suspect' = suspect \union {"unread"}
  /\ UNCHANGED <<fn, id, waiting, elapsed, status, left, chip>>

\* Time passes in the polling loop.
Tick ==
  /\ pc \in {"poll", "check"} /\ elapsed <= Timeout
  /\ elapsed' = elapsed + 1
  /\ UNCHANGED <<pc, fn, id, waiting, status, left, got, ret, suspect, chip>>

-----------------------------------------------------------------------------
(* The tuner. *)

\* It is done with a command: CTS is set and the reply is ready.  The command
\* may start a tune, which may clear STCINT, or acknowledge STCINT.
ChipFinish ==
  /\ exec # 0
  /\ exec' = 0 /\ replyOf' = exec
  /\ tuning' = IF API[execFn].tunes THEN exec ELSE tuning
  /\ stc' \in IF API[execFn].ackStc THEN {FALSE}
              ELSE IF API[execFn].tunes THEN {stc, FALSE} ELSE {stc}
  /\ UNCHANGED <<host, execFn, tunedBy>>

ChipTuned ==
  /\ tuning # 0
  /\ tuning' = 0 /\ tunedBy' = tuning /\ stc' = TRUE
  /\ UNCHANGED <<host, exec, execFn, replyOf>>

-----------------------------------------------------------------------------
Step ==
  \/ SendCommand \/ SendFails
  \/ PollReads \/ CheckTimeout \/ CheckAgain \/ CheckSeen
  \/ ReadReply \/ ReadFails \/ AllocFails

Next ==
  \/ \E f \in Fn : Call(f)
  \/ Step \/ Tick
  \/ ChipFinish \/ ChipTuned

\* The process runs and the clock advances; nothing is asked of the tuner.
Fairness == WF_vars(Step) /\ WF_vars(Tick)

Spec == Init /\ [][Next]_vars /\ Fairness

-----------------------------------------------------------------------------
TypeOK ==
  /\ pc \in {"idle", "send", "poll", "check", "reply"}
  /\ fn \in Fn /\ id \in 0 .. MaxCalls
  /\ waiting \in {"CTS", "STCINT"}
  /\ elapsed \in 0 .. Timeout + 1
  /\ status \in [cts : BOOLEAN, stc : BOOLEAN, real : BOOLEAN]
  /\ left \in 0 .. 2 /\ (pc = "reply" => left > 0)
  /\ ret \in {"none", "ok"} \union Errors
  /\ suspect \subseteq Faults
  /\ execFn \in Fn /\ stc \in BOOLEAN
  /\ {got, exec, replyOf, tuning, tunedBy} \subseteq 0 .. id

Succeeded == pc = "idle" /\ ret = "ok"

\* si468x_send_command_wait_cts_read_reply and its hand-written copies: when
\* a function that waits for CTS returns 0, the tuner is done with the very
\* command this call sent, unless the write failed and nobody looked, the
\* tuner was still busy with an older command, or the polled status was
\* never filled.
OkMeansDone ==
  Succeeded /\ API[fn].waitCts
    /\ suspect \intersect {"lost", "busy", "garbage"} = {}
    => replyOf = id

\* Under the same conditions the data the caller decodes is the reply to this
\* call's command, not to an older one and not what the bus held before the
\* reply was there (the CTS wait in front of every read_reply).
ReplyOwn ==
  Succeeded /\ API[fn].waitCts /\ API[fn].reads > 0
    /\ suspect \intersect {"lost", "busy", "garbage", "unread"} = {}
    => got = id

\* si468x_dab_tune_freq returns 0 only when the tune it started has finished.
\* STCINT does not say which tune finished, and no tune acknowledges it: the
\* promise needs a tuner without a running tune and without a stale STCINT.
TuneComplete ==
  Succeeded /\ API[fn].waitStc /\ suspect = {} => tunedBy = id

\* After a 0 from a function that waits for CTS the tuner is ready for the
\* next command, whatever happened to this one: the next send is "busy" only
\* after an error or after si468x_get_sys_state.
ChipIdleAfterOk ==
  Succeeded /\ API[fn].waitCts /\ "garbage" \notin suspect => exec = 0

\* Every call returns, even if the tuner never answers.
CallReturns == pc # "idle" ~> pc = "idle"

-----------------------------------------------------------------------------
(***************************************************************************)
(* Why these hold: the inductive invariant, in parts.                      *)
(***************************************************************************)
Sent  == pc \in {"poll", "check", "reply"} \/ Succeeded
Heard == Succeeded \/ pc = "reply"
           \/ (pc \in {"poll", "check"} /\ waiting = "STCINT")

\* A call that was not sent yet: everything the tuner knows is older.
Fresh ==
  /\ id = 0 => pc = "idle" /\ ret = "none"
  /\ pc = "send" =>
       /\ suspect = {} /\ ~status.real /\ left = API[fn].reads
       /\ \A n \in {exec, replyOf, tuning, tunedBy} : n < id
  /\ pc \in {"poll", "check"} => API[fn].waitCts /\ left = API[fn].reads

\* The command is with the tuner, or the tuner is done with it.
Owned ==
  /\ Sent /\ suspect \intersect {"lost", "busy"} = {} =>
       (exec = id /\ execFn = fn) \/ (exec = 0 /\ replyOf = id)
  /\ exec # 0 => replyOf # id

\* CTS in a status that was read is CTS of the tuner, for the rest of the call.
Ready ==
  /\ status.real /\ status.cts => exec = 0
  /\ Heard /\ API[fn].waitCts /\ "garbage" \notin suspect => exec = 0
  /\ pc = "reply" /\ ~API[fn].waitCts => "nowait" \in suspect

\* The reply that was read is the reply to this call.
Replied ==
  /\ left <= API[fn].reads
  /\ Succeeded /\ "unread" \notin suspect => left = 0
  /\ (pc = "reply" \/ Succeeded)
         /\ left < API[fn].reads /\ API[fn].waitCts
         /\ suspect \intersect {"lost", "busy", "garbage", "unread"} = {}
         => got = id

\* A tune goes from the command to the tuner to STCINT.
Tuned ==
  Sent /\ suspect = {} /\ API[fn].tunes =>
    /\ \/ exec = id /\ tuning = 0 /\ ~stc
       \/ exec = 0 /\ tuning = id /\ ~stc
       \/ exec = 0 /\ tuning = 0 /\ tunedBy = id
    /\ status.real /\ status.stc => tunedBy = id
    /\ API[fn].waitStc /\ (pc = "reply" \/ Succeeded) => tunedBy = id

\* The conjunction that every step preserves; it is what makes the properties
\* above hold whatever the functions, the deadline and the number of calls.
IInv == TypeOK /\ Fresh /\ Owned /\ Ready /\ Replied /\ Tuned

-----------------------------------------------------------------------------
\* Every step of the library and of the tuner is a step of the contract: a 0
\* without doubt means that this very command is executed and that the tuner
\* is free, however the calls before it ended.
phase == CASE pc = "idle" -> "idle"
           [] pc = "send" -> "sending"
           [] OTHER -> "waiting"
doubt ==
  (IF suspect \intersect {"lost", "busy"} = {} THEN {} ELSE {"sending"})
    \union
  (IF suspect \intersect {"garbage", "nowait"} = {} THEN {} ELSE {"waiting"})

Exchange == INSTANCE TunerExchange WITH
  Results <- {"ok"} \union Errors,
  busy    <- exec # 0,
  done    <- id > 0 /\ replyOf = id

ImplementsExchange == Exchange!Spec
=============================================================================
