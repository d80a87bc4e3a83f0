------------------------------ MODULE DabonCli ------------------------------
(***************************************************************************)
(* Several dabon-cli processes, started by hand, by scripts or by the      *)
(* dashboard, on the one tuner.  Nothing in the program locks the tuner:   *)
(* what keeps the processes apart is that the kernel (external) gives a    *)
(* GPIO line to one process at a time.  A process may be killed anywhere,  *)
(* and may give up on a command that the tuner goes on executing.          *)
(* Si468xLink has the inside of an exchange, FirmwareLoad that of          *)
(* start_tuner.                                                            *)
(***************************************************************************)
EXTENDS Naturals, ShellCommands

CONSTANTS
  Proc,     \* the processes; each is one run of dabon-cli
  Command,  \* the commands they are run with
  NoProc    \* nobody

ASSUME NoProcAssumption == NoProc \notin Proc

-----------------------------------------------------------------------------
VARIABLES
  pc,        \* where each process is
  cmd,       \* its command
  left,      \* exchanges it still has to do
  code,      \* its exit status
  resetLine, \* which process holds the reset line
  intLine,   \* which process holds the interrupt line
  exec,      \* whose command the tuner is executing
  blind      \* who took for CTS a status that no read ever filled

vars == <<pc, cmd, left, code, resetLine, intLine, exec, blind>>

Alive(p) == pc[p] \notin {"new", "gone"}

Init ==
  /\ pc = [p \in Proc |-> "new"]
  /\ cmd \in [Proc -> Command]
  /\ left = [p \in Proc |-> 0]
  /\ code = [p \in Proc |-> "none"]
  /\ resetLine = NoProc /\ intLine = NoProc /\ exec = NoProc
  /\ blind = {}

Goto(p, l) == pc' = [pc EXCEPT ![p] = l]

\* The process ends, and the kernel takes back its lines.
Exit(p, c) ==
  /\ Goto(p, "gone")
  /\ code' = [code EXCEPT ![p] = c]
  /\ resetLine' = IF resetLine = p THEN NoProc ELSE resetLine
  /\ intLine' = IF intLine = p THEN NoProc ELSE intLine

Start(p) ==
  /\ pc[p] = "new"
  /\ Goto(p, "spi")
  /\ UNCHANGED <<cmd, left, code, resetLine, intLine, exec, blind>>

\* Mutated form: only commands that reset the tuner request the lines.
SpiInit_only(p) ==
  /\ pc[p] = "spi"
  /\ \/ /\ Goto(p, IF Known(cmd[p]) /\ shell_commands[cmd[p]].reset
                   THEN "gpio" ELSE "run")
        /\ UNCHANGED <<code, resetLine, intLine>>
     \/ Exit(p, "err")
  /\ UNCHANGED <<cmd, left, exec, blind>>

\* si468x_spi_init: any number of processes may open the SPI device.
SpiInit(p) ==
  /\ pc[p] = "spi"
  /\ \/ Goto(p, "gpio") /\ UNCHANGED <<code, resetLine, intLine>>
     \/ Exit(p, "err")
  /\ UNCHANGED <<cmd, left, exec, blind>>

\* The first half of si468x_gpio_init; it may fail for other reasons too.
RequestReset(p) ==
  /\ pc[p] = "gpio"
  /\ \/ /\ resetLine = NoProc
        /\ Goto(p, "int") /\ resetLine' = p /\ UNCHANGED <<code, intLine>>
     \/ Exit(p, "err")
  /\ UNCHANGED <<cmd, left, exec, blind>>

\* The second half; gpiod_chip_close gives the reset line back.
RequestInt(p) ==
  /\ pc[p] = "int"
  /\ \/ /\ intLine = NoProc
        /\ Goto(p, "run") /\ intLine' = p /\ UNCHANGED <<code, resetLine>>
     \/ Exit(p, "err")
  /\ UNCHANGED <<cmd, left, exec, blind>>

\* main finds no such command and tests a command_ret that nobody set: its
\* exit status is 1, or the low byte of what the variable holds.
Unknown(p) ==
  /\ pc[p] = "run" /\ ~Known(cmd[p])
  /\ \E c \in {"ok", "err"} : Exit(p, c)
  /\ UNCHANGED <<cmd, left, exec, blind>>

\* A number that does not parse or is out of range, a file that cannot be
\* read.
BadInput(p) ==
  /\ pc[p] = "run" /\ Known(cmd[p]) /\ shell_commands[cmd[p]].input
  /\ Exit(p, "err")
  /\ UNCHANGED <<cmd, left, exec, blind>>

\* The command begins; a reset stops whatever the tuner was doing, unless the
\* line could not be set, which nobody looks at.
Begin(p) ==
  /\ pc[p] = "run" /\ Known(cmd[p])
  /\ left' = [left EXCEPT ![p] = shell_commands[cmd[p]].exchanges]
  /\ exec' \in {exec} \union
                (IF shell_commands[cmd[p]].reset THEN {NoProc} ELSE {})
  /\ IF shell_commands[cmd[p]].exchanges = 0
     THEN Exit(p, "ok")
     ELSE Goto(p, "send") /\ UNCHANGED <<code, resetLine, intLine>>
  /\ UNCHANGED <<cmd, blind>>

\* A busy tuner drops the command or takes it instead.
Send(p) ==
  /\ pc[p] = "send"
  /\ Goto(p, "wait")
  /\ exec' = p \/ (exec # NoProc /\ UNCHANGED exec)
  /\ UNCHANGED <<cmd, left, code, resetLine, intLine, blind>>

\* The exchange is over; with the last one the command is.
Continue(p, c) ==
  /\ left' = [left EXCEPT ![p] = left[p] - 1]
  /\ IF left[p] = 1
     THEN Exit(p, c)
     ELSE Goto(p, "send") /\ UNCHANGED <<code, resetLine, intLine>>

\* Mutated form: the answer is not waited for.
Receive_early(p) ==
  /\ pc[p] = "wait"
  /\ Continue(p, "ok")
  /\ UNCHANGED <<cmd, exec, blind>>

Receive(p) ==
  /\ pc[p] = "wait" /\ exec = NoProc
  /\ Continue(p, "ok")
  /\ UNCHANGED <<cmd, exec, blind>>

\* Mutated form: the polling loop has no deadline.
ExchangeFails_nodeadline(p) ==
  /\ pc[p] = "send"
  /\ IF shell_commands[cmd[p]].returns
     THEN Exit(p, "err") /\ UNCHANGED left
     ELSE Continue(p, "ok")
  /\ UNCHANGED <<cmd, exec, blind>>

\* Every read of the status failed, and the stack held a CTS.
ReceiveBlind(p) ==
  /\ pc[p] = "wait"
  /\ Continue(p, "ok")
  /\ blind' = blind \union {p}
  /\ UNCHANGED <<cmd, exec>>

\* The send or the read fails or the deadline passes: the command ends with
\* the error, or goes on as if nothing had happened.
ExchangeFails(p) ==
  /\ pc[p] \in {"send", "wait"}
  /\ IF shell_commands[cmd[p]].returns
     THEN Exit(p, "err") /\ UNCHANGED left
     ELSE Continue(p, "ok")
  /\ UNCHANGED <<cmd, exec, blind>>

Killed(p) ==
  /\ Alive(p)
  /\ Exit(p, "killed")
  /\ UNCHANGED <<cmd, left, exec, blind>>

\* The tuner (external) is done with a command.
ChipDone ==
  /\ exec # NoProc
  /\ exec' = NoProc
  /\ UNCHANGED <<pc, cmd, left, code, resetLine, intLine, blind>>

Step(p) ==
  \/ SpiInit(p) \/ RequestReset(p) \/ RequestInt(p)
  \/ Unknown(p) \/ BadInput(p) \/ Begin(p)
  \/ Send(p) \/ Receive(p) \/ ExchangeFails(p)

Next ==
  \/ \E p \in Proc : Start(p) \/ Step(p) \/ ReceiveBlind(p) \/ Killed(p)
  \/ ChipDone

\* Every process that was started runs; nothing is asked of the tuner, since
\* every exchange ends by itself (CallReturns of Si468xLink).
Fairness == \A p \in Proc : WF_vars(Step(p))

Spec == Init /\ [][Next]_vars /\ Fairness

-----------------------------------------------------------------------------
TypeOK ==
  /\ pc \in [Proc -> {"new", "spi", "gpio", "int", "run", "send", "wait",
                      "gone"}]
  /\ cmd \in [Proc -> Command]
  /\ left \in [Proc -> 0 .. 2]
  /\ code \in [Proc -> {"none", "ok", "err", "killed"}]
  /\ {resetLine, intLine, exec} \subseteq Proc \union {NoProc}
  /\ blind \subseteq Proc

\* Drives the reset line or talks to the tuner.
Using(p) == pc[p] \in {"run", "send", "wait"}

\* Two processes never use the tuner at the same time, although none of them
\* locks it: si468x_platform_init fails in all but one.  While a process
\* waits, the tuner executes its command, or one that was given up before,
\* but never one that another process still waits for.
OneAtATime ==
  /\ \A p, q \in Proc : Using(p) /\ Using(q) => p = q
  /\ \A p \in Proc :
       pc[p] = "wait" /\ exec \notin {p, NoProc} => pc[exec] = "gone"

\* However processes end, they leave no line behind that would keep all later
\* ones out, and a process is never stuck with half of the lines because
\* another one has the other half.
NoLineLeft ==
  /\ resetLine # NoProc => Alive(resetLine)
  /\ intLine # NoProc => resetLine = intLine

\* A tuner that is busy when nobody waits for it was left so by a process
\* that told its caller: it was killed or its exit status is not 0.  The
\* five commands that drop the library's result do not tell, nor does one
\* that believed a status it never read.
BusyIsTold ==
  exec # NoProc /\ pc[exec] = "gone" =>
    \/ code[exec] # "ok"
    \/ ~shell_commands[cmd[exec]].returns
    \/ exec \in blind

-----------------------------------------------------------------------------
(***************************************************************************)
(* Why these hold: the inductive invariant, in parts.                      *)
(***************************************************************************)
\* The line a process got is its own until it ends.
Lines ==
  \A p \in Proc :
    /\ resetLine = p <=> pc[p] = "int" \/ Using(p)
    /\ intLine = p <=> Using(p)

\* Only a process in the middle of a known command talks to the tuner.
InCommand ==
  \A p \in Proc :
    pc[p] \in {"send", "wait"} => Known(cmd[p]) /\ left[p] \in 1 .. 2

\* A process is not at its next step while its command is executed, unless
\* it drops errors or believed a status it never read.
Owner ==
  \A p \in Proc : exec = p =>
    /\ pc[p] \in {"send", "wait", "gone"}
    /\ pc[p] = "send" => ~shell_commands[cmd[p]].returns \/ p \in blind

\* The conjunction that every step preserves.
IInv == TypeOK /\ Lines /\ InCommand /\ Owner /\ BusyIsTold

-----------------------------------------------------------------------------
\* Every process ends.
Ends == \A p \in Proc : Alive(p) ~> pc[p] = "gone"
=============================================================================
