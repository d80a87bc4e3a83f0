--------------------------- MODULE DaemonScripts ---------------------------
(***************************************************************************)
(* The init scripts S95pipewire (pipewire and wireplumber) and             *)
(* S99dabondashboard.  A script is the list of the steps that are left of  *)
(* the command it was called with; the daemons run beside it.              *)
(* start-stop-daemon is Busybox's: -S -b -m returns once it has forked,    *)
(* and the child writes the pid file and executes the daemon later; with   *)
(* -x and -p, -S refuses when the pid file names a process that runs the   *)
(* program; -K sends TERM and waits for nothing.                           *)
(***************************************************************************)
EXTENDS Naturals, Sequences

CONSTANTS
  Tries,     \* looks at the socket; 50 in the source
  MaxPids,   \* bound on the processes that are launched
  MaxDeaths  \* bound on the daemons that end by themselves

ASSUME DaemonsAssumption ==
  Tries \in Nat \ {0} /\ MaxPids \in Nat /\ MaxDeaths \in Nat

Daemons == {"pipewire", "wireplumber", "dashboard"}
Scripts == {"S95pipewire", "S99dabondashboard"}

VARIABLES
  todo,    \* steps of the command the script has still to do
  tries,   \* looks at the socket so far, i in the source
  proc,    \* the processes launched so far, by pid
  pidfile, \* of each daemon: the pid in it, 0 when there is no file
  socket,  \* the pid that made the socket file, 0 when there is no file
  (* for the properties only *)
  deaths,  \* daemons that ended by themselves
  clean,   \* no pipewire and no socket when pipewire was launched last
  late,    \* the pipewire whose socket the last start gave up on, 0: none
  overlap  \* a daemon was launched before the child of the last launch
           \* had written its pid

vars == <<todo, tries, proc, pidfile, socket, deaths, clean, late, overlap>>

Pids == DOMAIN proc
Of(d) == {p \in Pids : proc[p].of = d}
Is(states) == {p \in Pids : proc[p].is \in states}
Executed == Is({"running", "serving"})
Alive == Is({"forked", "running", "serving", "ending"})

Init ==
  /\ todo = <<>> /\ tries = 0
  /\ proc = <<>> /\ pidfile = [d \in Daemons |-> 0] /\ socket = 0
  /\ deaths = 0 /\ clean = FALSE /\ late = 0 /\ overlap = FALSE

(* The scripts. *)

Op(op, d) == [op |-> op, of |-> d]

Start(script) ==
  IF script = "S95pipewire"
  THEN <<Op("launch", "pipewire"), Op("wait", "pipewire"),
         Op("launch", "wireplumber")>>
  ELSE <<Op("launch", "dashboard")>>

Stop(script) ==
  IF script = "S95pipewire"
  THEN <<Op("kill", "wireplumber"), Op("rm", "wireplumber"),
         Op("kill", "pipewire"), Op("rm", "pipewire")>>
  ELSE <<Op("kill", "dashboard"), Op("rm", "dashboard")>>

Command(script, cmd) ==
  CASE cmd = "start"   -> Start(script)
    [] cmd = "stop"    -> Stop(script)
    [] cmd = "restart" -> Stop(script) \o Start(script)

Call(script, cmd) ==
  /\ todo = <<>> /\ Len(proc) + 2 <= MaxPids
  /\ todo' = Command(script, cmd)
  /\ tries' = 0
  /\ UNCHANGED <<proc, pidfile, socket, deaths, clean, late, overlap>>

Doing(op) == todo # <<>> /\ Head(todo).op = op
Daemon == Head(todo).of

\* A step that only decides what is done next.
GoOn(rest) ==
  /\ todo' = rest
  /\ UNCHANGED <<tries, proc, pidfile, socket, deaths, clean, late, overlap>>

\* The process -S finds: the one in the pid file, if it runs the program.
\* The child of a launch does not yet.
Found(d) ==
  Of(d) \intersect {pidfile[d]} \intersect Is({"running", "serving", "ending"})

\* The file is overwritten by the child, so there is a time without it.
Launch ==
  /\ Doing("launch") /\ Found(Daemon) = {}
  /\ todo' = Tail(todo)
  /\ proc' = Append(proc, [of |-> Daemon, is |-> "forked"])
  /\ overlap' = (overlap \/ Of(Daemon) \intersect Is({"forked"}) # {})
  /\ clean' = IF Daemon = "pipewire"
              THEN socket = 0 /\ Alive \intersect Of(Daemon) = {} ELSE clean
  /\ UNCHANGED <<tries, pidfile, socket, deaths, late>>

\* Already running: FAIL, and start returns.
LaunchRefused ==
  /\ Doing("launch") /\ Found(Daemon) # {}
  /\ GoOn(<<>>)

\* Mutated form: the socket is not waited for.
SocketThere_any == TRUE

SocketThere == socket # 0

\* Mutated form: what follows is done without the socket.
OnTimeout_goon == Tail(todo)

OnTimeout == <<>>

Wait ==
  /\ Doing("wait") /\ SocketThere
  /\ GoOn(Tail(todo))

\* Mutated form: the looks are not counted.
WaitAgain_forever ==
  /\ Doing("wait") /\ ~SocketThere
  /\ UNCHANGED vars

WaitAgain ==
  /\ Doing("wait") /\ ~SocketThere /\ tries + 1 < Tries
  /\ tries' = tries + 1
  /\ UNCHANGED <<todo, proc, pidfile, socket, deaths, clean, late, overlap>>

GiveUp ==
  /\ Doing("wait") /\ ~SocketThere /\ tries + 1 >= Tries
  /\ todo' = OnTimeout
  /\ tries' = tries + 1
  /\ late' = Len(proc)
  /\ UNCHANGED <<proc, pidfile, socket, deaths, clean, overlap>>

Kill ==
  /\ Doing("kill") /\ pidfile[Daemon] \in Alive
  /\ todo' = Tail(todo)
  /\ proc' = [proc EXCEPT ![pidfile[Daemon]].is = "ending"]
  /\ UNCHANGED <<tries, pidfile, socket, deaths, clean, late, overlap>>

\* Mutated form: the pid file is removed all the same.
KillFails_rm ==
  /\ Doing("kill") /\ pidfile[Daemon] \notin Alive
  /\ GoOn(Tail(todo))

\* No file, or nothing to kill: FAIL, and the file stays.
KillFails ==
  /\ Doing("kill") /\ pidfile[Daemon] \notin Alive
  /\ GoOn(Tail(Tail(todo)))

RemovePidfile ==
  /\ Doing("rm")
  /\ todo' = Tail(todo)
  /\ pidfile' = [pidfile EXCEPT ![Daemon] = 0]
  /\ UNCHANGED <<tries, proc, socket, deaths, clean, late, overlap>>

Script ==
  \/ Launch \/ LaunchRefused \/ Wait \/ WaitAgain \/ GiveUp
  \/ Kill \/ KillFails \/ RemovePidfile

(* The daemons, external. *)

Becomes(p, state) == proc' = [proc EXCEPT ![p].is = state]

\* start-stop-daemon's child: write_pidfile, then exec.
Exec(p) ==
  /\ proc[p].is = "forked"
  /\ Becomes(p, "running")
  /\ pidfile' = [pidfile EXCEPT ![proc[p].of] = p]
  /\ UNCHANGED <<todo, tries, socket, deaths, clean, late, overlap>>

\* pipewire takes the place of a socket file nobody serves.
Listen(p) ==
  /\ proc[p].is = "running" /\ proc[p].of = "pipewire"
  /\ socket \notin Is({"serving", "ending"})
  /\ Becomes(p, "serving") /\ socket' = p
  /\ UNCHANGED <<todo, tries, pidfile, deaths, clean, late, overlap>>

\* After TERM, or because another pipewire holds the socket.  One that
\* served removes its socket file.
End(p) ==
  /\ \/ proc[p].is = "ending"
     \/ /\ proc[p].is = "running" /\ proc[p].of = "pipewire"
        /\ socket \in Is({"serving", "ending"})
  /\ Becomes(p, "gone")
  /\ socket' = IF socket = p THEN 0 ELSE socket
  /\ UNCHANGED <<todo, tries, pidfile, deaths, clean, late, overlap>>

\* Any daemon may fail; the socket file of a pipewire that crashed stays.
Crash(p) ==
  /\ deaths < MaxDeaths /\ p \in Executed
  /\ Becomes(p, "gone") /\ deaths' = deaths + 1
  /\ UNCHANGED <<todo, tries, pidfile, socket, clean, late, overlap>>

Next ==
  \/ \E s \in Scripts, c \in {"start", "stop", "restart"} : Call(s, c)
  \/ Script
  \/ \E p \in Pids : Exec(p) \/ Listen(p) \/ End(p) \/ Crash(p)

\* The kernel schedules the script.
Spec == Init /\ [][Next]_vars /\ WF_vars(Script)

(* Properties. *)

\* No orphan: a daemon that runs and was not told to end is the one its pid
\* file names, so that stop reaches it and start refuses a second one -
\* unless a command was given before the child of the one before had
\* written its pid.  And no pid file names a process of another daemon
\* (S95pipewire:26,45,54-72, S99dabondashboard:11,19-28).
NoOrphan ==
  /\ ~overlap => \A p \in Executed : pidfile[proc[p].of] = p
  /\ \A d \in Daemons : pidfile[d] \in {0} \union Of(d)

\* The pipewire that was launched last.
Newest(p) == p \in Of("pipewire") /\ \A q \in Of("pipewire") : q <= p

\* On a system without an old pipewire or its socket, wireplumber is
\* launched only when the pipewire launched before it has made its socket
\* (S95pipewire:32-51).
SocketFirst ==
  [][Launch /\ Daemon = "wireplumber" /\ clean => Newest(socket)]_vars

\* A start that gave up on the socket is not made good by the next one: as
\* long as that pipewire runs, however long its socket has been there, no
\* start gets to wireplumber (S95pipewire:26-30,36-39).
LateIsStuck ==
  [][Launch /\ Daemon = "wireplumber" /\ ~overlap => late \notin Executed]_vars

\* S95pipewire:32, "WirePlumber needs the pipewire socket to be up before it
\* connects": when wireplumber is launched, a pipewire that was not told to
\* end serves the socket.
SocketIsUp ==
  [][Launch /\ Daemon = "wireplumber" => socket \in Is({"serving"})]_vars

\* Every command ends, whatever the daemons do (S95pipewire:34-41).
CommandEnds == todo # <<>> ~> todo = <<>>

-----------------------------------------------------------------------------
(***************************************************************************)
(* Why these hold: the inductive invariant, in parts.                      *)
(***************************************************************************)
TypeOK ==
  /\ todo \in Seq([op : {"launch", "wait", "kill", "rm"}, of : Daemons])
  /\ proc \in Seq([of : Daemons, is : {"forked", "running", "serving",
                                       "ending", "gone"}])
  /\ pidfile \in [Daemons -> Nat]
  /\ {tries, deaths} \subseteq Nat
  /\ {clean, overlap} \subseteq BOOLEAN
  /\ {socket, late} \subseteq {0} \union Of("pipewire")

\* A pid file is removed by who has killed the process; wireplumber is
\* launched by who has waited for the pipewire just launched.
Follows(a, b) ==
  /\ b.op = "rm" <=> a.op = "kill"
  /\ b.op = "rm" => a.of = b.of
  /\ b.op = "wait" <=> a = Op("launch", "pipewire")
  /\ b = Op("launch", "wireplumber") <=> a.op = "wait"

Ordered(steps) ==
  /\ \A i \in 1 .. Len(steps) - 1 : Follows(steps[i], steps[i + 1])
  /\ steps # <<>> => /\ steps[Len(steps)].op \in {"rm", "launch"}
                     /\ steps[Len(steps)] # Op("launch", "pipewire")

InOrder == Ordered(todo)

\* A child has not written its pid; the process a pid file names that is
\* alive is the only one of its daemon that was not told to end, as long as
\* no launch overlapped another.
OneOfEach ==
  /\ \A p \in Is({"forked"}), d \in Daemons : pidfile[d] # p
  /\ ~overlap => \A p \in Is({"forked"}) :
       /\ pidfile[proc[p].of] \notin Alive
       /\ \A q \in Is({"forked"}) : proc[p].of = proc[q].of => p = q

\* Whose pid file is about to be removed has been told to end.
ToldToEnd ==
  ~overlap /\ Doing("rm") =>
    Of(Daemon) \intersect Is({"forked", "running", "serving"}) = {}

\* Until wireplumber is launched, nobody stops the pipewire it needs.
Starting ==
  Doing("wait") \/ (Doing("launch") /\ Daemon = "wireplumber")

\* After a clean launch only that pipewire is there, and no other's socket.
OnlyNewest ==
  clean =>
    \E p \in Of("pipewire") :
      /\ Newest(p)
      /\ Of("pipewire") \intersect Alive \subseteq {p}
      /\ socket \in {0, p}
      /\ socket = p => proc[p].is \notin {"forked", "running"}
      /\ Starting => proc[p].is # "ending"
      /\ Starting /\ ~Doing("wait") => socket = p

\* The wait is for the process launched last, and the pipewire that an
\* earlier start gave up on has been stopped before.
LateIsStopped ==
  /\ Doing("wait") => proc # <<>> /\ proc[Len(proc)].of = "pipewire"
  /\ ~overlap /\ Starting => late = 0 \/ late \in Is({"ending", "gone"})

\* The conjunction that every step preserves.
IInv ==
  /\ TypeOK /\ InOrder /\ OneOfEach /\ NoOrphan /\ ToldToEnd
  /\ OnlyNewest /\ LateIsStopped
=============================================================================
