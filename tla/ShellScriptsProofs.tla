------------------------- MODULE ShellScriptsProofs -------------------------
(***************************************************************************)
(* Proofs for ShellScripts: the init scripts and their daemons, the mixer  *)
(* scripts, then both.                                                     *)
(***************************************************************************)
EXTENDS ShellScripts, SequenceTheorems, TLAPS

Steps == [op : {"launch", "wait", "kill", "rm"}, of : Daemons]
States == {"forked", "running", "serving", "ending", "gone"}
Process == [of : Daemons, is : States]

-----------------------------------------------------------------------------
(* What the steps of a command are. *)

\* Without its first step, a command is in order still.
LEMMA TailOrdered ==
  ASSUME NEW s \in Seq(Steps), Ordered(s), s # <<>>
  PROVE  /\ Tail(s) \in Seq(Steps) /\ Ordered(Tail(s)) /\ Head(s) \in Steps
         /\ Tail(s) # <<>> => Follows(Head(s), Head(Tail(s)))
         /\ Head(s).op \in {"kill", "wait"} => Tail(s) # <<>>
         /\ Head(s) = Op("launch", "pipewire") => Tail(s) # <<>>
<1>1. /\ Len(s) \in Nat /\ Len(s) >= 1
      /\ Tail(s) \in Seq(Steps) /\ Len(Tail(s)) = Len(s) - 1
      /\ \A i \in 1 .. Len(s) - 1 : Tail(s)[i] = s[i + 1]
      /\ Head(s) = s[1]
  OBVIOUS
<1>2. Tail(s) # <<>> <=> Len(s) - 1 # 0
  BY <1>1, EmptySeq
<1>3. Tail(s) # <<>> =>
        /\ Head(Tail(s)) = Tail(s)[1]
        /\ 1 \in 1 .. Len(s) - 1 /\ Tail(s)[1] = s[2]
  BY <1>1, <1>2
<1>4. Tail(s) # <<>> => Follows(Head(s), Head(Tail(s)))
  BY <1>1, <1>3 DEF Ordered
<1>5. Ordered(Tail(s))
  <2>1. ASSUME NEW i \in 1 .. Len(Tail(s)) - 1
        PROVE  Follows(Tail(s)[i], Tail(s)[i + 1])
    <3>1. /\ i + 1 \in 1 .. Len(s) - 1 /\ i \in 1 .. Len(s) - 1
          /\ Tail(s)[i] = s[i + 1] /\ Tail(s)[i + 1] = s[(i + 1) + 1]
      BY <1>1, <2>1
    <3> QED
      BY <3>1 DEF Ordered
  <2>2. Tail(s) # <<>> => Tail(s)[Len(Tail(s))] = s[Len(s)]
    BY <1>1, <1>2
  <2> QED
    BY <2>1, <2>2 DEF Ordered
<1>6. Tail(s) = <<>> => Head(s) = s[Len(s)]
  BY <1>1, <1>2
<1> QED
  BY <1>1, <1>4, <1>5, <1>6 DEF Ordered

\* What is at the head after a step.
LEMMA NextHead ==
  ASSUME TypeOK, InOrder, todo # <<>>, todo' = Tail(todo)
  PROVE  /\ todo' \in Seq(Steps) /\ InOrder' /\ Head(todo) \in Steps
         /\ Doing("rm")' => Doing("kill") /\ Daemon' = Daemon
         /\ Doing("wait")' => Head(todo) = Op("launch", "pipewire")
         /\ Starting' /\ ~Doing("wait")' => Doing("wait")
<1>1. todo \in Seq(Steps) /\ Ordered(todo)
  BY DEF TypeOK, Steps, InOrder
<1>2. /\ todo' \in Seq(Steps) /\ Ordered(todo') /\ Head(todo) \in Steps
      /\ todo' # <<>> => Follows(Head(todo), Head(todo'))
  BY <1>1, TailOrdered
<1>3. todo' # <<>> => Head(todo') \in Steps
  BY <1>2, TailOrdered
<1>4. Starting' /\ ~Doing("wait")' => Head(todo') = Op("launch", "wireplumber")
  BY <1>3 DEF Starting, Doing, Daemon, Op, Steps
<1> QED
  BY <1>2, <1>4 DEF Follows, Doing, Daemon, InOrder, Starting

\* Nothing is at the head of nothing.
LEMMA NoHead ==
  ASSUME todo' = <<>>
  PROVE  todo' \in Seq(Steps) /\ InOrder' /\ (\A op : ~Doing(op)')
<1>1. Len(todo') = 0
  BY EmptySeq
<1> QED
  BY <1>1 DEF InOrder, Ordered, Doing

\* After a kill that fails, neither a pid file is removed nor anything waited
\* for.
LEMMA SkippedHead ==
  ASSUME TypeOK, InOrder, Doing("kill"), todo' = Tail(Tail(todo))
  PROVE  todo' \in Seq(Steps) /\ InOrder' /\ ~Doing("rm")' /\ ~Starting'
<1>1. todo \in Seq(Steps) /\ Ordered(todo) /\ todo # <<>>
      /\ Head(todo).op = "kill"
  BY DEF TypeOK, Steps, InOrder, Doing
<1>2. /\ Tail(todo) \in Seq(Steps) /\ Ordered(Tail(todo))
      /\ Tail(todo) # <<>> /\ Head(Tail(todo)).op = "rm"
  BY <1>1, TailOrdered DEF Follows
<1>3. /\ todo' \in Seq(Steps) /\ Ordered(todo')
      /\ todo' # <<>> => Follows(Head(Tail(todo)), Head(todo'))
  BY <1>2, TailOrdered
<1>4. todo' # <<>> => Head(todo') \in Steps
  BY <1>3, TailOrdered
<1>5. Starting' /\ ~Doing("wait")' => Head(todo') = Op("launch", "wireplumber")
  BY <1>4 DEF Starting, Doing, Daemon, Op, Steps
<1> QED
  BY <1>2, <1>3, <1>5 DEF Follows, Doing, InOrder, Starting, Op

-----------------------------------------------------------------------------
(* What a change of a process leaves alone. *)

LEMMA PidsOfLaunched ==
  ASSUME TypeOK
  PROVE  /\ proc \in Seq(Process) /\ Len(proc) \in Nat
         /\ Pids = 1 .. Len(proc) /\ 0 \notin Pids
         /\ \A p \in Pids : proc[p] \in Process
<1>1. proc \in Seq(Process)
  BY DEF TypeOK, Process, States
<1>2. Len(proc) \in Nat /\ DOMAIN proc = 1 .. Len(proc)
  BY <1>1
<1> QED
  BY <1>1, <1>2 DEF Pids

LEMMA BecomesFacts ==
  ASSUME TypeOK, NEW p \in Pids, NEW st \in States, Becomes(p, st)
  PROVE  /\ proc' \in Seq(Process) /\ Len(proc') = Len(proc) /\ Pids' = Pids
         /\ \A q \in Pids : proc'[q].of = proc[q].of
         /\ \A q \in Pids : proc'[q].is = IF q = p THEN st ELSE proc[q].is
         /\ \A d : Of(d)' = Of(d)
<1>1. /\ proc \in Seq(Process) /\ Len(proc) \in Nat /\ Pids = 1 .. Len(proc)
      /\ \A q \in Pids : proc[q] \in Process
  BY PidsOfLaunched
<1>2. /\ DOMAIN proc' = Pids
      /\ \A q \in Pids : q # p => proc'[q] = proc[q]
      /\ proc'[p] = [proc[p] EXCEPT !.is = st]
  BY <1>1 DEF Becomes, Pids
<1>3. /\ proc'[p].of = proc[p].of /\ proc'[p].is = st
      /\ proc'[p] \in Process
  BY <1>1, <1>2 DEF Process
<1>4. proc' \in Seq(Process) /\ Len(proc') = Len(proc)
  BY <1>1, <1>2, <1>3 DEF Becomes
<1> QED
  BY <1>2, <1>3, <1>4 DEF Pids, Of

-----------------------------------------------------------------------------
(* The daemons. *)

\* Nothing that a command looks at but the processes changes.
LEMMA SameCommand ==
  ASSUME TypeOK, UNCHANGED todo
  PROVE  /\ \A op : Doing(op)' = Doing(op)
         /\ Daemon' = Daemon /\ Starting' = Starting /\ InOrder' = InOrder
BY DEF Doing, Daemon, Starting, InOrder, Ordered, Follows

\* The child of a launch writes its pid and becomes the daemon.
LEMMA ExecStep ==
  ASSUME IInv, NEW p \in Pids, Exec(p)
  PROVE  IInv'
<1> DEFINE d == proc[p].of
<1>1. /\ p \in Is({"forked"})
      /\ Becomes(p, "running") /\ pidfile' = [pidfile EXCEPT ![d] = p]
      /\ UNCHANGED <<todo, tries, socket, deaths, clean, late, overlap>>
  BY DEF Exec, Is
<1>2. /\ TypeOK /\ InOrder /\ OneOfEach /\ NoOrphan /\ ToldToEnd
      /\ OnlyNewest /\ LateIsStopped
  BY DEF IInv
<1>3. /\ proc' \in Seq(Process) /\ Len(proc') = Len(proc) /\ Pids' = Pids
      /\ \A q \in Pids : proc'[q].of = proc[q].of
      /\ \A q \in Pids :
           proc'[q].is = IF q = p THEN "running" ELSE proc[q].is
      /\ \A e : Of(e)' = Of(e)
  BY <1>1, <1>2, BecomesFacts DEF States
<1>4. /\ proc \in Seq(Process) /\ Len(proc) \in Nat
      /\ Pids = 1 .. Len(proc) /\ d \in Daemons /\ p \in Of(d)
  BY <1>2, PidsOfLaunched DEF Process, Of
<1>5. /\ \A op : Doing(op)' = Doing(op)
      /\ Daemon' = Daemon /\ Starting' = Starting /\ InOrder'
  BY <1>1, <1>2, SameCommand
<1>6. pidfile' \in [Daemons -> Nat]
  BY <1>1, <1>2, <1>4 DEF TypeOK
<1>7. \A e \in Daemons : pidfile'[e] = IF e = d THEN p ELSE pidfile[e]
  BY <1>1, <1>2 DEF TypeOK
<1> HIDE DEF d
<1>8. /\ Is({"forked"})' = Is({"forked"}) \ {p}
      /\ Executed' = Executed \union {p} /\ Alive' = Alive
  BY <1>1, <1>3 DEF Is, Executed, Alive
<1>9. TypeOK'
  BY <1>1, <1>2, <1>3, <1>6 DEF TypeOK, Process, States
<1>10. OneOfEach'
  <2>1. \A q \in Is({"forked"})', e \in Daemons : pidfile'[e] # q
    BY <1>2, <1>7, <1>8 DEF OneOfEach
  <2>2. ASSUME ~overlap, NEW q \in Is({"forked"})
        PROVE  /\ pidfile[proc[q].of] \notin Alive
               /\ proc[q].of = d => q = p
               /\ \A r \in Is({"forked"}) : proc[q].of = proc[r].of => q = r
               /\ q \in Pids /\ proc[q].of \in Daemons
    BY <1>1, <1>2, <2>2, PidsOfLaunched DEF OneOfEach, d, Is, Process
  <2> QED
    BY <1>1, <1>3, <1>7, <1>8, <2>1, <2>2 DEF OneOfEach
<1>11. NoOrphan'
  <2>1. ASSUME ~overlap, NEW q \in Executed, q # p
        PROVE  pidfile'[proc[q].of] = q /\ q \in Pids
    <3>1. pidfile[proc[q].of] = q /\ q \in Alive /\ q \in Pids
      BY <1>2, <2>1 DEF NoOrphan, Executed, Alive, Is
    <3>2. proc[q].of # d /\ proc[q].of \in Daemons
      BY <1>1, <1>2, <2>1, <3>1, PidsOfLaunched DEF OneOfEach, d, Process
    <3> QED
      BY <1>7, <3>1, <3>2
  <2> QED
    BY <1>1, <1>2, <1>3, <1>4, <1>7, <1>8, <2>1 DEF NoOrphan, d
<1>12. ToldToEnd'
  BY <1>1, <1>2, <1>3, <1>4, <1>5, <1>8 DEF ToldToEnd, Is, Of
<1>13. OnlyNewest'
  BY <1>1, <1>2, <1>3, <1>5, <1>8 DEF OnlyNewest, Newest, Of, Is
<1>14. LateIsStopped'
  BY <1>1, <1>2, <1>3, <1>4, <1>5 DEF LateIsStopped, Is
<1> QED
  BY <1>5, <1>9, <1>10, <1>11, <1>12, <1>13, <1>14 DEF IInv

\* A daemon that serves, or is gone, is no more of a trouble than before, but
\* for the socket.
LEMMA DaemonMoves ==
  ASSUME IInv, NEW p \in Pids, NEW st \in {"serving", "gone"}, Becomes(p, st),
         \/ st = "serving" /\ proc[p].is = "running"
         \/ st = "gone" /\ proc[p].is \in {"running", "serving", "ending"},
         UNCHANGED <<todo, tries, pidfile, clean, late, overlap>>,
         deaths' \in Nat, socket' \in {0} \union Of("pipewire")
  PROVE  /\ TypeOK' /\ InOrder' /\ OneOfEach' /\ NoOrphan' /\ ToldToEnd'
         /\ LateIsStopped' /\ Starting' = Starting
         /\ Doing("wait")' = Doing("wait")
<1>1. /\ TypeOK /\ InOrder /\ OneOfEach /\ NoOrphan /\ ToldToEnd
      /\ LateIsStopped
  BY DEF IInv
<1>2. /\ proc' \in Seq(Process) /\ Len(proc') = Len(proc) /\ Pids' = Pids
      /\ \A q \in Pids : proc'[q].of = proc[q].of
      /\ \A q \in Pids : proc'[q].is = IF q = p THEN st ELSE proc[q].is
      /\ \A e : Of(e)' = Of(e)
  BY <1>1, BecomesFacts DEF States
<1>3. /\ proc \in Seq(Process) /\ Len(proc) \in Nat /\ Pids = 1 .. Len(proc)
  BY <1>1, PidsOfLaunched
<1>4. /\ \A op : Doing(op)' = Doing(op)
      /\ Daemon' = Daemon /\ Starting' = Starting /\ InOrder'
  BY <1>1, SameCommand
<1>5. /\ Is({"forked"})' = Is({"forked"})
      /\ Executed' \subseteq Executed /\ Alive' \subseteq Alive
      /\ Is({"forked", "running", "serving"})' \subseteq
           Is({"forked", "running", "serving"})
      /\ Is({"ending", "gone"}) \subseteq Is({"ending", "gone"})'
      /\ Executed \subseteq Pids /\ Is({"forked"}) \subseteq Pids
  BY <1>2 DEF Is, Executed, Alive
<1>6. TypeOK'
  BY <1>1, <1>2 DEF TypeOK, Process, States
<1>7. OneOfEach'
  BY <1>1, <1>2, <1>5 DEF OneOfEach
<1>8. NoOrphan'
  BY <1>1, <1>2, <1>5 DEF NoOrphan
<1>9. ToldToEnd'
  BY <1>1, <1>2, <1>4, <1>5 DEF ToldToEnd
<1>10. LateIsStopped'
  <2>1. Doing("wait") => proc # <<>> /\ proc[Len(proc)].of = "pipewire"
    BY <1>1 DEF LateIsStopped
  <2>2. proc # <<>> => proc' # <<>> /\ Len(proc) \in Pids
    BY <1>2, <1>3, EmptySeq
  <2> QED
    BY <1>1, <1>2, <1>4, <1>5, <2>1, <2>2 DEF LateIsStopped
<1> QED
  BY <1>4, <1>6, <1>7, <1>8, <1>9, <1>10

\* pipewire makes its socket.
LEMMA ListenStep ==
  ASSUME IInv, NEW p \in Pids, Listen(p)
  PROVE  IInv'
<1>1. /\ proc[p].is = "running" /\ p \in Of("pipewire")
      /\ Becomes(p, "serving") /\ socket' = p
      /\ UNCHANGED <<todo, tries, pidfile, deaths, clean, late, overlap>>
  BY DEF Listen, Of
<1>2. TypeOK /\ OnlyNewest
  BY DEF IInv
<1>3. /\ TypeOK' /\ InOrder' /\ OneOfEach' /\ NoOrphan' /\ ToldToEnd'
      /\ LateIsStopped' /\ Starting' = Starting
      /\ Doing("wait")' = Doing("wait")
  BY <1>1, <1>2, DaemonMoves DEF TypeOK
<1>4. /\ Pids' = Pids
      /\ \A q \in Pids : proc'[q].is = IF q = p THEN "serving" ELSE proc[q].is
      /\ \A e : Of(e)' = Of(e)
  BY <1>1, <1>2, BecomesFacts DEF States
<1>5. p \in Alive /\ Alive' = Alive
  BY <1>1, <1>4 DEF Alive, Is
<1>6. OnlyNewest'
  BY <1>1, <1>2, <1>3, <1>4, <1>5 DEF OnlyNewest, Newest
<1> QED
  BY <1>3, <1>6 DEF IInv

\* A daemon ends; a pipewire that served takes its socket with it.
LEMMA EndStep ==
  ASSUME IInv, NEW p \in Pids, End(p)
  PROVE  IInv'
<1>1. /\ \/ proc[p].is = "ending"
         \/ /\ proc[p].is = "running" /\ proc[p].of = "pipewire"
            /\ socket \in Is({"serving", "ending"})
      /\ Becomes(p, "gone")
      /\ socket' = IF socket = p THEN 0 ELSE socket
      /\ UNCHANGED <<todo, tries, pidfile, deaths, clean, late, overlap>>
  BY DEF End
<1>2. TypeOK /\ OnlyNewest
  BY DEF IInv
<1>3. /\ TypeOK' /\ InOrder' /\ OneOfEach' /\ NoOrphan' /\ ToldToEnd'
      /\ LateIsStopped' /\ Starting' = Starting
      /\ Doing("wait")' = Doing("wait")
  BY <1>1, <1>2, DaemonMoves DEF TypeOK
<1>4. /\ Pids' = Pids
      /\ \A q \in Pids : proc'[q].is = IF q = p THEN "gone" ELSE proc[q].is
      /\ \A e : Of(e)' = Of(e)
  BY <1>1, <1>2, BecomesFacts DEF States
<1>5. p \in Alive /\ Alive' = Alive \ {p}
  BY <1>1, <1>4 DEF Alive, Is
<1>6. ASSUME clean PROVE OnlyNewest'
  <2>1. PICK n \in Of("pipewire") :
          /\ Newest(n)
          /\ Of("pipewire") \intersect Alive \subseteq {n}
          /\ socket \in {0, n}
          /\ socket = n => proc[n].is \notin {"forked", "running"}
          /\ Starting => proc[n].is # "ending"
          /\ Starting /\ ~Doing("wait") => socket = n
    BY <1>2, <1>6 DEF OnlyNewest
  <2>2. n \in Pids /\ 0 \notin Pids /\ Newest(n)'
    BY <1>2, <1>4, <2>1, PidsOfLaunched DEF Of, Newest
  <2>3. socket = p => p = n /\ proc[p].is = "ending"
    BY <1>1, <2>1, <2>2
  <2> QED
    BY <1>1, <1>3, <1>4, <1>5, <2>1, <2>2, <2>3 DEF OnlyNewest
<1>7. OnlyNewest'
  BY <1>1, <1>6 DEF OnlyNewest
<1> QED
  BY <1>3, <1>7 DEF IInv

\* A daemon crashes; its socket file stays.
LEMMA CrashStep ==
  ASSUME IInv, NEW p \in Pids, Crash(p)
  PROVE  IInv'
<1>1. /\ proc[p].is \in {"running", "serving"} /\ deaths' = deaths + 1
      /\ Becomes(p, "gone")
      /\ UNCHANGED <<todo, tries, pidfile, socket, clean, late, overlap>>
  BY DEF Crash, Executed, Is
<1>2. TypeOK /\ OnlyNewest
  BY DEF IInv
<1>3. deaths' \in Nat /\ socket' \in {0} \union Of("pipewire")
  BY <1>1, <1>2 DEF TypeOK
<1>4. /\ TypeOK' /\ InOrder' /\ OneOfEach' /\ NoOrphan' /\ ToldToEnd'
      /\ LateIsStopped' /\ Starting' = Starting
      /\ Doing("wait")' = Doing("wait")
  BY <1>1, <1>3, DaemonMoves
<1>5. /\ Pids' = Pids
      /\ \A q \in Pids : proc'[q].is = IF q = p THEN "gone" ELSE proc[q].is
      /\ \A e : Of(e)' = Of(e)
  BY <1>1, <1>2, BecomesFacts DEF States
<1>6. Alive' \subseteq Alive
  BY <1>1, <1>5 DEF Alive, Is
<1>7. OnlyNewest'
  BY <1>1, <1>2, <1>4, <1>5, <1>6 DEF OnlyNewest, Newest, Of
<1> QED
  BY <1>4, <1>7 DEF IInv

-----------------------------------------------------------------------------
(* The scripts. *)

\* Every command is in order, and begins with no step that needs one before.
LEMMA CommandOrdered ==
  ASSUME NEW script \in Scripts, NEW cmd \in {"start", "stop", "restart"}
  PROVE  LET c == Command(script, cmd)
         IN /\ c \in Seq(Steps) /\ Ordered(c) /\ c # <<>>
            /\ Head(c).op \in {"kill", "launch"}
            /\ Head(c) # Op("launch", "wireplumber")
<1>1. CASE script = "S95pipewire" /\ cmd = "start"
  <2>1. Command(script, cmd) =
          <<Op("launch", "pipewire"), Op("wait", "pipewire"),
            Op("launch", "wireplumber")>>
    BY <1>1 DEF Command, Start
  <2> QED
    BY <2>1 DEF Ordered, Follows, Op, Steps, Daemons
<1>2. CASE script = "S95pipewire" /\ cmd = "stop"
  <2>1. Command(script, cmd) =
          <<Op("kill", "wireplumber"), Op("rm", "wireplumber"),
            Op("kill", "pipewire"), Op("rm", "pipewire")>>
    BY <1>2 DEF Command, Stop
  <2> QED
    BY <2>1 DEF Ordered, Follows, Op, Steps, Daemons
<1>3. CASE script = "S95pipewire" /\ cmd = "restart"
  <2> DEFINE c == Command(script, cmd)
  <2>1. /\ c = Stop(script) \o Start(script)
        /\ Stop(script) =
             <<Op("kill", "wireplumber"), Op("rm", "wireplumber"),
               Op("kill", "pipewire"), Op("rm", "pipewire")>>
        /\ Start(script) =
             <<Op("launch", "pipewire"), Op("wait", "pipewire"),
               Op("launch", "wireplumber")>>
    BY <1>3 DEF Command, Start, Stop
  <2> HIDE DEF c
  <2>2. Stop(script) \in Seq(Steps) /\ Start(script) \in Seq(Steps)
    BY <2>1 DEF Op, Steps, Daemons
  <2>3. /\ c \in Seq(Steps) /\ Len(c) = 7
        /\ \A i \in 1 .. 4 : c[i] = Stop(script)[i]
        /\ \A i \in 5 .. 7 : c[i] = Start(script)[i - 4]
    BY <2>1, <2>2
  <2>4. /\ c[1] = Op("kill", "wireplumber") /\ c[2] = Op("rm", "wireplumber")
        /\ c[3] = Op("kill", "pipewire") /\ c[4] = Op("rm", "pipewire")
        /\ c[5] = Op("launch", "pipewire") /\ c[6] = Op("wait", "pipewire")
        /\ c[7] = Op("launch", "wireplumber")
    BY <2>1, <2>3
  <2>5. Ordered(c)
    BY <2>3, <2>4 DEF Ordered, Follows, Op
  <2>6. c \in Seq(Steps) /\ Len(c) = 7
    BY <2>3
  <2>7. c # <<>> /\ Head(c) = c[1]
    BY <2>6
  <2> QED
    BY <2>4, <2>5, <2>6, <2>7 DEF c, Op
<1>4. CASE script = "S99dabondashboard" /\ cmd = "start"
  <2>1. Command(script, cmd) = <<Op("launch", "dashboard")>>
    BY <1>4 DEF Command, Start
  <2> QED
    BY <2>1 DEF Ordered, Follows, Op, Steps, Daemons
<1>5. CASE script = "S99dabondashboard" /\ cmd = "stop"
  <2>1. Command(script, cmd) =
          <<Op("kill", "dashboard"), Op("rm", "dashboard")>>
    BY <1>5 DEF Command, Stop
  <2> QED
    BY <2>1 DEF Ordered, Follows, Op, Steps, Daemons
<1>6. CASE script = "S99dabondashboard" /\ cmd = "restart"
  <2> DEFINE c == Command(script, cmd)
  <2>1. /\ c = Stop(script) \o Start(script)
        /\ Stop(script) = <<Op("kill", "dashboard"), Op("rm", "dashboard")>>
        /\ Start(script) = <<Op("launch", "dashboard")>>
    BY <1>6 DEF Command, Start, Stop
  <2> HIDE DEF c
  <2>2. Stop(script) \in Seq(Steps) /\ Start(script) \in Seq(Steps)
    BY <2>1 DEF Op, Steps, Daemons
  <2>3. /\ c \in Seq(Steps) /\ Len(c) = 3
        /\ c[1] = Op("kill", "dashboard") /\ c[2] = Op("rm", "dashboard")
        /\ c[3] = Op("launch", "dashboard")
    BY <2>1, <2>2
  <2>4. Ordered(c)
    BY <2>3 DEF Ordered, Follows, Op
  <2>5. c # <<>> /\ Head(c) = c[1]
    BY <2>3, EmptySeq
  <2> QED
    BY <2>3, <2>4, <2>5 DEF c, Op
<1> QED
  BY <1>1, <1>2, <1>3, <1>4, <1>5, <1>6 DEF Scripts

\* A step that only decides what is done next disturbs nothing, if that
\* needs no more than what was to be done.
LEMMA ScriptGoesOn ==
  ASSUME IInv, todo' \in Seq(Steps), InOrder', ~Doing("rm")',
         UNCHANGED <<proc, pidfile, socket, deaths, clean, overlap>>,
         tries' \in Nat, late' \in {0} \union Of("pipewire"),
         Starting' => Starting /\ late' = late,
         Doing("wait")' => Doing("wait"),
         Starting' /\ ~Doing("wait")' => socket # 0
  PROVE  IInv'
<1>1. /\ TypeOK /\ OneOfEach /\ NoOrphan /\ OnlyNewest /\ LateIsStopped
  BY DEF IInv
<1>2. /\ \A S : Is(S)' = Is(S)
      /\ \A d : Of(d)' = Of(d)
      /\ Alive' = Alive /\ Executed' = Executed
  BY DEF Is, Of, Pids, Alive, Executed
<1>3. TypeOK'
  BY <1>1, <1>2 DEF TypeOK, Steps
<1>4. OneOfEach' /\ NoOrphan' /\ ToldToEnd'
  BY <1>1, <1>2 DEF OneOfEach, NoOrphan, ToldToEnd
<1>5. OnlyNewest'
  BY <1>1, <1>2 DEF OnlyNewest, Newest
<1>6. LateIsStopped'
  BY <1>1, <1>2 DEF LateIsStopped
<1> QED
  BY <1>3, <1>4, <1>5, <1>6 DEF IInv

\* A script is called.
LEMMA CallStep ==
  ASSUME IInv, NEW script \in Scripts,
         NEW cmd \in {"start", "stop", "restart"}, Call(script, cmd)
  PROVE  IInv'
<1>1. /\ todo' = Command(script, cmd) /\ tries' = 0
      /\ UNCHANGED <<proc, pidfile, socket, deaths, clean, late, overlap>>
  BY DEF Call
<1>2. /\ todo' \in Seq(Steps) /\ Ordered(todo') /\ todo' # <<>>
      /\ Head(todo').op \in {"kill", "launch"}
      /\ Head(todo') # Op("launch", "wireplumber")
  BY <1>1, CommandOrdered
<1>3. Head(todo') \in Steps
  BY <1>2, TailOrdered
<1>4. InOrder' /\ ~Doing("rm")' /\ ~Doing("wait")' /\ ~Starting'
  BY <1>2, <1>3 DEF InOrder, Doing, Starting, Daemon, Op, Steps
<1>5. late \in {0} \union Of("pipewire")
  BY DEF IInv, TypeOK
<1> QED
  BY <1>1, <1>2, <1>4, <1>5, ScriptGoesOn

\* The socket is there, or looked for once more, or given up.
LEMMA WaitStep ==
  ASSUME IInv, Wait \/ WaitAgain \/ GiveUp
  PROVE  IInv'
<1>1. /\ TypeOK /\ InOrder /\ LateIsStopped /\ Doing("wait")
      /\ tries' \in Nat
      /\ UNCHANGED <<proc, pidfile, socket, deaths, clean, overlap>>
  BY DEF IInv, TypeOK, Wait, WaitAgain, GiveUp, GoOn
<1>2. todo # <<>> /\ Head(todo).op = "wait" /\ Starting
  BY <1>1 DEF Doing, Starting
<1>3. late \in {0} \union Of("pipewire")
  BY <1>1 DEF TypeOK
<1>4. CASE Wait
  <2>1. /\ todo' = Tail(todo) /\ late' = late /\ socket # 0
    BY <1>4 DEF Wait, GoOn, SocketThere
  <2>2. /\ todo' \in Seq(Steps) /\ InOrder'
        /\ ~Doing("rm")' /\ ~Doing("wait")'
    BY <1>1, <1>2, <2>1, NextHead DEF Op, Doing
  <2> QED
    BY <1>1, <1>2, <1>3, <2>1, <2>2, ScriptGoesOn
<1>5. CASE WaitAgain
  <2>1. todo' = todo /\ late' = late
    BY <1>5 DEF WaitAgain
  <2>2. /\ todo' \in Seq(Steps) /\ InOrder'
        /\ ~Doing("rm")' /\ Doing("wait")' /\ Starting'
    BY <1>1, <1>2, <2>1, SameCommand DEF TypeOK, Steps, Doing
  <2> QED
    BY <1>1, <1>2, <1>3, <2>1, <2>2, ScriptGoesOn
<1>6. CASE GiveUp
  <2>1. todo' = <<>> /\ late' = Len(proc)
    BY <1>6 DEF GiveUp, OnTimeout
  <2>2. /\ todo' \in Seq(Steps) /\ InOrder' /\ \A op : ~Doing(op)'
    BY <2>1, NoHead
  <2>3. Len(proc) \in Of("pipewire")
    BY <1>1, PidsOfLaunched, EmptySeq DEF LateIsStopped, Of
  <2>4. ~Starting'
    BY <2>2 DEF Starting
  <2> QED
    BY <1>1, <2>1, <2>2, <2>3, <2>4, ScriptGoesOn
<1> QED
  BY <1>4, <1>5, <1>6

\* A daemon is not launched, or not killed: the script goes on elsewhere.
LEMMA RefusedStep ==
  ASSUME IInv, LaunchRefused \/ KillFails
  PROVE  IInv'
<1>1. /\ TypeOK /\ InOrder /\ tries' \in Nat /\ late' = late
      /\ late \in {0} \union Of("pipewire")
      /\ UNCHANGED <<proc, pidfile, socket, deaths, clean, overlap>>
  BY DEF IInv, TypeOK, LaunchRefused, KillFails, GoOn
<1>2. /\ todo' \in Seq(Steps) /\ InOrder' /\ ~Doing("rm")' /\ ~Starting'
  <2>1. CASE LaunchRefused
    BY <2>1, NoHead DEF LaunchRefused, GoOn, Starting
  <2>2. CASE KillFails
    BY <1>1, <2>2, SkippedHead DEF KillFails, GoOn
  <2> QED
    BY <2>1, <2>2
<1>3. ~Doing("wait")'
  BY <1>2 DEF Starting
<1> QED
  BY <1>1, <1>2, <1>3, ScriptGoesOn

\* A launch adds a child; if another is still to write its pid, that is noted.
LEMMA LaunchStep ==
  ASSUME IInv, Launch
  PROVE  IInv'
<1>0. PICK d, n : d = Daemon /\ n = Len(proc) + 1
  OBVIOUS
<1>1. /\ Doing("launch") /\ todo # <<>> /\ Head(todo).op = "launch"
      /\ Found(d) = {} /\ todo' = Tail(todo)
      /\ proc' = Append(proc, [of |-> d, is |-> "forked"])
      /\ overlap' = (overlap \/ Of(d) \intersect Is({"forked"}) # {})
      /\ clean' = IF d = "pipewire"
                  THEN socket = 0 /\ Alive \intersect Of(d) = {} ELSE clean
      /\ UNCHANGED <<tries, pidfile, socket, deaths, late>>
  BY <1>0 DEF Launch, Doing
<1>2. /\ TypeOK /\ InOrder /\ OneOfEach /\ NoOrphan /\ OnlyNewest
  BY DEF IInv
<1>3. /\ todo' \in Seq(Steps) /\ InOrder' /\ Head(todo) \in Steps
      /\ ~Doing("rm")'
      /\ Starting' => Doing("wait")' /\ d = "pipewire"
  BY <1>0, <1>1, <1>2, NextHead DEF Doing, Daemon, Op, Starting
<1>4. d \in Daemons
  BY <1>0, <1>3 DEF Daemon, Steps
<1>5. /\ proc \in Seq(Process) /\ Len(proc) \in Nat
      /\ Pids = 1 .. Len(proc) /\ 0 \notin Pids
      /\ \A p \in Pids : proc[p] \in Process
  BY <1>2, PidsOfLaunched
<1>6. [of |-> d, is |-> "forked"] \in Process
  BY <1>4 DEF Process, States
<1>7. /\ proc' \in Seq(Process) /\ Len(proc') = n /\ Pids' = Pids \union {n}
      /\ n \notin Pids /\ n # 0 /\ n <= n /\ \A q \in Pids : q <= n
      /\ proc'[n].of = d /\ proc'[n].is = "forked"
      /\ \A q \in Pids : proc'[q] = proc[q]
  BY <1>0, <1>1, <1>5, <1>6 DEF Pids
<1>8. /\ \A e : Of(e)' = IF e = d THEN Of(e) \union {n} ELSE Of(e)
      /\ Is({"forked"})' = Is({"forked"}) \union {n}
      /\ Executed' = Executed /\ Alive' = Alive \union {n}
      /\ Is({"ending", "gone"})' = Is({"ending", "gone"})
  BY <1>7 DEF Of, Is, Executed, Alive
<1>9. TypeOK'
  <2>1. clean' \in BOOLEAN /\ overlap' \in BOOLEAN
    BY <1>1, <1>2 DEF TypeOK
  <2> QED
    BY <1>1, <1>2, <1>3, <1>7, <1>8, <2>1 DEF TypeOK, Steps, Process, States
<1>10. /\ \A e \in Daemons : pidfile[e] # n
       /\ pidfile[d] \notin Alive
  <2>1. \A e \in Daemons : pidfile[e] \in {0} \union Of(e)
    BY <1>2 DEF NoOrphan
  <2>2. \A e : Of(e) \subseteq Pids
    BY DEF Of
  <2>3. pidfile[d] \notin Is({"forked"})
    BY <1>2, <1>4 DEF OneOfEach
  <2>4. pidfile[d] \notin Of(d) \intersect Is({"running", "serving", "ending"})
    BY <1>1 DEF Found
  <2>5. ASSUME pidfile[d] \in Alive PROVE FALSE
    <3>1. pidfile[d] \in Pids /\ pidfile[d] \in Of(d)
      BY <1>4, <1>5, <2>1, <2>5 DEF Alive, Is
    <3> QED
      BY <2>3, <2>4, <2>5, <3>1 DEF Alive, Is
  <2> QED
    BY <1>7, <2>1, <2>2, <2>5
<1>11. OneOfEach'
  <2>1. \A q \in Is({"forked"})', e \in Daemons : pidfile'[e] # q
    BY <1>1, <1>2, <1>8, <1>10 DEF OneOfEach
  <2>2. ASSUME ~overlap', NEW q \in Is({"forked"})'
        PROVE  /\ pidfile'[proc'[q].of] \notin Alive'
               /\ \A r \in Is({"forked"})' :
                    proc'[q].of = proc'[r].of => q = r
    <3>1. /\ ~overlap
          /\ \A r \in Is({"forked"}) :
               r \in Pids /\ proc[r].of # d /\ proc[r].of \in Daemons
      BY <1>1, <1>5, <2>2 DEF Of, Is, Process
    <3>2. /\ pidfile' = pidfile /\ Alive' = Alive \union {n}
          /\ \A r \in Is({"forked"})' :
               \/ r = n /\ proc'[r].of = d
               \/ /\ r \in Is({"forked"})
                  /\ proc'[r].of = proc[r].of /\ proc[r].of # d
      BY <1>1, <1>7, <1>8, <3>1
    <3>3. CASE q = n
      <4>1. proc'[q].of = d
        BY <1>7, <3>3
      <4>2. pidfile[d] \notin Alive' /\ pidfile' = pidfile
        BY <1>4, <1>10, <3>2
      <4>3. \A r \in Is({"forked"})' : proc'[r].of = d => r = n
        BY <3>2
      <4> QED
        BY <3>3, <4>1, <4>2, <4>3
    <3>4. CASE q \in Is({"forked"}) /\ q # n
      <4>1. /\ pidfile[proc[q].of] \notin Alive
            /\ \A r \in Is({"forked"}) : proc[q].of = proc[r].of => q = r
        BY <1>2, <3>1, <3>4 DEF OneOfEach
      <4>2. pidfile[proc[q].of] # n
        BY <1>10, <3>1, <3>4
      <4> QED
        BY <3>2, <3>4, <4>1, <4>2
    <3> QED
      BY <1>8, <2>2, <3>3, <3>4
  <2> QED
    BY <2>1, <2>2 DEF OneOfEach
<1>12. NoOrphan'
  <2>1. \A p \in Executed : proc'[p] = proc[p]
    BY <1>7 DEF Executed, Is
  <2>2. \A e : Of(e) \subseteq Of(e)'
    BY <1>8
  <2> QED
    BY <1>1, <1>2, <1>8, <2>1, <2>2 DEF NoOrphan
<1>13. ToldToEnd'
  BY <1>3 DEF ToldToEnd
<1>14. OnlyNewest'
  <2>1. CASE d = "pipewire"
    <3>1. Of("pipewire")' = Of("pipewire") \union {n}
      BY <1>8, <2>1
    <3>2. Of("pipewire") \subseteq Pids
      BY DEF Of
    <3>3. Newest(n)'
      BY <1>7, <3>1, <3>2 DEF Newest
    <3>4. ASSUME clean'
          PROVE  /\ Of("pipewire")' \intersect Alive' \subseteq {n}
                 /\ socket' = 0 /\ n \in Of("pipewire")'
                 /\ Starting' => Doing("wait")'
      BY <1>1, <1>3, <1>8, <2>1, <3>1, <3>4
    <3> QED
      BY <1>7, <3>3, <3>4 DEF OnlyNewest
  <2>2. CASE d # "pipewire"
    <3>1. Of("pipewire")' = Of("pipewire") /\ clean' = clean /\ ~Starting'
      BY <1>1, <1>3, <1>8, <2>2
    <3>2. n \notin Of("pipewire")
      BY <1>7 DEF Of
    <3>3. \A q \in Of("pipewire") : proc'[q] = proc[q]
      BY <1>7 DEF Of
    <3>4. Of("pipewire")' \intersect Alive' = Of("pipewire") \intersect Alive
      BY <1>8, <3>1, <3>2
    <3>5. \A q : Newest(q)' = Newest(q)
      BY <3>1 DEF Newest
    <3>6. socket' = socket
      BY <1>1
    <3> QED
      BY <1>2, <3>1, <3>3, <3>4, <3>5, <3>6 DEF OnlyNewest
  <2> QED
    BY <2>1, <2>2
<1>15. LateIsStopped'
  <2>1. Doing("wait")' => proc' # <<>> /\ proc'[Len(proc')].of = "pipewire"
    <3>1. Doing("wait")' => d = "pipewire"
      BY <1>3 DEF Starting
    <3> QED
      BY <1>1, <1>5, <1>7, <3>1
  <2>2. ASSUME ~overlap', Starting', late # 0
        PROVE  late \in Is({"ending", "gone"})
    <3>1. late \in Of("pipewire") /\ late \in Pids /\ d = "pipewire"
      BY <1>2, <1>3, <2>2 DEF TypeOK, Of
    <3>2. ~overlap /\ late \notin Is({"forked"})
      BY <1>1, <2>2, <3>1
    <3>3. late \notin Executed
      BY <1>2, <1>10, <3>1, <3>2 DEF NoOrphan, Of, Executed, Alive, Is
    <3> QED
      BY <1>5, <3>1, <3>2, <3>3 DEF Is, Executed, Process, States
  <2> QED
    BY <1>1, <1>8, <2>1, <2>2 DEF LateIsStopped
<1> QED
  BY <1>3, <1>9, <1>11, <1>12, <1>13, <1>14, <1>15 DEF IInv

\* TERM goes to a process that runs: what the pid file names is not a child
\* that has not written it yet.
LEMMA KillStep ==
  ASSUME IInv, Kill
  PROVE  IInv'
<1>0. PICK d, k : d = Daemon /\ k = pidfile[d]
  OBVIOUS
<1>1. /\ Doing("kill") /\ todo # <<>> /\ Head(todo).op = "kill"
      /\ k \in Alive /\ todo' = Tail(todo)
      /\ Becomes(k, "ending")
      /\ UNCHANGED <<tries, pidfile, socket, deaths, clean, late, overlap>>
  BY <1>0 DEF Kill, Doing, Becomes
<1>2. /\ TypeOK /\ InOrder /\ OneOfEach /\ NoOrphan /\ OnlyNewest
  BY DEF IInv
<1>3. /\ todo' \in Seq(Steps) /\ InOrder' /\ Head(todo) \in Steps
      /\ Doing("rm")' => Daemon' = d
      /\ ~Doing("wait")' /\ ~Starting'
  BY <1>0, <1>1, <1>2, NextHead DEF Doing, Op
<1>4. d \in Daemons /\ k \in Pids
  BY <1>0, <1>1, <1>3 DEF Daemon, Steps, Alive, Is
<1>5. /\ proc' \in Seq(Process) /\ Len(proc') = Len(proc) /\ Pids' = Pids
      /\ \A q \in Pids : proc'[q].of = proc[q].of
      /\ \A q \in Pids :
           proc'[q].is = IF q = k THEN "ending" ELSE proc[q].is
      /\ \A e : Of(e)' = Of(e)
  BY <1>1, <1>2, <1>4, BecomesFacts DEF States
<1>6. k \notin Is({"forked"})
  BY <1>0, <1>2, <1>4 DEF OneOfEach
<1>7. /\ Is({"forked"})' = Is({"forked"}) /\ Alive' = Alive
      /\ Executed' = Executed \ {k}
  BY <1>1, <1>5, <1>6 DEF Is, Alive, Executed
<1>8. TypeOK'
  BY <1>1, <1>2, <1>3, <1>5 DEF TypeOK, Steps, Process, States
<1>9. OneOfEach'
  BY <1>1, <1>2, <1>5, <1>7 DEF OneOfEach, Is
<1>10. NoOrphan'
  <2>1. \A q \in Executed : proc'[q].of = proc[q].of
    BY <1>5 DEF Executed, Is
  <2> QED
    BY <1>1, <1>2, <1>5, <1>7, <2>1 DEF NoOrphan
<1>11. ToldToEnd'
  <2>1. ASSUME ~overlap, NEW q \in Of(d)
        PROVE  proc'[q].is \notin {"forked", "running", "serving"}
    <3>1. q \in Pids /\ proc[q].of = d
      BY DEF Of
    <3>2. q \notin Is({"forked"})
      BY <1>0, <1>1, <1>2, <2>1, <3>1 DEF OneOfEach
    <3>3. q \in Executed => q = k
      BY <1>0, <1>2, <2>1, <3>1 DEF NoOrphan
    <3> QED
      BY <1>5, <3>1, <3>2, <3>3 DEF Executed, Is
  <2> QED
    BY <1>1, <1>3, <1>5, <2>1 DEF ToldToEnd, Is
<1>12. OnlyNewest'
  <2>1. \A q : Newest(q)' = Newest(q)
    BY <1>5 DEF Newest
  <2>2. \A q \in Of("pipewire") :
          proc[q].is \notin {"forked", "running"} =>
            proc'[q].is \notin {"forked", "running"}
    BY <1>5 DEF Of
  <2> QED
    BY <1>1, <1>2, <1>3, <1>5, <1>7, <2>1, <2>2 DEF OnlyNewest
<1>13. LateIsStopped'
  BY <1>3 DEF LateIsStopped
<1> QED
  BY <1>3, <1>8, <1>9, <1>10, <1>11, <1>12, <1>13 DEF IInv

\* The pid file goes when the process it names has been told to end.
LEMMA RemoveStep ==
  ASSUME IInv, RemovePidfile
  PROVE  IInv'
<1>0. PICK d : d = Daemon
  OBVIOUS
<1>1. /\ Doing("rm") /\ todo # <<>> /\ Head(todo).op = "rm"
      /\ todo' = Tail(todo) /\ pidfile' = [pidfile EXCEPT ![d] = 0]
      /\ UNCHANGED <<tries, proc, socket, deaths, clean, late, overlap>>
  BY <1>0 DEF RemovePidfile, Doing
<1>2. /\ TypeOK /\ InOrder /\ OneOfEach /\ NoOrphan /\ ToldToEnd
      /\ OnlyNewest
  BY DEF IInv
<1>3. /\ todo' \in Seq(Steps) /\ InOrder' /\ Head(todo) \in Steps
      /\ ~Doing("rm")' /\ ~Doing("wait")' /\ ~Starting'
  BY <1>1, <1>2, NextHead DEF Doing, Op
<1>4. /\ d \in Daemons /\ 0 \notin Pids
      /\ \A e \in Daemons : pidfile'[e] = IF e = d THEN 0 ELSE pidfile[e]
      /\ pidfile' \in [Daemons -> Nat]
  BY <1>0, <1>1, <1>2, <1>3, PidsOfLaunched DEF Daemon, Steps, TypeOK
<1>5. /\ \A S : Is(S)' = Is(S)
      /\ \A e : Of(e)' = Of(e)
      /\ Alive' = Alive /\ Executed' = Executed
      /\ Alive \subseteq Pids /\ Executed \subseteq Pids
      /\ \A S : Is(S) \subseteq Pids
  BY <1>1 DEF Is, Of, Pids, Alive, Executed
<1>6. \A p \in Pids : proc[p].of \in Daemons
  BY <1>2, PidsOfLaunched DEF Process
<1>7. TypeOK'
  BY <1>1, <1>2, <1>3, <1>4, <1>5 DEF TypeOK, Steps
<1>8. OneOfEach'
  BY <1>1, <1>2, <1>4, <1>5, <1>6 DEF OneOfEach
<1>9. NoOrphan'
  <2>1. ~overlap => \A p \in Executed : proc[p].of # d
    BY <1>0, <1>1, <1>2, <1>5 DEF ToldToEnd, Of, Executed, Is
  <2> QED
    BY <1>1, <1>2, <1>4, <1>5, <1>6, <2>1 DEF NoOrphan
<1>10. ToldToEnd' /\ LateIsStopped'
  BY <1>3 DEF ToldToEnd, LateIsStopped
<1>11. OnlyNewest'
  BY <1>1, <1>2, <1>3, <1>5 DEF OnlyNewest, Newest
<1> QED
  BY <1>3, <1>7, <1>8, <1>9, <1>10, <1>11 DEF IInv

LEMMA DaemonsInit == Init => IInv
<1> SUFFICES ASSUME Init PROVE IInv
  OBVIOUS
<1>1. /\ todo = <<>> /\ tries = 0 /\ proc = <<>> /\ socket = 0 /\ deaths = 0
      /\ pidfile = [d \in Daemons |-> 0] /\ late = 0
      /\ clean = FALSE /\ overlap = FALSE
  BY DEF Init
<1>2. /\ Pids = {} /\ Len(todo) = 0
  BY <1>1 DEF Pids
<1>3. /\ \A S : Is(S) = {}
      /\ \A d : Of(d) = {}
      /\ Alive = {} /\ Executed = {}
      /\ \A op : ~Doing(op)
  BY <1>1, <1>2 DEF Is, Of, Alive, Executed, Doing
<1>4. TypeOK
  <2>1. todo \in Seq(Steps) /\ proc \in Seq(Process)
    BY <1>1, EmptySeq
  <2>2. pidfile \in [Daemons -> Nat]
    BY <1>1
  <2>3. /\ {tries, deaths} \subseteq Nat
        /\ {socket, late} \subseteq {0} \union Of("pipewire")
    BY <1>1
  <2>4. {clean, overlap} \subseteq BOOLEAN
    BY <1>1
  <2> QED
    BY <2>1, <2>2, <2>3, <2>4 DEF TypeOK, Steps, Process, States
<1>5. InOrder
  BY <1>1, <1>2 DEF InOrder, Ordered
<1>6. OneOfEach /\ NoOrphan /\ ToldToEnd /\ OnlyNewest /\ LateIsStopped
  BY <1>1, <1>3
  DEF OneOfEach, NoOrphan, ToldToEnd, OnlyNewest, LateIsStopped, Starting
<1> QED
  BY <1>4, <1>5, <1>6 DEF IInv

LEMMA DaemonsNext == IInv /\ [Next]_vars => IInv'
<1> SUFFICES ASSUME IInv, [Next]_vars PROVE IInv'
  OBVIOUS
<1>1. CASE \E s \in Scripts, c \in {"start", "stop", "restart"} : Call(s, c)
  BY <1>1, CallStep
<1>2. CASE Script
  BY <1>2, LaunchStep, WaitStep, RefusedStep, KillStep, RemoveStep DEF Script
<1>3. CASE \E p \in Pids : Exec(p) \/ Listen(p) \/ End(p) \/ Crash(p)
  BY <1>3, ExecStep, ListenStep, EndStep, CrashStep
<1>4. CASE UNCHANGED vars
  <2>1. UNCHANGED <<todo, tries, proc, pidfile, socket, deaths, clean, late,
                    overlap>>
    BY <1>4 DEF vars
  <2>2. /\ \A S : Is(S)' = Is(S)
        /\ \A d : Of(d)' = Of(d)
        /\ Alive' = Alive /\ Executed' = Executed
    BY <2>1 DEF Is, Of, Pids, Alive, Executed
  <2>3. /\ \A op : Doing(op)' = Doing(op)
        /\ Daemon' = Daemon /\ Starting' = Starting /\ InOrder'
    BY <2>1, SameCommand DEF IInv
  <2>4. TypeOK' /\ OneOfEach' /\ NoOrphan'
    BY <2>1, <2>2 DEF IInv, TypeOK, OneOfEach, NoOrphan
  <2>5. ToldToEnd' /\ OnlyNewest' /\ LateIsStopped'
    BY <2>1, <2>2, <2>3
    DEF IInv, ToldToEnd, OnlyNewest, Newest, LateIsStopped
  <2> QED
    BY <2>3, <2>4, <2>5 DEF IInv
<1> QED
  BY <1>1, <1>2, <1>3, <1>4 DEF Next

-----------------------------------------------------------------------------
(* The scripts that set the mixer. *)

Commands ==
  [do : {"set", "spawn", "kill", "read"},
   what : Mixer!Controls \union
            {"arecord | aplay", "aplay", "arecord", "speaker-test", ""},
   to : {"on", "off", "90", "DAC", "LINE_IN", "I2S", ""}]

\* A script sets controls of the mixer, each of them once, before it starts a
\* program; one that does has set -e.
Careful(s, c) ==
  /\ \A i \in 1 .. Len(s) : s[i].do = "set" => s[i].what \in Mixer!Controls
  /\ \A i, j \in 1 .. Len(s) : s[i].do = "set" =>
       /\ s[j].do = "set" /\ i # j => s[i].what # s[j].what
       /\ s[j].do = "spawn" => i < j
  /\ \A i \in 1 .. Len(s) : s[i].do = "spawn" => Mixer!SetE(c)

\* Commands that only set controls, each of them once.
OnlySets(s) ==
  /\ \A i \in 1 .. Len(s) : s[i].do = "set" /\ s[i].what \in Mixer!Controls
  /\ \A i, j \in 1 .. Len(s) : i # j => s[i].what # s[j].what

LEMMA Elements ==
  /\ \A w \in Mixer!Controls :
       \A v \in {"on", "off", "90", "DAC", "LINE_IN", "I2S"} :
         LET s == Mixer!Set(w, v)
         IN s \in Commands /\ s.do = "set" /\ s.what = w
  /\ \A p \in {"arecord | aplay", "aplay", "arecord", "speaker-test"} :
       /\ Mixer!Spawn(p) \in Commands /\ Mixer!Spawn(p).do = "spawn"
       /\ Mixer!Kill(p) \in Commands /\ Mixer!Kill(p).do = "kill"
  /\ Mixer!Read \in Commands /\ Mixer!Read.do = "read"
<1>1. ASSUME NEW w \in Mixer!Controls,
             NEW v \in {"on", "off", "90", "DAC", "LINE_IN", "I2S"}
      PROVE  LET s == Mixer!Set(w, v)
             IN s \in Commands /\ s.do = "set" /\ s.what = w
  BY DEF Mixer!Set, Commands
<1>2. ASSUME NEW p \in {"arecord | aplay", "aplay", "arecord", "speaker-test"}
      PROVE  /\ Mixer!Spawn(p) \in Commands /\ Mixer!Spawn(p).do = "spawn"
             /\ Mixer!Kill(p) \in Commands /\ Mixer!Kill(p).do = "kill"
  BY DEF Mixer!Spawn, Mixer!Kill, Commands
<1>3. Mixer!Read \in Commands /\ Mixer!Read.do = "read"
  BY DEF Mixer!Read, Commands
<1> QED BY <1>1, <1>2, <1>3

LEMMA OneLong ==
  ASSUME NEW S, NEW s1 \in S, NEW s, s = <<s1>>
  PROVE  s \in Seq(S) /\ Len(s) = 1 /\ s[1] = s1
OBVIOUS

LEMMA ThreeLong ==
  ASSUME NEW S, NEW s1 \in S, NEW s2 \in S, NEW s3 \in S,
         NEW s, s = <<s1, s2, s3>>
  PROVE  /\ s \in Seq(S) /\ Len(s) = 3
         /\ s[1] = s1 /\ s[2] = s2 /\ s[3] = s3
OBVIOUS

LEMMA FiveLong ==
  ASSUME NEW S, NEW s1 \in S, NEW s2 \in S, NEW s3 \in S, NEW s4 \in S,
         NEW s5 \in S, NEW s, s = <<s1, s2, s3, s4, s5>>
  PROVE  /\ s \in Seq(S) /\ Len(s) = 5
         /\ s[1] = s1 /\ s[2] = s2 /\ s[3] = s3 /\ s[4] = s4 /\ s[5] = s5
OBVIOUS

LEMMA SixLong ==
  ASSUME NEW S, NEW s1 \in S, NEW s2 \in S, NEW s3 \in S, NEW s4 \in S,
         NEW s5 \in S, NEW s6 \in S, NEW s, s = <<s1, s2, s3, s4, s5, s6>>
  PROVE  /\ s \in Seq(S) /\ Len(s) = 6
         /\ s[1] = s1 /\ s[2] = s2 /\ s[3] = s3
         /\ s[4] = s4 /\ s[5] = s5 /\ s[6] = s6
OBVIOUS

\* A list of commands that only sets controls, each of them once.
LEMMA ThreeSets ==
  ASSUME NEW s \in Seq(Commands), Len(s) = 3,
         \A i \in {1, 2, 3} :
           s[i].do = "set" /\ s[i].what \in Mixer!Controls,
         \A i, j \in {1, 2, 3} : i # j => s[i].what # s[j].what
  PROVE  OnlySets(s)
<1>1. \A i \in 1 .. Len(s) : i \in {1, 2, 3}
  OBVIOUS
<1> QED
  BY <1>1 DEF OnlySets

LEMMA SetsOfTwo ==
  ASSUME NEW s \in Seq(Commands), NEW t \in Seq(Commands),
         OnlySets(s), OnlySets(t),
         \A i \in 1 .. Len(s), j \in 1 .. Len(t) : s[i].what # t[j].what
  PROVE  s \o t \in Seq(Commands) /\ OnlySets(s \o t)
<1> DEFINE st == s \o t
<1>1. st \in Seq(Commands) /\ Len(st) = Len(s) + Len(t)
  BY ConcatProperties
<1>2. ASSUME NEW i \in 1 .. Len(st)
      PROVE  \/ i \in 1 .. Len(s) /\ st[i] = s[i]
             \/ /\ i - Len(s) \in 1 .. Len(t) /\ st[i] = t[i - Len(s)]
                /\ ~(i <= Len(s))
  BY <1>1, ConcatProperties
<1>3. Len(s) \in Nat /\ Len(t) \in Nat
  OBVIOUS
<1> HIDE DEF st
<1>4. ASSUME NEW i \in 1 .. Len(st)
      PROVE  st[i].do = "set" /\ st[i].what \in Mixer!Controls
  BY <1>2 DEF OnlySets
<1>5. ASSUME NEW i \in 1 .. Len(st), NEW j \in 1 .. Len(st), i # j
      PROVE  st[i].what # st[j].what
  <2>1. CASE i <= Len(s) /\ j <= Len(s)
    BY <1>2, <1>5, <2>1 DEF OnlySets
  <2>2. CASE i <= Len(s) /\ ~(j <= Len(s))
    <3>1. /\ i \in 1 .. Len(s) /\ st[i] = s[i]
          /\ j - Len(s) \in 1 .. Len(t) /\ st[j] = t[j - Len(s)]
      BY <1>2, <2>2
    <3>2. s[i].what # t[j - Len(s)].what
      BY <3>1
    <3> QED
      BY <3>1, <3>2
  <2>3. CASE ~(i <= Len(s)) /\ j <= Len(s)
    <3>1. /\ j \in 1 .. Len(s) /\ st[j] = s[j]
          /\ i - Len(s) \in 1 .. Len(t) /\ st[i] = t[i - Len(s)]
      BY <1>2, <2>3
    <3>2. s[j].what # t[i - Len(s)].what
      BY <3>1
    <3> QED
      BY <3>1, <3>2
  <2>4. CASE ~(i <= Len(s)) /\ ~(j <= Len(s))
    <3>1. i - Len(s) # j - Len(s)
      BY <1>3, <1>5
    <3> QED
      BY <1>2, <2>4, <3>1 DEF OnlySets
  <2> QED
    BY <2>1, <2>2, <2>3, <2>4
<1> QED
  BY <1>1, <1>4, <1>5 DEF OnlySets, st

LEMMA SetsAreCareful ==
  ASSUME NEW s \in Seq(Commands), OnlySets(s), NEW c
  PROVE  Careful(s, c)
<1>1. \A i \in 1 .. Len(s) : s[i].do # "spawn"
  BY DEF OnlySets
<1> QED
  BY <1>1 DEF OnlySets, Careful

\* What a script does once it has set the controls sets none.
LEMMA SetsBeforeRest ==
  ASSUME NEW s \in Seq(Commands), NEW t \in Seq(Commands), OnlySets(s),
         \A i \in 1 .. Len(t) : t[i].do # "set", NEW c, Mixer!SetE(c)
  PROVE  s \o t \in Seq(Commands) /\ Careful(s \o t, c)
<1> DEFINE st == s \o t
<1>1. st \in Seq(Commands) /\ Len(st) = Len(s) + Len(t)
  BY ConcatProperties
<1>2. ASSUME NEW i \in 1 .. Len(st)
      PROVE  \/ i \in 1 .. Len(s) /\ st[i] = s[i]
             \/ /\ i - Len(s) \in 1 .. Len(t) /\ st[i] = t[i - Len(s)]
                /\ ~(i <= Len(s))
  BY <1>1, ConcatProperties
<1>3. Len(s) \in Nat
  OBVIOUS
<1> HIDE DEF st
<1>4. ASSUME NEW i \in 1 .. Len(st)
      PROVE  /\ st[i].do = "set" =>
                  i \in 1 .. Len(s) /\ st[i].what \in Mixer!Controls
             /\ st[i].do = "set" => st[i] = s[i]
             /\ st[i].do = "spawn" => ~(i <= Len(s))
  BY <1>2 DEF OnlySets
<1>5. ASSUME NEW i \in 1 .. Len(st), NEW j \in 1 .. Len(st),
             st[i].do = "set"
      PROVE  /\ st[j].do = "set" /\ i # j => st[i].what # st[j].what
             /\ st[j].do = "spawn" => i < j
  <2>1. i \in 1 .. Len(s) /\ st[i] = s[i]
    BY <1>4, <1>5
  <2>2. CASE st[j].do = "set"
    BY <1>4, <2>1, <2>2 DEF OnlySets
  <2>3. CASE st[j].do = "spawn"
    <3>1. ~(j <= Len(s)) /\ st[j].do # "set"
      BY <1>4, <2>3
    <3> QED
      BY <1>3, <2>1, <3>1
  <2> QED
    BY <2>2, <2>3
<1>6. Careful(st, c)
  BY <1>4, <1>5 DEF Careful
<1> QED
  BY <1>1, <1>6 DEF st

LEMMA CaptureSets ==
  ASSUME NEW a \in {"on", "off"}
  PROVE  LET s == Mixer!capture(a)
         IN /\ s \in Seq(Commands) /\ Len(s) > 0 /\ OnlySets(s)
            /\ \A i \in 1 .. Len(s) :
                 s[i].what \in {"Capture Switch", "Capture Mux",
                                "AUDIN FIFO0 SRC SEL"}
<1> DEFINE s == Mixer!capture(a)
           s1 == Mixer!Set("Capture Switch", a)
           s2 == Mixer!Set("Capture Mux", "LINE_IN")
           s3 == Mixer!Set("AUDIN FIFO0 SRC SEL", "I2S")
<1>1. s = <<s1, s2, s3>>
  BY DEF Mixer!capture
<1>2. /\ "Capture Switch" \in Mixer!Controls
      /\ "Capture Mux" \in Mixer!Controls
      /\ "AUDIN FIFO0 SRC SEL" \in Mixer!Controls
      /\ a \in {"on", "off", "90", "DAC", "LINE_IN", "I2S"}
  BY DEF Mixer!Controls
<1>3. s1 \in Commands /\ s1.do = "set" /\ s1.what = "Capture Switch"
  BY <1>2, Elements
<1>4. s2 \in Commands /\ s2.do = "set" /\ s2.what = "Capture Mux"
  BY <1>2, Elements
<1>5. s3 \in Commands /\ s3.do = "set" /\ s3.what = "AUDIN FIFO0 SRC SEL"
  BY <1>2, Elements
<1> HIDE DEF s, s1, s2, s3
<1>6. /\ s \in Seq(Commands) /\ Len(s) = 3
      /\ s[1] = s1 /\ s[2] = s2 /\ s[3] = s3
  BY <1>1, <1>3, <1>4, <1>5, ThreeLong
<1>7. OnlySets(s)
  BY <1>2, <1>3, <1>4, <1>5, <1>6, ThreeSets
<1>8. \A i \in 1 .. Len(s) : i = 1 \/ i = 2 \/ i = 3
  BY <1>6
<1>9. \A i \in 1 .. Len(s) :
        s[i].what \in {"Capture Switch", "Capture Mux",
                      "AUDIN FIFO0 SRC SEL"}
  BY <1>3, <1>4, <1>5, <1>6, <1>8
<1>10. Len(s) > 0
  BY <1>6
<1> QED
  BY <1>6, <1>7, <1>9, <1>10 DEF s

LEMMA HeadphoneSets ==
  ASSUME NEW a \in {"line-in", "dac", "off"}
  PROVE  LET s == Mixer!headphone(a)
         IN /\ s \in Seq(Commands) /\ Len(s) > 0 /\ OnlySets(s)
            /\ \A i \in 1 .. Len(s) :
                 s[i].what \in {"Headphone", "Headphone volume",
                                "Headphone Mux"}
<1> DEFINE s == Mixer!headphone(a)
           s0 == Mixer!Set("Headphone", "off")
           s1 == Mixer!Set("Headphone", "on")
           s2 == Mixer!Set("Headphone volume", "90")
           s3 == Mixer!Set("Headphone Mux", "DAC")
<1>1. s = IF a = "off" THEN <<s0>> ELSE <<s1, s2, s3>>
  BY DEF Mixer!headphone, Mixer!UseDac
<1>2. /\ "Headphone" \in Mixer!Controls
      /\ "Headphone volume" \in Mixer!Controls
      /\ "Headphone Mux" \in Mixer!Controls
  BY DEF Mixer!Controls
<1>3. /\ s0 \in Commands /\ s0.do = "set" /\ s0.what = "Headphone"
      /\ s1 \in Commands /\ s1.do = "set" /\ s1.what = "Headphone"
  BY <1>2, Elements
<1>4. s2 \in Commands /\ s2.do = "set" /\ s2.what = "Headphone volume"
  BY <1>2, Elements
<1>5. s3 \in Commands /\ s3.do = "set" /\ s3.what = "Headphone Mux"
  BY <1>2, Elements
<1> HIDE DEF s, s0, s1, s2, s3
<1>6. CASE a = "off"
  <2>1. s \in Seq(Commands) /\ Len(s) = 1 /\ s[1] = s0
    BY <1>1, <1>3, <1>6, OneLong
  <2>2. \A i \in 1 .. Len(s) : i = 1
    BY <2>1
  <2>3. OnlySets(s)
    BY <1>2, <1>3, <2>1, <2>2 DEF OnlySets
  <2>4. \A i \in 1 .. Len(s) : s[i].what = "Headphone"
    BY <1>3, <2>1, <2>2
  <2>5. Len(s) > 0
    BY <2>1
  <2> QED
    BY <2>1, <2>3, <2>4, <2>5 DEF s
<1>7. CASE a # "off"
  <2>1. /\ s \in Seq(Commands) /\ Len(s) = 3
        /\ s[1] = s1 /\ s[2] = s2 /\ s[3] = s3
    BY <1>1, <1>3, <1>4, <1>5, <1>7, ThreeLong
  <2>2. OnlySets(s)
    BY <1>2, <1>3, <1>4, <1>5, <2>1, ThreeSets
  <2>3. \A i \in 1 .. Len(s) : i = 1 \/ i = 2 \/ i = 3
    BY <2>1
  <2>4. \A i \in 1 .. Len(s) :
          s[i].what \in {"Headphone", "Headphone volume", "Headphone Mux"}
    BY <1>3, <1>4, <1>5, <2>1, <2>3
  <2>5. Len(s) > 0
    BY <2>1
  <2> QED
    BY <2>1, <2>2, <2>4, <2>5 DEF s
<1> QED
  BY <1>6, <1>7

LEMMA LineOutSets ==
  ASSUME NEW a \in {"on", "off"}
  PROVE  LET s == Mixer!line_out(a)
         IN /\ s \in Seq(Commands) /\ Len(s) > 0 /\ OnlySets(s)
            /\ \A i \in 1 .. Len(s) : s[i].what = "Lineout"
<1> DEFINE s == Mixer!line_out(a)
           s1 == Mixer!Set("Lineout", a)
<1>1. s = <<s1>>
  BY DEF Mixer!line_out
<1>2. /\ "Lineout" \in Mixer!Controls
      /\ a \in {"on", "off", "90", "DAC", "LINE_IN", "I2S"}
  BY DEF Mixer!Controls
<1>3. s1 \in Commands /\ s1.do = "set" /\ s1.what = "Lineout"
  BY <1>2, Elements
<1> HIDE DEF s, s1
<1>4. s \in Seq(Commands) /\ Len(s) = 1 /\ s[1] = s1
  BY <1>1, <1>3, OneLong
<1>5. \A i \in 1 .. Len(s) : i = 1
  BY <1>4
<1> QED
  BY <1>2, <1>3, <1>4, <1>5 DEF OnlySets, s

LEMMA BootSets ==
  LET s == Mixer!S90alsaconf
  IN s \in Seq(Commands) /\ Len(s) > 0 /\ OnlySets(s)
<1> DEFINE s == Mixer!S90alsaconf
           s1 == Mixer!Set("Capture Switch", "on")
           s2 == Mixer!Set("Capture Mux", "LINE_IN")
           s3 == Mixer!Set("TODDR0 SRC SEL", "I2S")
           s4 == Mixer!Set("Headphone Mux", "DAC")
           s5 == Mixer!Set("Headphone", "on")
           s6 == Mixer!Set("Headphone volume", "90")
<1>1. s = <<s1, s2, s3, s4, s5, s6>>
  BY DEF Mixer!S90alsaconf
<1>2. /\ "Capture Switch" \in Mixer!Controls
      /\ "Capture Mux" \in Mixer!Controls
      /\ "TODDR0 SRC SEL" \in Mixer!Controls
      /\ "Headphone Mux" \in Mixer!Controls
      /\ "Headphone" \in Mixer!Controls
      /\ "Headphone volume" \in Mixer!Controls
  BY DEF Mixer!Controls
<1>3. /\ s1 \in Commands /\ s1.do = "set" /\ s1.what = "Capture Switch"
      /\ s2 \in Commands /\ s2.do = "set" /\ s2.what = "Capture Mux"
  BY <1>2, Elements
<1>4. /\ s3 \in Commands /\ s3.do = "set" /\ s3.what = "TODDR0 SRC SEL"
      /\ s4 \in Commands /\ s4.do = "set" /\ s4.what = "Headphone Mux"
  BY <1>2, Elements
<1>5. /\ s5 \in Commands /\ s5.do = "set" /\ s5.what = "Headphone"
      /\ s6 \in Commands /\ s6.do = "set" /\ s6.what = "Headphone volume"
  BY <1>2, Elements
<1> HIDE DEF s, s1, s2, s3, s4, s5, s6
<1>6. /\ s \in Seq(Commands) /\ Len(s) = 6
      /\ s[1] = s1 /\ s[2] = s2 /\ s[3] = s3
      /\ s[4] = s4 /\ s[5] = s5 /\ s[6] = s6
  BY <1>1, <1>3, <1>4, <1>5, SixLong
<1>7. \A i \in 1 .. Len(s) : i \in {1, 2, 3, 4, 5, 6}
  BY <1>6
<1>8. \A i \in {1, 2, 3, 4, 5, 6} :
        s[i].do = "set" /\ s[i].what \in Mixer!Controls
  BY <1>2, <1>3, <1>4, <1>5, <1>6
<1>9. \A i, j \in {1, 2, 3, 4, 5, 6} : i # j => s[i].what # s[j].what
  BY <1>3, <1>4, <1>5, <1>6
<1> QED
  BY <1>6, <1>7, <1>8, <1>9 DEF OnlySets, s

\* aloop calls headphone and capture first.
LEMMA AloopIsCareful ==
  LET s == Mixer!aloop
  IN s \in Seq(Commands) /\ Len(s) > 0 /\ Careful(s, <<"aloop", "">>)
<1> DEFINE h == Mixer!headphone("dac")  c == Mixer!capture("on")
           s == Mixer!aloop
           l1 == Mixer!Spawn("arecord | aplay")
           l2 == Mixer!Read
           l3 == Mixer!Kill("aplay")
           l == <<l1, l2, l3>>
<1>1. /\ h \in Seq(Commands) /\ OnlySets(h)
      /\ \A i \in 1 .. Len(h) :
           h[i].what \in {"Headphone", "Headphone volume", "Headphone Mux"}
  BY HeadphoneSets
<1>2. /\ c \in Seq(Commands) /\ OnlySets(c)
      /\ \A i \in 1 .. Len(c) :
           c[i].what \in {"Capture Switch", "Capture Mux",
                          "AUDIN FIFO0 SRC SEL"}
  BY CaptureSets
<1>3. /\ l1 \in Commands /\ l2 \in Commands /\ l3 \in Commands
      /\ l1.do = "spawn" /\ l2.do = "read" /\ l3.do = "kill"
  BY Elements
<1>4. s = (h \o c) \o l
  BY DEF Mixer!aloop
<1>5. Mixer!SetE(<<"aloop", "">>)
  BY DEF Mixer!SetE
<1> HIDE DEF h, c, l1, l2, l3, s
<1>6. /\ l \in Seq(Commands) /\ Len(l) = 3
      /\ l[1] = l1 /\ l[2] = l2 /\ l[3] = l3
  BY <1>3, ThreeLong
<1> HIDE DEF l
<1>7. \A i \in 1 .. Len(l) : i = 1 \/ i = 2 \/ i = 3
  BY <1>6
<1>8. \A i \in 1 .. Len(l) : l[i].do # "set"
  BY <1>3, <1>6, <1>7
<1>9. h \o c \in Seq(Commands) /\ OnlySets(h \o c)
  BY <1>1, <1>2, SetsOfTwo
<1>10. s \in Seq(Commands) /\ Careful(s, <<"aloop", "">>)
  BY <1>4, <1>5, <1>6, <1>8, <1>9, SetsBeforeRest
<1>11. Len(s) > 0
  BY <1>4, <1>6, <1>9, ConcatProperties
<1> QED
  BY <1>10, <1>11 DEF s

\* test-loop-line-out-line-in calls line-out and capture first.
LEMMA TestLoopIsCareful ==
  LET s == Mixer!test_loop
  IN s \in Seq(Commands) /\ Len(s) > 0 /\ Careful(s, <<"test-loop", "">>)
<1> DEFINE o == Mixer!line_out("on")  c == Mixer!capture("on")
           s == Mixer!test_loop
           l1 == Mixer!Spawn("speaker-test")
           l2 == Mixer!Spawn("arecord")
           l3 == Mixer!Read
           l4 == Mixer!Kill("speaker-test")
           l5 == Mixer!Kill("arecord")
           l == <<l1, l2, l3, l4, l5>>
<1>1. /\ o \in Seq(Commands) /\ OnlySets(o)
      /\ \A i \in 1 .. Len(o) : o[i].what = "Lineout"
  BY LineOutSets
<1>2. /\ c \in Seq(Commands) /\ OnlySets(c)
      /\ \A i \in 1 .. Len(c) :
           c[i].what \in {"Capture Switch", "Capture Mux",
                          "AUDIN FIFO0 SRC SEL"}
  BY CaptureSets
<1>3. /\ l1 \in Commands /\ l2 \in Commands /\ l3 \in Commands
      /\ l4 \in Commands /\ l5 \in Commands
      /\ l1.do = "spawn" /\ l2.do = "spawn" /\ l3.do = "read"
      /\ l4.do = "kill" /\ l5.do = "kill"
  BY Elements
<1>4. s = (o \o c) \o l
  BY DEF Mixer!test_loop
<1>5. Mixer!SetE(<<"test-loop", "">>)
  BY DEF Mixer!SetE
<1> HIDE DEF o, c, l1, l2, l3, l4, l5, s
<1>6. /\ l \in Seq(Commands) /\ Len(l) = 5
      /\ l[1] = l1 /\ l[2] = l2 /\ l[3] = l3 /\ l[4] = l4 /\ l[5] = l5
  BY <1>3, FiveLong
<1> HIDE DEF l
<1>7. \A i \in 1 .. Len(l) : i = 1 \/ i = 2 \/ i = 3 \/ i = 4 \/ i = 5
  BY <1>6
<1>8. \A i \in 1 .. Len(l) : l[i].do # "set"
  BY <1>3, <1>6, <1>7
<1>9. o \o c \in Seq(Commands) /\ OnlySets(o \o c)
  BY <1>1, <1>2, SetsOfTwo
<1>10. s \in Seq(Commands) /\ Careful(s, <<"test-loop", "">>)
  BY <1>4, <1>5, <1>6, <1>8, <1>9, SetsBeforeRest
<1>11. Len(s) > 0
  BY <1>4, <1>6, <1>9, ConcatProperties
<1> QED
  BY <1>10, <1>11 DEF s

LEMMA PairIn ==
  ASSUME NEW A, NEW B, NEW c \in A \X B
  PROVE  c = <<c[1], c[2]>> /\ c[1] \in A /\ c[2] \in B
OBVIOUS

LEMMA ScriptsAreCareful ==
  ASSUME NEW c \in Mixer!Calls
  PROVE  /\ Mixer!Script(c) \in Seq(Commands) /\ Len(Mixer!Script(c)) > 0
         /\ Careful(Mixer!Script(c), c)
<1>1. ASSUME NEW a \in {"line-in", "dac", "off"}, c = <<"headphone", a>>
      PROVE  Mixer!Script(c) = Mixer!headphone(a)
  BY <1>1 DEF Mixer!Script
<1>2. ASSUME NEW a \in {"on", "off"}, c = <<"capture", a>>
      PROVE  Mixer!Script(c) = Mixer!capture(a)
  BY <1>2 DEF Mixer!Script
<1>3. ASSUME NEW a \in {"on", "off"}, c = <<"line-out", a>>
      PROVE  Mixer!Script(c) = Mixer!line_out(a)
  BY <1>3 DEF Mixer!Script
<1>4. ASSUME c = <<"S90alsaconf", "">>
      PROVE  Mixer!Script(c) = Mixer!S90alsaconf
  <2>1. c[1] = "S90alsaconf"
    BY <1>4
  <2> QED
    BY <2>1 DEF Mixer!Script
<1>5. ASSUME c = <<"aloop", "">>
      PROVE  Mixer!Script(c) = Mixer!aloop
  <2>1. c[1] = "aloop"
    BY <1>5
  <2> QED
    BY <2>1 DEF Mixer!Script
<1>6. ASSUME c = <<"test-loop", "">>
      PROVE  Mixer!Script(c) = Mixer!test_loop
  <2>1. c[1] = "test-loop"
    BY <1>6
  <2> QED
    BY <2>1 DEF Mixer!Script
<1>7. \/ \E a \in {"line-in", "dac", "off"} : c = <<"headphone", a>>
      \/ \E a \in {"on", "off"} : c = <<"capture", a>>
      \/ \E a \in {"on", "off"} : c = <<"line-out", a>>
      \/ c = <<"S90alsaconf", "">> \/ c = <<"aloop", "">>
      \/ c = <<"test-loop", "">>
  <2>1. CASE c \in {<<"headphone", a>> : a \in {"line-in", "dac", "off"}}
    BY <2>1
  <2>2. CASE c \in {"capture", "line-out"} \X {"on", "off"}
    <3>1. /\ c = <<c[1], c[2]>> /\ c[1] \in {"capture", "line-out"}
          /\ c[2] \in {"on", "off"}
      BY <2>2, PairIn
    <3> QED
      BY <3>1
  <2>3. CASE c \in {"S90alsaconf", "aloop", "test-loop"} \X {""}
    <3>1. /\ c = <<c[1], c[2]>> /\ c[2] \in {""}
          /\ c[1] \in {"S90alsaconf", "aloop", "test-loop"}
      BY <2>3, PairIn
    <3> QED
      BY <3>1
  <2> QED
    BY <2>1, <2>2, <2>3 DEF Mixer!Calls
<1>8. CASE \E a \in {"line-in", "dac", "off"} : c = <<"headphone", a>>
  BY <1>1, <1>8, HeadphoneSets, SetsAreCareful
<1>9. CASE \E a \in {"on", "off"} : c = <<"capture", a>>
  BY <1>2, <1>9, CaptureSets, SetsAreCareful
<1>10. CASE \E a \in {"on", "off"} : c = <<"line-out", a>>
  BY <1>3, <1>10, LineOutSets, SetsAreCareful
<1>11. CASE c = <<"S90alsaconf", "">>
  BY <1>4, <1>11, BootSets, SetsAreCareful
<1>12. CASE c = <<"aloop", "">>
  BY <1>5, <1>12, AloopIsCareful
<1>13. CASE c = <<"test-loop", "">>
  BY <1>6, <1>13, TestLoopIsCareful
<1> QED
  BY <1>7, <1>8, <1>9, <1>10, <1>11, <1>12, <1>13

\* The rest of a list after a step: at the next place, or nothing.
LEMMA RestAfter ==
  ASSUME NEW S, NEW s \in Seq(S), NEW k \in 1 .. Len(s), NEW q,
         q = SubSeq(s, k, Len(s))
  PROVE  /\ Head(q) = s[k]
         /\ Tail(q) # <<>> =>
              k + 1 \in 1 .. Len(s) /\ Tail(q) = SubSeq(s, k + 1, Len(s))
<1>1. Head(q) = s[k] /\ Tail(q) = SubSeq(s, k + 1, Len(s))
  BY HeadTailOfSubSeq
<1>2. CASE k = Len(s)
  BY <1>1, <1>2, SubSeqEmpty
<1>3. CASE k # Len(s)
  BY <1>1, <1>3
<1> QED
  BY <1>2, <1>3, <1>1

\* A step of a script that goes on: a control is set, or none is to be set,
\* or failures do not end the script.
LEMMA ScriptStep ==
  ASSUME Mixer!IInv, commands # <<>>, call' = call,
         commands' = Tail(commands), NEW c, c = Head(commands),
         \/ mixer' = mixer /\ c.do # "set"
         \/ c.do = "set" /\ mixer' = [mixer EXCEPT ![c.what] = c.to]
         \/ mixer' = mixer /\ ~Mixer!SetE(call)
  PROVE  Mixer!IInv'
<1> DEFINE s == Mixer!Script(call)
<1>1. PICK k \in 1 .. Len(s) :
        /\ commands = SubSeq(s, k, Len(s))
        /\ Mixer!SetE(call) =>
             \A i \in 1 .. k - 1 :
               s[i].do = "set" => mixer[s[i].what] = s[i].to
  BY DEF Mixer!IInv, Mixer!RestOfScript
<1>2. s \in Seq(Commands) /\ Careful(s, call) /\ call \in Mixer!Calls
  BY ScriptsAreCareful DEF Mixer!IInv, Mixer!RestOfScript
<1>3. s' = s
  BY DEF Mixer!Script
<1>4. DOMAIN mixer = Mixer!Controls /\ DOMAIN mixer' = Mixer!Controls
  BY DEF Mixer!IInv
<1> HIDE DEF s
<1>5. /\ c = s[k]
      /\ commands' # <<>> =>
           k + 1 \in 1 .. Len(s) /\ commands' = SubSeq(s, k + 1, Len(s))
  BY <1>1, <1>2, RestAfter
<1>6. c.do = "set" => c.what \in Mixer!Controls
  BY <1>2, <1>5 DEF Careful
<1>7. ASSUME Mixer!SetE(call), NEW i \in 1 .. k, s[i].do = "set"
      PROVE  mixer'[s[i].what] = s[i].to
  <2>1. CASE i = k
    BY <1>4, <1>5, <1>6, <1>7, <2>1
  <2>2. CASE i # k
    <3>1. i \in 1 .. k - 1 /\ i \in 1 .. Len(s) /\ k \in 1 .. Len(s)
      BY <2>2
    <3>2. mixer[s[i].what] = s[i].to
      BY <1>1, <1>7, <3>1
    <3>3. c.do = "set" => s[i].what # c.what
      BY <1>2, <1>5, <1>7, <2>2, <3>1 DEF Careful
    <3>4. s[i].what \in Mixer!Controls
      BY <1>2, <1>7, <3>1 DEF Careful
    <3> QED
      BY <1>4, <1>6, <1>7, <3>2, <3>3, <3>4
  <2> QED
    BY <2>1, <2>2
<1>8. ASSUME commands' # <<>>
      PROVE  \E n \in 1 .. Len(s) :
               /\ commands' = SubSeq(s, n, Len(s))
               /\ Mixer!SetE(call) =>
                    \A i \in 1 .. n - 1 :
                      s[i].do = "set" => mixer'[s[i].what] = s[i].to
  <2>1. \A i \in 1 .. (k + 1) - 1 : i \in 1 .. k
    OBVIOUS
  <2> QED
    BY <1>5, <1>7, <1>8, <2>1
<1>9. Mixer!RestOfScript'
  BY <1>2, <1>3, <1>8 DEF Mixer!RestOfScript, Mixer!SetE, s
<1> QED
  BY <1>4, <1>9 DEF Mixer!IInv

LEMMA MixerInit == Mixer!Init => Mixer!IInv
BY DEF Mixer!Init, Mixer!IInv, Mixer!RestOfScript

LEMMA MixerNext == Mixer!IInv /\ [Mixer!Next]_(Mixer!vars) => Mixer!IInv'
<1> SUFFICES ASSUME Mixer!IInv, [Mixer!Next]_(Mixer!vars)
             PROVE  Mixer!IInv'
  OBVIOUS
<1>1. ASSUME call' = call, commands' = commands, mixer' = mixer
      PROVE  Mixer!IInv'
  BY <1>1 DEF Mixer!IInv, Mixer!RestOfScript, Mixer!SetE, Mixer!Script
<1>2. ASSUME commands' = <<>>, mixer' = mixer
      PROVE  Mixer!IInv'
  BY <1>2 DEF Mixer!IInv, Mixer!RestOfScript
<1>3. CASE Mixer!Usage
  BY <1>2, <1>3 DEF Mixer!Usage
<1>4. ASSUME NEW c \in Mixer!Calls, Mixer!Begin(c)
      PROVE  Mixer!IInv'
  <2>1. /\ call' = c /\ mixer' = mixer /\ commands' = Mixer!Script(c)
        /\ Mixer!Script(c)' = Mixer!Script(c)
    BY <1>4 DEF Mixer!Begin, Mixer!Script
  <2>2. /\ Mixer!Script(c) \in Seq(Commands)
        /\ 1 \in 1 .. Len(Mixer!Script(c))
    BY ScriptsAreCareful
  <2>3. Mixer!Script(c) = SubSeq(Mixer!Script(c), 1, Len(Mixer!Script(c)))
    BY <2>2, SubSeqFull
  <2>4. \A i \in 1 .. 1 - 1 : FALSE
    OBVIOUS
  <2>5. Mixer!Script(call') = Mixer!Script(c)
    BY <2>1
  <2>6. Mixer!RestOfScript'
    BY <2>1, <2>2, <2>3, <2>4, <2>5 DEF Mixer!RestOfScript
  <2> QED
    BY <2>1, <2>6 DEF Mixer!IInv
<1>5. CASE Mixer!Amixer
  BY <1>5, ScriptStep DEF Mixer!Amixer, Mixer!Doing, Mixer!Done
<1>6. CASE Mixer!AmixerFails
  BY <1>2, <1>6, ScriptStep DEF Mixer!AmixerFails, Mixer!Doing, Mixer!Failed
<1>7. CASE Mixer!Background
  BY <1>7, ScriptStep DEF Mixer!Background, Mixer!Doing, Mixer!Done
<1>8. CASE Mixer!Enter
  BY <1>8, ScriptStep DEF Mixer!Enter, Mixer!Doing, Mixer!Done
<1>9. CASE Mixer!EndOfInput
  BY <1>2, <1>9, ScriptStep DEF Mixer!EndOfInput, Mixer!Doing, Mixer!Failed
<1>10. CASE Mixer!KillWorks
  BY <1>10, ScriptStep DEF Mixer!KillWorks, Mixer!Doing, Mixer!Done
<1>11. CASE Mixer!KillFails
  BY <1>2, <1>11, ScriptStep DEF Mixer!KillFails, Mixer!Doing, Mixer!Failed
<1>12. CASE Mixer!BrokenPipe
  BY <1>1, <1>12 DEF Mixer!BrokenPipe
<1>13. CASE \E p \in run : Mixer!ProgramFails(p)
  BY <1>1, <1>13 DEF Mixer!ProgramFails
<1>14. CASE UNCHANGED Mixer!vars
  BY <1>1, <1>14 DEF Mixer!vars
<1> QED
  BY <1>3, <1>4, <1>5, <1>6, <1>7, <1>8, <1>9, <1>10, <1>11, <1>12, <1>13,
     <1>14 DEF Mixer!Next, Mixer!Step

LEMMA SetsBeforeSpawn ==
  ASSUME Mixer!IInv, Mixer!Background
  PROVE  \A i \in DOMAIN Mixer!Script(call) :
           LET s == Mixer!Script(call)[i]
           IN s.do = "set" => mixer[s.what] = s.to
<1> DEFINE s == Mixer!Script(call)
<1>1. commands # <<>> /\ Head(commands).do = "spawn"
  BY DEF Mixer!Background, Mixer!Doing
<1>2. PICK k \in 1 .. Len(s) :
        /\ commands = SubSeq(s, k, Len(s))
        /\ Mixer!SetE(call) =>
             \A i \in 1 .. k - 1 :
               s[i].do = "set" => mixer[s[i].what] = s[i].to
  BY <1>1 DEF Mixer!IInv, Mixer!RestOfScript
<1>3. s \in Seq(Commands) /\ Careful(s, call)
  BY <1>1, ScriptsAreCareful DEF Mixer!IInv, Mixer!RestOfScript
<1> HIDE DEF s
<1>4. s[k].do = "spawn"
  BY <1>1, <1>2, <1>3, RestAfter
<1>5. Mixer!SetE(call)
  BY <1>3, <1>4 DEF Careful
<1>6. ASSUME NEW i \in DOMAIN s, s[i].do = "set"
      PROVE  mixer[s[i].what] = s[i].to
  <2>1. i \in 1 .. Len(s)
    BY <1>3
  <2>2. i < k
    BY <1>3, <1>4, <1>6, <2>1 DEF Careful
  <2>3. i \in 1 .. k - 1
    BY <2>1, <2>2
  <2> QED
    BY <1>2, <1>5, <1>6, <2>3
<1> QED
  BY <1>6 DEF s

-----------------------------------------------------------------------------
(* The two together. *)

\* A step of one part leaves the state of the other alone.
LEMMA OnePartSteps ==
  [ScriptsNext]_<<part, vars, mixervars>> =>
    [Next]_vars /\ [Mixer!Next]_(Mixer!vars)
<1> SUFFICES ASSUME [ScriptsNext]_<<part, vars, mixervars>>
             PROVE  /\ Next \/ vars' = vars
                    /\ Mixer!Next \/ mixervars' = mixervars
  BY DEF mixervars, Mixer!vars
<1> QED
  BY DEF ScriptsNext, InitScripts, MixerAndLoops

\* The composition leaves each of the two to its own steps.
LEMMA ScriptsImplementParts ==
  ScriptsSpec =>
    /\ Init /\ [][Next]_vars
    /\ Mixer!Init /\ [][Mixer!Next]_(Mixer!vars)
<1>1. ScriptsInit => Init /\ Mixer!Init
  BY DEF ScriptsInit
<1> QED
  BY <1>1, OnePartSteps, PTL DEF ScriptsSpec

LEMMA DaemonsInvariant == Init /\ [][Next]_vars => []IInv
BY DaemonsInit, DaemonsNext, PTL

LEMMA MixerInvariant ==
  Mixer!Init /\ [][Mixer!Next]_(Mixer!vars) => []Mixer!IInv
BY MixerInit, MixerNext, PTL

\* The inductive invariants of the init scripts and of the mixer scripts hold
\* together (S95pipewire, S99dabondashboard, aloop,
\* test-loop-line-out-line-in), whatever daemons fail, and however many.
THEOREM ScriptsInductive == ScriptsSpec => []ScriptsInv
BY ScriptsImplementParts, DaemonsInvariant, MixerInvariant, PTL DEF ScriptsInv

\* A daemon that runs and was not told to end is the one its pid file names,
\* unless a command overtook the child of the one before, and no pid file
\* names a process of another daemon (S95pipewire:26,45,54-72,
\* S99dabondashboard:11,19-28).
THEOREM NoOrphanHolds == ScriptsSpec => []NoOrphan
<1>1. ScriptsInv => NoOrphan
  BY DEF ScriptsInv, IInv
<1> QED
  BY <1>1, ScriptsInductive, PTL

\* wireplumber is launched by a start that has waited for the socket.
LEMMA WireplumberLaunch ==
  ASSUME Launch, Daemon = "wireplumber"
  PROVE  Starting /\ ~Doing("wait")
BY DEF Launch, Starting, Doing

\* On a clean system wireplumber is launched only when the pipewire launched
\* before it has made its socket (S95pipewire:32-51).
THEOREM SocketFirstHolds == ScriptsSpec => SocketFirst
<1>1. ASSUME IInv, [Next]_vars
      PROVE  [Launch /\ Daemon = "wireplumber" /\ clean => Newest(socket)]_vars
  <2>1. ASSUME Launch, Daemon = "wireplumber", clean
        PROVE  Newest(socket)
    BY <1>1, <2>1, WireplumberLaunch DEF IInv, OnlyNewest
  <2> QED
    BY <2>1
<1> QED
  BY <1>1, ScriptsImplementParts, DaemonsInvariant, PTL DEF SocketFirst

\* A start that gave up on the socket is not made good by the next one: as
\* long as that pipewire runs, no start gets to wireplumber
\* (S95pipewire:26-30,36-39).
THEOREM LateIsStuckHolds == ScriptsSpec => LateIsStuck
<1>1. ASSUME IInv, [Next]_vars
      PROVE  [Launch /\ Daemon = "wireplumber" /\ ~overlap
                => late \notin Executed]_vars
  <2>1. ASSUME Launch, Daemon = "wireplumber", ~overlap
        PROVE  late \notin Executed
    <3>1. late = 0 \/ late \in Is({"ending", "gone"})
      BY <1>1, <2>1, WireplumberLaunch DEF IInv, LateIsStopped
    <3>2. 0 \notin Pids
      BY <1>1, PidsOfLaunched DEF IInv
    <3> QED
      BY <3>1, <3>2 DEF Executed, Is
  <2> QED
    BY <2>1
<1> QED
  BY <1>1, ScriptsImplementParts, DaemonsInvariant, PTL DEF LateIsStuck

\* No program is started before every control of its script was set
\* (aloop:9,59-62, headphone:3, capture:3, line-out:3,
\* test-loop-line-out-line-in:3,43-49).
THEOREM SetBeforeLoopHolds == ScriptsSpec => SetBeforeLoop
<1>1. ASSUME Mixer!IInv, [Mixer!Next]_(Mixer!vars)
      PROVE  [Mixer!Background =>
                \A i \in DOMAIN Mixer!Script(call) :
                  LET s == Mixer!Script(call)[i]
                  IN s.do = "set" => mixer[s.what] = s.to]_(Mixer!vars)
  BY <1>1, SetsBeforeSpawn
<1> QED
  BY <1>1, ScriptsImplementParts, MixerInvariant, PTL
  DEF SetBeforeLoop, Mixer!SetBeforeLoop
=============================================================================
