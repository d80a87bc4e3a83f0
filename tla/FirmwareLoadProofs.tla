------------------------- MODULE FirmwareLoadProofs -------------------------
(***************************************************************************)
(* Proofs about FirmwareLoad, for images of any size, any payload size,    *)
(* any number of runs and any set of faults.                               *)
(***************************************************************************)
EXTENDS FirmwareLoad, SequenceTheorems, TLAPS

USE ImagesAssumption, PayloadAssumption, BoundsAssumption

\* A chunk is not longer than what is left, and empty only at the end.
LEMMA ChunkBounds ==
  ASSUME NEW img \in Images, NEW n \in 0 .. Size[img]
  PROVE  /\ ChunkLen(n, Size[img]) \in Nat
         /\ n + ChunkLen(n, Size[img]) \in 0 .. Size[img]
BY DEF ChunkLen, Images

\* The script has six commands.
LEMMA ScriptAt ==
  /\ Script[1] = "POWER_UP" /\ Script[2] = "LOAD_INIT"
  /\ Script[3] = "HOST_LOAD" /\ Script[4] = "LOAD_INIT"
  /\ Script[5] = "HOST_LOAD" /\ Script[6] = "BOOT"
BY DEF Script

\* The loader only sends what a command can be.
LEMMA CmdType ==
  ASSUME NEW s \in 1 .. 6, NEW n \in 0 .. Size[ImageAt(s)]
  PROVE  /\ Cmd(s, n) \in Commands /\ Cmd(s, n) # NoCmd
         /\ n + Cmd(s, n).len \in 0 .. Size[ImageAt(s)]
         /\ Cmd(s, n).op = Script[s]
<1>1. ImageAt(s) \in Images
  BY DEF ImageAt, Images
<1>2. Script[s] \in {"POWER_UP", "LOAD_INIT", "HOST_LOAD", "BOOT"}
  BY ScriptAt
<1>3. n \in Nat /\ Size[ImageAt(s)] \in Nat
  BY <1>1 DEF Images
<1> QED BY <1>1, <1>2, <1>3, ChunkBounds DEF Cmd, NoCmd, Commands

\* A segment of an image is a segment.
LEMMA SegType ==
  ASSUME NEW img \in Images, NEW n \in Nat
  PROVE  Seg(img, n) \in Segments
BY DEF Seg, Segments

\* Extending a segment makes a segment.
LEMMA ExtendType ==
  ASSUME NEW seg \in Segments, NEW c \in Commands
  PROVE  Extend(seg, c) \in Segments
<1>1. c.img \in Images /\ c.from + c.len \in Nat
  BY DEF Commands
<1> QED BY <1>1, SegType DEF Extend, Segments, Mixed

\* Obeying a command keeps the program mode and the loaded segments typed.
LEMMA ObeyType ==
  ASSUME TypeOK, Obey
  PROVE  /\ mode' \in {"reset", "off", "bootloader", "application"}
         /\ mem' \in Seq(Segments)
<1>1. CASE UNCHANGED mem
  BY <1>1 DEF TypeOK, Obey
<1>2. CASE mem' = Append(mem, Seg(Btldr, 0)) /\ UNCHANGED mode
  BY <1>2, SegType DEF TypeOK, Images
<1>3. CASE /\ mem # <<>>
           /\ mem' = [mem EXCEPT ![Len(mem)] = Extend(@, exec)]
           /\ UNCHANGED mode
  <2>1. Len(mem) \in 1 .. Len(mem) /\ mem[Len(mem)] \in Segments
    BY <1>3 DEF TypeOK
  <2>2. Extend(mem[Len(mem)], exec) \in Segments
    BY <2>1, ExtendType DEF TypeOK
  <2> QED BY <1>3, <2>1, <2>2 DEF TypeOK
<1> QED BY <1>1, <1>2, <1>3 DEF Obey

\* Advancing stays inside the script and inside the images.
LEMMA AdvanceType ==
  ASSUME TypeOK, Advance
  PROVE  /\ pc' \in {"idle", "send"} /\ ret' \in {ret, "ok"}
         /\ step' \in 1 .. 6 /\ sent' \in 0 .. Size[ImageAt(step')]
<1> DEFINE n == sent + Cmd(step, sent).len
<1>1. n \in 0 .. Size[ImageAt(step)]
  BY CmdType DEF TypeOK
<1>2. \A s : Size[ImageAt(s)] \in Nat
  BY DEF ImageAt, Images
<1> HIDE DEF n
<1>3. CASE pc' = "send" /\ sent' = n /\ UNCHANGED <<step, ret>>
  BY <1>1, <1>3 DEF TypeOK
<1>4. CASE sent' = 0 /\ pc' = "idle" /\ ret' = "ok" /\ UNCHANGED step
  BY <1>2, <1>4 DEF TypeOK
<1>5. CASE /\ sent' = 0 /\ step # 6
           /\ pc' = "send" /\ step' = step + 1 /\ UNCHANGED ret
  BY <1>2, <1>5 DEF TypeOK
<1> QED BY <1>3, <1>4, <1>5 DEF Advance, n

\* Every step keeps the variables in their types.
LEMMA TypeStep ==
  ASSUME TypeOK, [Next]_vars
  PROVE  TypeOK'
<1> USE DEF TypeOK
<1>0. \A f : Suffer(f) => hit' \subseteq AllFaults
  BY DEF Suffer
<1>1. CASE Start
  BY <1>1 DEF Start, ImageAt, Images
<1>2. CASE ReadFiles
  BY <1>2, <1>0 DEF ReadFiles, chip
<1>3. CASE AssertReset \/ StopTuner
  <2>1. ResetLow
    BY <1>3 DEF AssertReset, StopTuner
  <2>2. /\ mode' \in {"reset", "off", "bootloader", "application"}
        /\ mem' \in Seq(Segments) /\ exec' \in Commands
        /\ hit' \subseteq AllFaults
    <3>1. CASE mode' = "reset" /\ mem' = <<>> /\ exec' = NoCmd /\ hit' = {}
      BY <3>1 DEF NoCmd, Commands, Images
    <3>2. CASE Suffer("gpio") /\ UNCHANGED chip
      BY <3>2, <1>0 DEF chip
    <3> QED BY <2>1, <3>1, <3>2 DEF ResetLow
  <2> QED BY <1>3, <2>2 DEF AssertReset, StopTuner
<1>4. CASE DeassertReset
  BY <1>4, <1>0 DEF DeassertReset
<1>5. CASE Send
  BY <1>5, CmdType DEF Send
<1>6. CASE SendFails
  BY <1>6, <1>0 DEF SendFails, Fail, chip
<1>7. CASE Answered
  BY <1>7, AdvanceType DEF Answered, Fail, chip
<1>8. CASE Garbage
  BY <1>8, <1>0, AdvanceType DEF Garbage, Fail, chip
<1>9. CASE GiveUp
  BY <1>9, <1>0 DEF GiveUp, Fail, chip
<1>10. CASE Crash
  BY <1>10, <1>0 DEF Crash, chip
<1>11. CASE Execute
  <2>1. exec' \in Commands
    BY <1>11 DEF Execute, NoCmd, Commands, Images
  <2>2. hit' \subseteq AllFaults
    BY <1>11, <1>0 DEF Execute
  <2>3. /\ mode' \in {"reset", "off", "bootloader", "application"}
        /\ mem' \in Seq(Segments)
    BY <1>11, ObeyType DEF Execute
  <2> QED BY <1>11, <2>1, <2>2, <2>3 DEF Execute, host
<1>12. CASE UNCHANGED vars
  BY <1>12 DEF vars
<1> QED BY <1>1, <1>2, <1>3, <1>4, <1>5, <1>6, <1>7, <1>8, <1>9, <1>10,
           <1>11, <1>12 DEF Next, HostStep

\* The initial values have their types.
LEMMA TypeInit == Init => TypeOK
BY DEF Init, TypeOK, NoCmd, Commands, ImageAt, Images

\* Every variable stays in its type.
THEOREM TypeCorrect == Spec => []TypeOK
BY TypeInit, TypeStep, PTL DEF Spec

-----------------------------------------------------------------------------
(* The inductive invariant. *)

\* What HOST_LOAD makes of the segment it continues.
LEMMA ExtendLoads ==
  ASSUME NEW img \in Images, NEW n \in Nat, NEW c \in Commands,
         c.img = img, c.from = n
  PROVE  Extend(Seg(img, n), c) = Seg(img, n + c.len)
BY DEF Extend, Seg, Commands

\* The second LOAD_INIT appends to the bootloader segment.
LEMMA AppendSecond ==
  ASSUME NEW a, NEW b
  PROVE  Append(<<a>>, b) = <<a, b>>
<1> DEFINE S == {a, b}
           s == Append(<<a>>, b)
           t == <<a, b>>
<1>1. <<a>> \in Seq(S) /\ Len(<<a>>) = 1 /\ <<a>>[1] = a
  OBVIOUS
<1>2. t \in Seq(S) /\ Len(t) = 2 /\ t[1] = a /\ t[2] = b
  OBVIOUS
<1>3. s \in Seq(S) /\ Len(s) = 2 /\ s[1] = a /\ s[2] = b
  BY <1>1, AppendProperties
<1> HIDE DEF S, s, t
<1>4. s = t
  BY <1>2, <1>3, SeqEqual
<1> QED BY <1>4 DEF s, t

\* A command that finds the tuner where the loader thinks it is leaves it
\* where the loader will think it is.
LEMMA ObeyInStep ==
  ASSUME TypeOK, Obey, exec = Cmd(step, sent),
         mem = Loaded(step, sent), mode = ModeBefore(step)
  PROVE  /\ mode' = ModeBefore(step + 1)
         /\ mem' = IF Script[step] = "HOST_LOAD"
                   THEN Loaded(step, sent + Cmd(step, sent).len)
                   ELSE Loaded(step + 1, 0)
<1>0. exec \in Commands /\ exec.op = Script[step] /\ exec.img = ImageAt(step)
        /\ exec.from = sent /\ sent \in Nat
  <2>1. step \in 1 .. 6 /\ sent \in 0 .. Size[ImageAt(step)]
          /\ Size[ImageAt(step)] \in Nat
    BY DEF TypeOK, ImageAt, Images
  <2> QED BY <2>1, CmdType DEF Cmd
<1>1. CASE step = 1
  <2>1. exec.op = "POWER_UP" /\ mode = "off" /\ mem = <<>>
    BY <1>0, <1>1, ScriptAt DEF Loaded, ModeBefore
  <2>2. mode' = "bootloader" /\ mem' = <<>>
    BY <2>1 DEF Obey
  <2> QED BY <1>1, <2>2, ScriptAt DEF Loaded, ModeBefore
<1>2. CASE step = 2
  <2>1. Append(mem, Seg(Btldr, 0)) = <<Seg(Btldr, 0)>>
    BY <1>2 DEF Loaded
  <2> QED BY <1>0, <1>2, <2>1, ScriptAt DEF Obey, Loaded, ModeBefore
<1>3. CASE step = 3
  <2>1. mem = <<Seg(Btldr, sent)>> /\ mem # <<>> /\ Len(mem) = 1
    BY <1>3 DEF Loaded
  <2>2. mem' = [mem EXCEPT ![1] = Extend(@, exec)] /\ UNCHANGED mode
    BY <1>0, <1>3, <2>1, ScriptAt DEF Obey, ModeBefore
  <2>3. Extend(Seg(Btldr, sent), exec) = Seg(Btldr, sent + exec.len)
    BY <1>0, <1>3, ExtendLoads DEF ImageAt, Images
  <2>4. mem' = <<Seg(Btldr, sent + exec.len)>>
    BY <2>1, <2>2, <2>3
  <2> QED BY <1>3, <2>2, <2>4, ScriptAt DEF Loaded, ModeBefore
<1>4. CASE step = 4
  <2>1. mem = <<Seg(Btldr, Size[Btldr])>>
    BY <1>4 DEF Loaded
  <2>2. Seg(Btldr, 0) = Seg(App, 0)
    BY DEF Seg
  <2>3. mem' = Append(mem, Seg(App, 0)) /\ UNCHANGED mode
    BY <1>0, <1>4, <2>2, ScriptAt DEF Obey, ModeBefore
  <2>4. mem' = <<Seg(Btldr, Size[Btldr]), Seg(App, 0)>>
    BY <2>1, <2>3, AppendSecond
  <2>5. Loaded(5, 0) = <<Seg(Btldr, Size[Btldr]), Seg(App, 0)>>
    BY DEF Loaded
  <2> QED BY <1>4, <2>3, <2>4, <2>5, ScriptAt DEF ModeBefore
<1>5. CASE step = 5
  <2>1. /\ mem = <<Seg(Btldr, Size[Btldr]), Seg(App, sent)>>
        /\ mem # <<>> /\ Len(mem) = 2
    BY <1>5 DEF Loaded
  <2>2. mem' = [mem EXCEPT ![2] = Extend(@, exec)] /\ UNCHANGED mode
    BY <1>0, <1>5, <2>1, ScriptAt DEF Obey, ModeBefore
  <2>3. Extend(Seg(App, sent), exec) = Seg(App, sent + exec.len)
    BY <1>0, <1>5, ExtendLoads DEF ImageAt, Images
  <2>4. mem' = <<Seg(Btldr, Size[Btldr]), Seg(App, sent + exec.len)>>
    BY <2>1, <2>2, <2>3
  <2> QED BY <1>5, <2>2, <2>4, ScriptAt DEF Loaded, ModeBefore
<1>6. CASE step = 6
  BY <1>0, <1>6, ScriptAt DEF Obey, Loaded, ModeBefore
<1> QED BY <1>1, <1>2, <1>3, <1>4, <1>5, <1>6 DEF TypeOK

\* What follows an exchange: the next chunk or the next command is due.
LEMMA AdvanceInStep ==
  ASSUME TypeOK, Advance, UNCHANGED <<mem, mode>>, mode = ModeBefore(step + 1),
         mem = IF Script[step] = "HOST_LOAD"
               THEN Loaded(step, sent + Cmd(step, sent).len)
               ELSE Loaded(step + 1, 0),
         pc' = "send"
  PROVE  mem' = Loaded(step', sent') /\ mode' = ModeBefore(step')
<1>1. CASE Script[step] = "HOST_LOAD"
  <2>1. step \in {3, 5}
    BY <1>1, ScriptAt DEF TypeOK
  <2>2. CASE sent' = sent + Cmd(step, sent).len /\ UNCHANGED step
    BY <1>1, <2>1, <2>2 DEF ModeBefore
  <2>3. CASE /\ sent + Cmd(step, sent).len = Size[ImageAt(step)]
             /\ sent' = 0 /\ step' = step + 1
    BY <1>1, <2>1, <2>3 DEF Loaded, ModeBefore, ImageAt, Wanted
  <2> QED BY <1>1, <2>2, <2>3 DEF Advance, LoadDone
<1>2. CASE Script[step] # "HOST_LOAD"
  BY <1>2 DEF Advance
<1> QED BY <1>1, <1>2

\* Between two resets faults only add up.
Grows == hit \subseteq hit'

\* A fault is remembered until the next reset.
LEMMA SufferGrows == ASSUME NEW f, Suffer(f) PROVE Grows /\ f \in hit'
BY DEF Suffer, Grows

\* The tuner is blank from the falling to the rising edge of the reset line.
LEMMA BlankStep ==
  ASSUME IInv, [Next]_vars
  PROVE  Blank'
<1> USE DEF Blank
<1>1. CASE AssertReset
  BY <1>1 DEF AssertReset, ResetLow, Suffer, IInv
<1>2. CASE Execute
  BY <1>2, SufferGrows DEF IInv, Execute, host, Grows
<1>3. CASE Garbage
  BY <1>3 DEF Garbage, Advance, Fail
<1>4. CASE Answered
  BY <1>4 DEF Answered, Advance, Fail
<1>5. CASE Start \/ ReadFiles \/ DeassertReset \/ StopTuner \/ Send
             \/ SendFails \/ GiveUp \/ Crash
  BY <1>5 DEF Start, ReadFiles, DeassertReset, StopTuner, Send, SendFails,
              GiveUp, Fail, Crash, IInv
<1>6. CASE UNCHANGED vars
  BY <1>6 DEF vars, IInv
<1> QED BY <1>1, <1>2, <1>3, <1>4, <1>5, <1>6 DEF Next, HostStep

\* Outside an exchange the tuner has nothing to execute.
LEMMA NoLateCommandStep ==
  ASSUME IInv, [Next]_vars
  PROVE  NoLateCommand'
<1> USE DEF NoLateCommand
<1>1. CASE DeassertReset
  BY <1>1, SufferGrows DEF DeassertReset, IInv, Blank, Grows
<1>2. CASE Send
  BY <1>2 DEF Send, IInv
<1>3. CASE Answered
  BY <1>3 DEF Answered, chip
<1>4. CASE Garbage
  BY <1>4, SufferGrows DEF Garbage
<1>5. CASE Execute
  BY <1>5 DEF Execute, NoCmd
<1>6. CASE Start \/ ReadFiles \/ AssertReset \/ StopTuner
             \/ SendFails \/ GiveUp \/ Crash
  BY <1>6 DEF Start, ReadFiles, AssertReset, StopTuner, SendFails,
              GiveUp, Fail, Crash
<1>7. CASE UNCHANGED vars
  BY <1>7 DEF vars, IInv
<1> QED BY <1>1, <1>2, <1>3, <1>4, <1>5, <1>6, <1>7 DEF Next, HostStep

\* The loader and the tuner stay in step.
LEMMA InStepStep ==
  ASSUME IInv, [Next]_vars
  PROVE  InStep'
<1> DEFINE clean == hit \intersect {"gpio", "garbage", "reject"} = {}
<1>1. CASE DeassertReset
  <2> SUFFICES ASSUME clean' PROVE InStep'
    BY DEF InStep
  <2>1. hit' = hit /\ clean
    BY <1>1 DEF DeassertReset, Suffer
  <2>2. mode = "reset" /\ mem = <<>> /\ step = 1 /\ sent = 0
    BY <1>1, <2>1 DEF DeassertReset, IInv, Blank, InStep
  <2> QED BY <1>1, <2>1, <2>2 DEF DeassertReset, InStep, Loaded, ModeBefore,
                                  Suffer
<1>2. CASE Send
  <2> SUFFICES ASSUME clean PROVE InStep'
    BY <1>2 DEF InStep, Send
  <2>1. mem = Loaded(step, sent) /\ mode = ModeBefore(step) /\ mode # "reset"
    BY <1>2 DEF Send, IInv, InStep, ModeBefore
  <2>2. exec = NoCmd
    BY <1>2 DEF Send, IInv, NoLateCommand
  <2>3. exec' # NoCmd
    BY <1>2, <2>1, <2>2, CmdType DEF Send, IInv, TypeOK
  <2> QED BY <1>2, <2>1, <2>3 DEF Send, InStep
<1>3. CASE Answered
  <2> SUFFICES ASSUME clean, pc' = "send" PROVE InStep'
    BY <1>3 DEF InStep, Answered, Advance, Fail
  <2>1. Advance /\ UNCHANGED <<mem, mode, exec, hit>>
    BY <1>3 DEF Answered, Fail, chip
  <2>2. /\ mode = ModeBefore(step + 1)
        /\ mem = IF Script[step] = "HOST_LOAD"
                 THEN Loaded(step, sent + Cmd(step, sent).len)
                 ELSE Loaded(step + 1, 0)
    BY <1>3 DEF Answered, IInv, InStep
  <2>3. mem' = Loaded(step', sent') /\ mode' = ModeBefore(step')
    BY <2>1, <2>2, AdvanceInStep DEF IInv
  <2> QED BY <2>3 DEF InStep
<1>4. CASE Garbage
  BY <1>4, SufferGrows DEF Garbage, InStep
<1>5. CASE Execute
  <2> SUFFICES ASSUME clean', pc = "wait" PROVE InStep'
    BY <1>5, SufferGrows
       DEF Execute, host, InStep, IInv, NoLateCommand, Grows
  <2>1. clean /\ hit' = hit
    BY <1>5 DEF Execute, Suffer
  <2>2. exec = Cmd(step, sent) /\ exec' = NoCmd /\ UNCHANGED host
    BY <1>5, <2>1 DEF Execute, IInv, NoLateCommand
  <2>3. mem = Loaded(step, sent) /\ mode = ModeBefore(step)
    BY <1>5, <2>1 DEF Execute, IInv, InStep
  <2>4. Obey
    <3>1. ~Suffer("reject")
      BY <2>1 DEF Suffer
    <3>2. exec.op = "BOOT" => mem = Wanted
      BY <2>1 DEF IInv, BootsWanted
    <3> QED BY <1>5, <3>1, <3>2 DEF Execute
  <2>5. /\ mode' = ModeBefore(step + 1)
        /\ mem' = IF Script[step] = "HOST_LOAD"
                  THEN Loaded(step, sent + Cmd(step, sent).len)
                  ELSE Loaded(step + 1, 0)
    BY <2>2, <2>3, <2>4, ObeyInStep DEF IInv
  <2> QED BY <2>2, <2>5 DEF InStep, host
<1>6. CASE Start \/ ReadFiles \/ AssertReset \/ StopTuner
             \/ SendFails \/ GiveUp \/ Crash
  BY <1>6 DEF Start, ReadFiles, AssertReset, StopTuner, SendFails,
              GiveUp, Fail, Crash, InStep
<1>7. CASE UNCHANGED vars
  BY <1>7 DEF vars, IInv, InStep
<1> QED BY <1>1, <1>2, <1>3, <1>4, <1>5, <1>6, <1>7 DEF Next, HostStep

\* BOOT is only ever sent to, and executed by, a tuner with the right images.
LEMMA BootsWantedStep ==
  ASSUME IInv, [Next]_vars
  PROVE  BootsWanted'
<1> USE DEF BootsWanted
<1>1. CASE Start
  BY <1>1 DEF Start, IInv
<1>2. CASE AssertReset \/ StopTuner
  BY <1>2 DEF AssertReset, StopTuner, ResetLow, Suffer, NoCmd
<1>3. CASE DeassertReset
  BY <1>3 DEF DeassertReset, Suffer, IInv
<1>4. CASE Send
  <2> SUFFICES ASSUME hit \intersect {"gpio", "garbage", "reject"} = {},
                      exec' = Cmd(step, sent), Cmd(step, sent).op = "BOOT"
               PROVE  mem = Wanted
    BY <1>4 DEF Send, IInv
  <2>1. step = 6
    BY CmdType, ScriptAt DEF IInv, TypeOK
  <2> QED BY <1>4, <2>1 DEF Send, IInv, InStep, Loaded
<1>5. CASE ReadFiles \/ SendFails \/ Answered \/ Garbage \/ GiveUp \/ Crash
  BY <1>5, SufferGrows DEF ReadFiles, SendFails, Answered, Garbage, GiveUp,
              Crash, chip, Grows, IInv
<1>6. CASE Execute
  <2> SUFFICES ASSUME (hit \intersect {"gpio", "garbage", "reject"} = {})',
                      mode' = "application"
               PROVE  mem' = Wanted
    BY <1>6 DEF Execute, NoCmd
  <2>1. hit \intersect {"gpio", "garbage", "reject"} = {}
    BY <1>6, SufferGrows DEF Execute, Grows
  <2>2. CASE Obey
    BY <1>6, <2>1, <2>2 DEF Obey, IInv
  <2>3. CASE UNCHANGED <<mode, mem>>
    BY <2>1, <2>3 DEF IInv
  <2> QED BY <1>6, <2>2, <2>3 DEF Execute
<1>7. CASE UNCHANGED vars
  BY <1>7 DEF vars, IInv
<1> QED BY <1>1, <1>2, <1>3, <1>4, <1>5, <1>6, <1>7 DEF Next, HostStep

\* A 0 is only returned after a look at the power-up state.
LEMMA SuccessStep ==
  ASSUME IInv, [Next]_vars
  PROVE  SuccessMeansRunning'
<1> USE DEF SuccessMeansRunning
<1>1. CASE Answered
  BY <1>1 DEF Answered, Advance, Fail, ModeOk, chip
<1>2. CASE Garbage
  BY <1>2, SufferGrows DEF Garbage
<1>3. CASE Execute
  <2>1. mode = "application" => mode' = "application"
    BY <1>3 DEF Execute, Obey
  <2> QED BY <1>3, <2>1, SufferGrows DEF Execute, host, Grows, IInv
<1>4. CASE Start \/ ReadFiles \/ AssertReset \/ DeassertReset \/ StopTuner
             \/ Send \/ SendFails \/ GiveUp \/ Crash
  BY <1>4 DEF Start, ReadFiles, AssertReset, DeassertReset, StopTuner, Send,
              SendFails, GiveUp, Fail, Crash
<1>5. CASE UNCHANGED vars
  BY <1>5 DEF vars, IInv
<1> QED BY <1>1, <1>2, <1>3, <1>4, <1>5 DEF Next, HostStep

\* A tuner that is in step passes both checks and is not in reset.
LEMMA RetryStep ==
  ASSUME IInv, [Next]_vars
  PROVE  RetryRecovers'
<1> USE DEF RetryRecovers
<1>1. CASE Answered
  <2> SUFFICES ASSUME ~ModeOk(mode) PROVE hit # {}
    BY <1>1 DEF Answered, Advance
  <2> SUFFICES ASSUME hit = {} PROVE ModeOk(mode)
    OBVIOUS
  <2>1. mode = ModeBefore(step + 1) /\ step \in 1 .. 6
    BY <1>1 DEF Answered, IInv, TypeOK, InStep
  <2> QED BY <2>1 DEF ModeBefore, ModeOk
<1>2. CASE GiveUp
  <2>1. hit = {} => mode # "reset"
    BY <1>2 DEF GiveUp, IInv, TypeOK, InStep, ModeBefore
  <2> QED BY <1>2, <2>1, SufferGrows DEF GiveUp
<1>3. CASE ReadFiles \/ SendFails \/ Garbage
  BY <1>3, SufferGrows DEF ReadFiles, SendFails, Garbage
<1>4. CASE Execute
  BY <1>4, SufferGrows DEF Execute, host, IInv, Grows
<1>5. CASE Start \/ AssertReset \/ DeassertReset \/ StopTuner \/ Send
             \/ Crash
  BY <1>5 DEF Start, AssertReset, DeassertReset, StopTuner, Send, Crash
<1>6. CASE UNCHANGED vars
  BY <1>6 DEF vars, IInv
<1> QED BY <1>1, <1>2, <1>3, <1>4, <1>5, <1>6 DEF Next, HostStep

\* The inductive invariant holds in every reachable state.
THEOREM Inductive == Spec => []IInv
<1>1. Init => IInv
  BY TypeInit DEF Init, IInv, Blank, InStep, BootsWanted, NoLateCommand,
                  SuccessMeansRunning, RetryRecovers, NoCmd
<1>2. IInv /\ [Next]_vars => IInv'
  BY TypeStep, BlankStep, InStepStep, BootsWantedStep, NoLateCommandStep,
     SuccessStep, RetryStep DEF IInv
<1> QED BY <1>1, <1>2, PTL DEF Spec

-----------------------------------------------------------------------------
\* A tuner in application mode runs the two images, complete and in order,
\* whatever was loaded, killed or refused before its last reset.
THEOREM AppImageHolds == Spec => []AppImage
<1>1. IInv => AppImage
  BY DEF IInv, BootsWanted, AppImage
<1> QED BY <1>1, Inductive, PTL

\* si468x_start_image returns 0 only if the application runs.
THEOREM SuccessMeansRunningHolds == Spec => []SuccessMeansRunning
<1>1. IInv => SuccessMeansRunning
  BY DEF IInv
<1> QED BY <1>1, Inductive, PTL

\* A failed start is the fault of that start: running it again is enough.
THEOREM RetryRecoversHolds == Spec => []RetryRecovers
<1>1. IInv => RetryRecovers
  BY DEF IInv
<1> QED BY <1>1, Inductive, PTL

\* After its reset a start is never overtaken by a command of an earlier one.
THEOREM NoLateCommandHolds == Spec => []NoLateCommand
<1>1. IInv => NoLateCommand
  BY DEF IInv
<1> QED BY <1>1, Inductive, PTL
=============================================================================
