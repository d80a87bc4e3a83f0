------------------------- MODULE ChannelSwitchProofs -------------------------
(***************************************************************************)
(* Proofs for ChannelSwitch: the ring never holds frames of another        *)
(* channel count, no frame gets lost from the count, and without faults    *)
(* the sine has no gap within a segment, for every schedule, period,       *)
(* buffer and length of a segment.                                         *)
(***************************************************************************)
EXTENDS ChannelSwitch, SequenceTheorems, TLAPS

Frame == [at : Nat, ch : Nat]

\* The numbers of the state, apart from the rest of its type.
LEMMA Numbers ==
  ASSUME TypeOK
  PROVE  /\ {Period, Buffer, Total, frames_done, phase, put, heard, faults,
             channels, seg, block.from, block.len, block.ch, Len(ring)}
              \subseteq Nat
         /\ last \in Int /\ put <= block.len /\ frames_done <= Total
         /\ Period > 0 /\ heard <= Total /\ block.len <= Period
         /\ Len(ring) <= Buffer /\ faults <= MaxFaults
         /\ ring \in Seq(Frame) /\ Schedule \in Seq(Nat) /\ Schedule # <<>>
<1>1. /\ seg \in 1 .. Len(Schedule) /\ frames_done \in 0 .. Total
      /\ phase \in Nat /\ block \in [from : Nat, len : 0 .. Period, ch : Nat]
      /\ put \in 0 .. block.len /\ channels \in Nat
      /\ Len(ring) <= Buffer /\ heard \in 0 .. Total
      /\ faults \in 0 .. MaxFaults
  BY DEF TypeOK
<1>2. last \in Nat \union {-1} /\ ring \in Seq(Frame)
  BY DEF TypeOK, Frame
<1>3. /\ {Period, Buffer, Total, MaxFaults} \subseteq Nat /\ Period > 0
      /\ Schedule \in Seq(Nat) /\ Schedule # <<>>
  BY SizesAssumption, ScheduleAssumption, MaxFaultsAssumption
<1>4. Len(ring) \in Nat /\ Len(Schedule) \in Nat
  BY <1>2, <1>3
<1> QED
  BY <1>1, <1>2, <1>3, <1>4

\* The channel count of a segment.
LEMMA ScheduleType ==
  ASSUME NEW s \in 1 .. Len(Schedule)
  PROVE  Schedule[s] \in Nat
BY ScheduleAssumption

\* No frames: what an action that empties the ring establishes.
LEMMA NoFrames ==
  <<>> \in Seq(Frame) /\ Len(<<>>) = 0
BY DEF Frame

\* The frames that a write copies.
LEMMA FramesType ==
  ASSUME TypeOK, NEW n \in Nat, NEW m \in Nat, n <= m
  PROVE  /\ Frames(n, m) \in Seq(Frame) /\ Len(Frames(n, m)) = m - n
         /\ \A i \in 1 .. m - n : Frames(n, m)[i] =
              [at |-> block.from + n + i - 1, ch |-> block.ch]
<1>1. block.from \in Nat /\ block.ch \in Nat
  BY Numbers
<1>2. \A i \in 1 .. m - n :
        [at |-> block.from + n + i - 1, ch |-> block.ch] \in Frame
  BY <1>1 DEF Frame
<1>3. m - n \in Nat
  OBVIOUS
<1> QED
  BY <1>2, <1>3 DEF Frames

LEMMA InitInvariant == Init => IInv
<1> SUFFICES ASSUME Init PROVE IInv
  OBVIOUS
<1>1. TypeOK
  <2>1. 1 \in 1 .. Len(Schedule)
    BY ScheduleAssumption
  <2>2. NoBlock \in [from : Nat, len : 0 .. Period, ch : Nat]
        /\ 0 \in 0 .. NoBlock.len
    BY SizesAssumption DEF NoBlock
  <2>3. 0 \in 0 .. Total /\ 0 \in 0 .. MaxFaults /\ 0 <= Buffer
    BY SizesAssumption, MaxFaultsAssumption
  <2>4. ring \in Seq([at : Nat, ch : Nat]) /\ Len(ring) = 0
    BY NoFrames DEF Init, Frame
  <2> QED
    BY <2>1, <2>2, <2>3, <2>4 DEF Init, TypeOK
<1>2. LayoutMatches /\ Stream /\ Block /\ Outcome
  BY DEF Init, LayoutMatches, Stream, Block, Outcome
<1>3. Accounts /\ Continuous
  BY SizesAssumption
  DEF Init, Accounts, CountedIsPlayedOrQueued, Continuous, Pending
<1> QED
  BY <1>1, <1>2, <1>3 DEF IInv

LEMMA OpenInvariant == IInv /\ Open => IInv'
<1> SUFFICES ASSUME IInv, Open PROVE IInv'
  OBVIOUS
<1>1. /\ pc = "open"
      /\ pc' = "params" /\ state' = "OPEN"
      /\ UNCHANGED <<seg, frames_done, phase, block, put, again, result,
                      channels, ring, last, heard, faults>>
  BY DEF Open
<1>2. TypeOK'
  BY <1>1 DEF IInv, TypeOK
<1>3. LayoutMatches'
  BY <1>1 DEF IInv, LayoutMatches
<1>4. Stream'
  BY <1>1 DEF IInv, Stream
<1>5. Block'
  BY <1>1 DEF IInv, Block
<1>6. Accounts'
  BY <1>1 DEF IInv, Accounts, CountedIsPlayedOrQueued
<1>7. Outcome'
  BY <1>1 DEF IInv, Outcome
<1>8. Continuous'
  BY <1>1 DEF IInv, Continuous, Pending
<1> QED
  BY <1>2, <1>3, <1>4, <1>5, <1>6, <1>7, <1>8 DEF IInv

LEMMA InitialHwParamsInvariant == IInv /\ InitialHwParams => IInv'
<1> SUFFICES ASSUME IInv, InitialHwParams PROVE IInv'
  OBVIOUS
<1>1. /\ pc = "params"
      /\ pc' = "prepare" /\ state' = "SETUP" /\ channels' = Schedule[1]
      /\ UNCHANGED <<seg, frames_done, phase, block, put, again, result,
                      ring, last, heard, faults>>
  BY DEF InitialHwParams
<1>2. seg = 1 /\ ring = <<>> /\ Len(ring) = 0 /\ Schedule[1] \in Nat
  <2>1. 1 \in 1 .. Len(Schedule)
    BY ScheduleAssumption
  <2> QED
    BY <1>1, <2>1, ScheduleType, NoFrames DEF IInv, Stream
<1>3. TypeOK'
  BY <1>1, <1>2 DEF IInv, TypeOK
<1>4. LayoutMatches'
  BY <1>1, <1>2 DEF IInv, LayoutMatches
<1>5. Stream'
  BY <1>1, <1>2 DEF IInv, Stream
<1>6. Block'
  BY <1>1 DEF IInv, Block
<1>7. Accounts'
  BY <1>1 DEF IInv, Accounts, CountedIsPlayedOrQueued
<1>8. Outcome'
  BY <1>1 DEF IInv, Outcome
<1>9. Continuous'
  BY <1>1 DEF IInv, Continuous, Pending
<1> QED
  BY <1>3, <1>4, <1>5, <1>6, <1>7, <1>8, <1>9 DEF IInv

LEMMA PrepareInvariant == IInv /\ Prepare => IInv'
<1> SUFFICES ASSUME IInv, Prepare PROVE IInv'
  OBVIOUS
<1>1. /\ pc = "prepare"
      /\ pc' = "loop" /\ state' = "PREPARED" /\ ring' = <<>>
      /\ UNCHANGED <<seg, frames_done, phase, block, put, again, result,
                      channels, last, heard, faults>>
  BY DEF Prepare
<1>2. ring' \in Seq(Frame) /\ Len(ring') = 0
  BY <1>1, NoFrames
<1>3. /\ {heard, frames_done, Total, phase, faults} \subseteq Nat
      /\ heard <= Total
  BY Numbers DEF IInv
<1>4. TypeOK'
  <2>1. Len(ring') <= Buffer
    BY <1>2, SizesAssumption
  <2> QED
    BY <1>1, <1>2, <2>1 DEF IInv, TypeOK, Frame
<1>5. LayoutMatches'
  BY <1>1 DEF IInv, LayoutMatches
<1>6. Stream'
  BY <1>1 DEF IInv, Stream
<1>7. Block'
  BY <1>1 DEF IInv, Block
<1>8. Accounts'
  BY <1>1, <1>2, <1>3 DEF IInv, Accounts, CountedIsPlayedOrQueued, Stream
<1>9. Outcome'
  BY <1>1 DEF IInv, Outcome
<1>10. Continuous'
  BY <1>1, <1>2, <1>3 DEF IInv, Continuous, Pending, Stream
<1> QED
  BY <1>4, <1>5, <1>6, <1>7, <1>8, <1>9, <1>10 DEF IInv

LEMMA FillPeriodInvariant == IInv /\ FillPeriod => IInv'
<1> SUFFICES ASSUME IInv, FillPeriod PROVE IInv'
  OBVIOUS
<1>1. /\ pc = "loop" /\ frames_done < Total
      /\ pc' = "write" /\ put' = 0 /\ again' = FALSE
      /\ block' = [from |-> phase, len |-> BlockLen, ch |-> Schedule[seg]]
      /\ phase' = phase + BlockLen
      /\ UNCHANGED <<seg, frames_done, result, state, channels, ring, last,
                      heard, faults>>
  BY DEF FillPeriod, card
<1>2. BlockLen \in 1 .. Period /\ frames_done + BlockLen <= Total
  <2>1. {frames_done, Total, Period} \subseteq Nat /\ Period > 0
    BY Numbers DEF IInv
  <2> QED
    BY <1>1, <2>1 DEF BlockLen
<1>3. seg \in 1 .. Len(Schedule) /\ phase \in Nat /\ Period \in Nat
  BY Numbers DEF IInv, TypeOK
<1>4. Schedule[seg] \in Nat
  BY <1>3, ScheduleType
<1>5. /\ block'.from = phase /\ block'.len = BlockLen
      /\ block'.ch = Schedule[seg]
  BY <1>1
<1>6. TypeOK'
  <2>1. block' \in [from : Nat, len : 0 .. Period, ch : Nat]
    BY <1>1, <1>2, <1>3, <1>4
  <2>2. put' \in 0 .. block'.len /\ phase' \in Nat
    BY <1>1, <1>2, <1>3, <1>5
  <2> QED
    BY <1>1, <2>1, <2>2 DEF IInv, TypeOK
<1>7. LayoutMatches'
  BY <1>1 DEF IInv, LayoutMatches
<1>8. Stream'
  BY <1>1 DEF IInv, Stream
<1>9. Block'
  <2>1. block'.len > 0 /\ phase' = block'.from + block'.len
    BY <1>1, <1>2, <1>5
  <2> QED
    BY <1>1, <1>2, <1>5, <2>1 DEF IInv, Block
<1>10. Accounts'
  <2>1. frames_done \in Nat
    BY Numbers DEF IInv
  <2> QED
    BY <1>1, <2>1 DEF IInv, Accounts, CountedIsPlayedOrQueued
<1>11. Outcome'
  BY <1>1 DEF IInv, Outcome
<1>12. Continuous'
  <2>1. Pending' = Pending
    BY <1>1, <1>3, <1>5 DEF Pending
  <2> QED
    BY <1>1, <2>1 DEF IInv, Continuous
<1> QED
  BY <1>6, <1>7, <1>8, <1>9, <1>10, <1>11, <1>12 DEF IInv

LEMMA SegmentOverInvariant == IInv /\ SegmentOver => IInv'
<1> SUFFICES ASSUME IInv, SegmentOver PROVE IInv'
  OBVIOUS
<1>1. /\ pc = "loop" /\ frames_done >= Total
      /\ \/ pc' = "drop" /\ seg' = seg + 1 /\ frames_done' = 0
            /\ seg < Len(Schedule)
         \/ pc' = "drain" /\ UNCHANGED <<seg, frames_done>>
      /\ UNCHANGED <<phase, block, put, again, result, state, channels,
                      ring, last, heard, faults>>
  BY DEF SegmentOver, card
<1>2. /\ frames_done = Total /\ seg' \in 1 .. Len(Schedule)
      /\ frames_done' \in 0 .. Total
  <2>1. /\ {frames_done, Total} \subseteq Nat /\ frames_done <= Total
        /\ seg \in 1 .. Len(Schedule) /\ Len(Schedule) \in Nat
    BY Numbers DEF IInv, TypeOK
  <2> QED
    BY <1>1, <2>1
<1>3. TypeOK'
  BY <1>1, <1>2 DEF IInv, TypeOK
<1>4. LayoutMatches'
  BY <1>1 DEF IInv, LayoutMatches
<1>5. Stream'
  BY <1>1 DEF IInv, Stream
<1>6. Block'
  BY <1>1 DEF IInv, Block
<1>7. Accounts'
  BY <1>1, <1>2 DEF IInv, Accounts, CountedIsPlayedOrQueued
<1>8. Outcome'
  BY <1>1 DEF IInv, Outcome
<1>9. Continuous'
  BY <1>1 DEF IInv, Continuous, Pending
<1> QED
  BY <1>3, <1>4, <1>5, <1>6, <1>7, <1>8, <1>9 DEF IInv

LEMMA WriteSomeInvariant == IInv /\ WriteSome => IInv'
<1> SUFFICES ASSUME IInv, WriteSome PROVE IInv'
  OBVIOUS
<1>1. /\ pc = "write" /\ put < block.len
      /\ state \in {"PREPARED", "RUNNING"} /\ Len(ring) < Buffer
      /\ put' = put + Smaller(block.len - put, Buffer - Len(ring))
      /\ ring' = ring \o Frames(put, put')
      /\ state' \in {state, "RUNNING"}
      /\ UNCHANGED <<pc, seg, frames_done, phase, block, again, result,
                      channels, last, heard, faults>>
  BY DEF WriteSome
<1>2. /\ {put, block.len, Buffer, Len(ring), heard, frames_done, Total,
          block.from, faults} \subseteq Nat
      /\ ring \in Seq(Frame) /\ last \in Int
  BY Numbers DEF IInv
<1>3. put' \in put + 1 .. block.len /\ Len(ring) + (put' - put) <= Buffer
  BY <1>1, <1>2 DEF Smaller
<1>4. /\ Frames(put, put') \in Seq(Frame)
      /\ Len(Frames(put, put')) = put' - put
      /\ \A i \in 1 .. put' - put : Frames(put, put')[i] =
           [at |-> block.from + put + i - 1, ch |-> block.ch]
  <2>1. put' \in Nat /\ put <= put'
    BY <1>2, <1>3
  <2> QED
    BY <1>2, <2>1, FramesType DEF IInv
<1>5. /\ ring' \in Seq(Frame)
      /\ Len(ring') = Len(ring) + (put' - put)
      /\ \A i \in 1 .. Len(ring') :
           ring'[i] = IF i <= Len(ring) THEN ring[i]
                      ELSE Frames(put, put')[i - Len(ring)]
  BY <1>1, <1>2, <1>4, ConcatProperties
<1>6. \A i \in 1 .. Len(ring') :
        \/ i \in 1 .. Len(ring) /\ ring'[i] = ring[i]
        \/ /\ i > Len(ring)
           /\ ring'[i].at = block.from + put + (i - Len(ring)) - 1
           /\ ring'[i].ch = block.ch
  <2> TAKE i \in 1 .. Len(ring')
  <2>1. CASE i <= Len(ring)
    BY <1>2, <1>5, <2>1
  <2>2. CASE ~ i <= Len(ring)
    <3>1. i - Len(ring) \in 1 .. put' - put
      BY <1>2, <1>3, <1>5, <2>2
    <3>2. ring'[i] = Frames(put, put')[i - Len(ring)]
      BY <1>5, <2>2
    <3> QED
      BY <1>2, <1>4, <2>2, <3>1, <3>2
  <2> QED
    BY <2>1, <2>2
<1>7. TypeOK'
  <2>1. put' \in 0 .. block'.len /\ Len(ring') <= Buffer
    BY <1>1, <1>2, <1>3, <1>5
  <2> QED
    BY <1>1, <1>5, <2>1 DEF IInv, TypeOK, Frame
<1>8. LayoutMatches'
  <2>1. block.ch = channels
    BY <1>1 DEF IInv, Block, Stream
  <2> QED
    BY <1>1, <1>6, <2>1 DEF IInv, LayoutMatches
<1>9. Stream'
  BY <1>1 DEF IInv, Stream
<1>10. Block'
  BY <1>1 DEF IInv, Block
<1>11. Accounts'
  <2>1. /\ heard + Len(ring) = frames_done + put
        /\ frames_done + block.len <= Total
    BY <1>1 DEF IInv, Accounts, CountedIsPlayedOrQueued, Block
  <2>2. /\ put' \in Nat /\ put' <= block.len
        /\ Len(ring') = Len(ring) + (put' - put)
    BY <1>2, <1>3, <1>5
  <2>3. /\ heard \in Nat /\ frames_done \in Nat /\ put \in Nat
        /\ block.len \in Nat /\ Len(ring) \in Nat /\ Total \in Nat
    BY <1>2
  <2>4. heard + Len(ring') = frames_done + put'
    BY ONLY <2>1, <2>2, <2>3
  <2>5. frames_done + put' <= Total
    <3>1. \A f, n, len, t \in Nat : n <= len /\ f + len <= t => f + n <= t
      OBVIOUS
    <3> QED
      BY <2>1, <2>2, <2>3, <3>1
  <2> QED
    BY <1>1, <2>4, <2>5 DEF Accounts, CountedIsPlayedOrQueued
<1>12. Outcome'
  BY <1>1 DEF IInv, Outcome
<1>13. Continuous'
  <2>1. Pending = block.from + put /\ Pending' = block.from + put'
    BY <1>1 DEF Pending
  <2>2. Pending' - Len(ring') = Pending - Len(ring)
    <3>1. put' \in Nat /\ Len(ring') = Len(ring) + (put' - put)
      BY <1>2, <1>3, <1>5
    <3>2. \A b, n, m, l \in Nat : (b + m) - (l + (m - n)) = (b + n) - l
      OBVIOUS
    <3>3. {block.from, put, put', Len(ring)} \subseteq Nat
      BY <1>2, <3>1
    <3> QED
      BY <2>1, <3>1, <3>2, <3>3
  <2> SUFFICES ASSUME faults = 0
               PROVE  /\ \A i \in 1 .. Len(ring') :
                           ring'[i].at = Pending' - Len(ring') + i - 1
                      /\ heard > 0 => last = Pending' - Len(ring') - 1
    BY <1>1 DEF Continuous
  <2>3. /\ \A i \in 1 .. Len(ring) : ring[i].at = Pending - Len(ring) + i - 1
        /\ heard > 0 => last = Pending - Len(ring) - 1
    BY DEF IInv, Continuous
  <2>4. ASSUME NEW i \in 1 .. Len(ring')
        PROVE  ring'[i].at = Pending' - Len(ring') + i - 1
    <3>1. CASE i \in 1 .. Len(ring) /\ ring'[i] = ring[i]
      BY <2>2, <2>3, <3>1
    <3>2. CASE ring'[i].at = block.from + put + (i - Len(ring)) - 1
      <4>1. i \in Nat
        BY <1>2, <1>3, <1>5
      <4> QED
        BY <1>2, <2>1, <2>2, <3>2, <4>1
    <3> QED
      BY <1>6, <3>1, <3>2
  <2> QED
    BY <2>2, <2>3, <2>4
<1> QED
  BY <1>7, <1>8, <1>9, <1>10, <1>11, <1>12, <1>13 DEF IInv

LEMMA WriteReturnsInvariant == IInv /\ WriteReturns => IInv'
<1> SUFFICES ASSUME IInv, WriteReturns PROVE IInv'
  OBVIOUS
<1>1. /\ pc = "write"
      /\ put = block.len \/ state = "XRUN"
      /\ pc' = "loop" /\ frames_done' = frames_done + put
      /\ UNCHANGED <<seg, phase, block, put, again, result, state, channels,
                      ring, last, heard, faults>>
  BY DEF WriteReturns, card
<1>2. /\ {put, block.len, frames_done, Total, heard, Len(ring)} \subseteq Nat
      /\ put <= block.len
  BY Numbers DEF IInv
<1>3. frames_done' \in 0 .. Total
  BY <1>1, <1>2 DEF IInv, Block
<1>4. TypeOK'
  BY <1>1, <1>3 DEF IInv, TypeOK
<1>5. LayoutMatches'
  BY <1>1 DEF IInv, LayoutMatches
<1>6. Stream'
  BY <1>1 DEF IInv, Stream
<1>7. Block'
  BY <1>1 DEF IInv, Block
<1>8. Accounts'
  BY <1>1, <1>2, <1>3 DEF IInv, Accounts, CountedIsPlayedOrQueued
<1>9. Outcome'
  BY <1>1 DEF IInv, Outcome
<1>10. Continuous'
  <2>1. faults = 0 => put = block.len
    BY <1>1 DEF IInv, Stream
  <2>2. faults = 0 => Pending' = Pending
    BY <1>1, <2>1 DEF IInv, Block, Pending
  <2> QED
    BY <1>1, <2>2 DEF IInv, Continuous
<1> QED
  BY <1>4, <1>5, <1>6, <1>7, <1>8, <1>9, <1>10 DEF IInv

LEMMA WriteFailsInvariant == IInv /\ WriteFails => IInv'
<1> SUFFICES ASSUME IInv, WriteFails PROVE IInv'
  OBVIOUS
<1>1. /\ pc = "write" /\ put = 0 /\ state = "XRUN"
      /\ pc' = "recover"
      /\ UNCHANGED <<seg, frames_done, phase, block, put, again, result,
                      state, channels, ring, last, heard, faults>>
  BY DEF WriteFails, card
<1>2. TypeOK'
  BY <1>1 DEF IInv, TypeOK
<1>3. LayoutMatches'
  BY <1>1 DEF IInv, LayoutMatches
<1>4. Stream'
  BY <1>1 DEF IInv, Stream
<1>5. Block'
  BY <1>1 DEF IInv, Block
<1>6. Accounts'
  BY <1>1, Numbers DEF IInv, Accounts, CountedIsPlayedOrQueued
<1>7. Outcome'
  BY <1>1 DEF IInv, Outcome
<1>8. Continuous'
  BY <1>1 DEF IInv, Continuous, Pending, Stream
<1> QED
  BY <1>2, <1>3, <1>4, <1>5, <1>6, <1>7, <1>8 DEF IInv

LEMMA RecoverInvariant == IInv /\ Recover => IInv'
<1> SUFFICES ASSUME IInv, Recover PROVE IInv'
  OBVIOUS
<1>1. /\ pc = "recover"
      /\ pc' = "loop" /\ again' = TRUE
      /\ state' = "PREPARED" /\ ring' = <<>>
      /\ UNCHANGED <<seg, frames_done, phase, block, put, result, channels,
                      last, heard, faults>>
  BY DEF Recover
<1>2. ring' \in Seq(Frame) /\ Len(ring') = 0
  BY <1>1, NoFrames
<1>3. /\ {heard, frames_done, Total, phase, faults} \subseteq Nat
      /\ heard <= Total
  BY Numbers DEF IInv
<1>4. TypeOK'
  <2>1. Len(ring') <= Buffer
    BY <1>2, SizesAssumption
  <2> QED
    BY <1>1, <1>2, <2>1 DEF IInv, TypeOK, Frame
<1>5. LayoutMatches'
  BY <1>1 DEF IInv, LayoutMatches
<1>6. Stream'
  BY <1>1 DEF IInv, Stream
<1>7. Block'
  BY <1>1 DEF IInv, Block
<1>8. Accounts'
  <2>1. ring = <<>> /\ Len(ring) = 0
    BY <1>1, NoFrames DEF IInv, Stream
  <2> QED
    BY <1>1, <1>2, <1>3, <2>1
    DEF IInv, Accounts, CountedIsPlayedOrQueued
<1>9. Outcome'
  BY <1>1 DEF IInv, Outcome
<1>10. Continuous'
  <2>1. faults # 0
    BY <1>1, <1>3 DEF IInv, Stream
  <2> QED
    BY <1>1, <2>1 DEF Continuous
<1> QED
  BY <1>4, <1>5, <1>6, <1>7, <1>8, <1>9, <1>10 DEF IInv

LEMMA DropInvariant == IInv /\ Drop => IInv'
<1> SUFFICES ASSUME IInv, Drop PROVE IInv'
  OBVIOUS
<1>1. /\ pc = "drop"
      /\ pc' = "refine" /\ state' = "SETUP" /\ ring' = <<>> /\ heard' = 0
      /\ UNCHANGED <<seg, frames_done, phase, block, put, again, result,
                      channels, last, faults>>
  BY DEF Drop
<1>2. ring' \in Seq(Frame) /\ Len(ring') = 0
  BY <1>1, NoFrames
<1>3. /\ {heard, frames_done, Total, phase, faults} \subseteq Nat
      /\ heard <= Total
  BY Numbers DEF IInv
<1>4. TypeOK'
  <2>1. Len(ring') <= Buffer /\ heard' \in 0 .. Total
    BY <1>1, <1>2, SizesAssumption
  <2> QED
    BY <1>1, <1>2, <2>1 DEF IInv, TypeOK, Frame
<1>5. LayoutMatches'
  BY <1>1 DEF IInv, LayoutMatches
<1>6. Stream'
  BY <1>1 DEF IInv, Stream, Accounts
<1>7. Block'
  BY <1>1 DEF IInv, Block
<1>8. Accounts'
  BY <1>1, <1>2, <1>3 DEF IInv, Accounts, CountedIsPlayedOrQueued
<1>9. Outcome'
  BY <1>1 DEF IInv, Outcome
<1>10. Continuous'
  BY <1>1, <1>2, <1>3 DEF IInv, Continuous, Pending
<1> QED
  BY <1>4, <1>5, <1>6, <1>7, <1>8, <1>9, <1>10 DEF IInv

LEMMA RefineInvariant == IInv /\ Refine => IInv'
<1> SUFFICES ASSUME IInv, Refine PROVE IInv'
  OBVIOUS
<1>1. /\ pc = "refine"
      /\ pc' = "prepare" /\ channels' = Schedule[seg]
      /\ UNCHANGED <<seg, frames_done, phase, block, put, again, result,
                      state, ring, last, heard, faults>>
  BY DEF Refine, IInv, Stream
<1>2. Schedule[seg] \in Nat /\ Len(ring) = 0
  <2>1. seg \in 1 .. Len(Schedule) /\ ring = <<>>
    BY <1>1 DEF IInv, TypeOK, Stream
  <2> QED
    BY <2>1, ScheduleType, NoFrames
<1>3. TypeOK'
  BY <1>1, <1>2 DEF IInv, TypeOK
<1>4. LayoutMatches'
  BY <1>1, <1>2 DEF IInv, LayoutMatches
<1>5. Stream'
  BY <1>1 DEF IInv, Stream
<1>6. Block'
  BY <1>1 DEF IInv, Block
<1>7. Accounts'
  BY <1>1 DEF IInv, Accounts, CountedIsPlayedOrQueued
<1>8. Outcome'
  BY <1>1 DEF IInv, Outcome
<1>9. Continuous'
  BY <1>1 DEF IInv, Continuous, Pending
<1> QED
  BY <1>3, <1>4, <1>5, <1>6, <1>7, <1>8, <1>9 DEF IInv

LEMMA DrainInvariant == IInv /\ Drain => IInv'
<1> SUFFICES ASSUME IInv, Drain PROVE IInv'
  OBVIOUS
<1>1. /\ pc = "drain"
      /\ \/ /\ ring # <<>> /\ state' = "DRAINING"
            /\ UNCHANGED <<pc, result>>
         \/ /\ ring = <<>> /\ pc' = "close" /\ result' = "success"
            /\ state' = "SETUP"
      /\ UNCHANGED <<seg, frames_done, phase, block, put, again, channels,
                      ring, last, heard, faults>>
  BY DEF Drain
<1>2. TypeOK'
  BY <1>1 DEF IInv, TypeOK
<1>3. LayoutMatches'
  BY <1>1 DEF IInv, LayoutMatches
<1>4. Stream'
  BY <1>1 DEF IInv, Stream
<1>5. Block'
  BY <1>1 DEF IInv, Block
<1>6. Accounts'
  BY <1>1 DEF IInv, Accounts, CountedIsPlayedOrQueued
<1>7. Outcome'
  <2>1. ring = <<>> => heard = Total
    <3>1. heard + Len(ring) = Total /\ heard \in Nat
      BY <1>1, Numbers DEF IInv, Accounts, CountedIsPlayedOrQueued
    <3> QED
      BY <3>1, NoFrames
  <2> QED
    BY <1>1, <2>1 DEF IInv, Outcome
<1>8. Continuous'
  BY <1>1 DEF IInv, Continuous, Pending
<1> QED
  BY <1>2, <1>3, <1>4, <1>5, <1>6, <1>7, <1>8 DEF IInv

LEMMA CloseInvariant == IInv /\ Close => IInv'
<1> SUFFICES ASSUME IInv, Close PROVE IInv'
  OBVIOUS
<1>1. /\ pc = "close"
      /\ pc' = "gone" /\ state' = "CLOSED" /\ ring' = <<>>
      /\ UNCHANGED <<seg, frames_done, phase, block, put, again, result,
                      channels, last, heard, faults>>
  BY DEF Close
<1>2. ring' \in Seq(Frame) /\ Len(ring') = 0
  BY <1>1, NoFrames
<1>3. /\ {heard, frames_done, Total, phase, faults} \subseteq Nat
      /\ heard <= Total
  BY Numbers DEF IInv
<1>4. TypeOK'
  <2>1. Len(ring') <= Buffer
    BY <1>2, SizesAssumption
  <2> QED
    BY <1>1, <1>2, <2>1 DEF IInv, TypeOK, Frame
<1>5. LayoutMatches'
  BY <1>1 DEF IInv, LayoutMatches
<1>6. Stream'
  BY <1>1 DEF IInv, Stream
<1>7. Block'
  BY <1>1 DEF IInv, Block
<1>8. Accounts'
  BY <1>1, <1>2, <1>3 DEF IInv, Accounts, CountedIsPlayedOrQueued
<1>9. Outcome'
  BY <1>1 DEF IInv, Outcome
<1>10. Continuous'
  <2>1. faults = 0 => ring = <<>>
    <3>1. result \in {"none", "success", "failure"}
      BY DEF IInv, TypeOK
    <3> QED
      BY <1>1, <1>3, <3>1 DEF IInv, Outcome
  <2> QED
    BY <1>1, <2>1 DEF IInv, Continuous, Pending
<1> QED
  BY <1>4, <1>5, <1>6, <1>7, <1>8, <1>9, <1>10 DEF IInv

LEMMA CallFailsInvariant == IInv /\ CallFails => IInv'
<1> SUFFICES ASSUME IInv, CallFails PROVE IInv'
  OBVIOUS
<1>1. /\ pc \in {"open", "params", "prepare", "recover", "drop", "refine",
                  "loop"}
      /\ faults < MaxFaults /\ faults' = faults + 1
      /\ pc' \in {"gone", "close"} /\ result' = "failure"
      /\ UNCHANGED <<seg, frames_done, phase, block, put, again, state,
                      channels, ring, last, heard>>
  BY DEF CallFails, Fault
<1>2. faults' \in 0 .. MaxFaults /\ faults' > 0
  <2>1. faults \in Nat
    BY Numbers DEF IInv
  <2> QED
    BY <1>1, <2>1, MaxFaultsAssumption
<1>3. TypeOK'
  BY <1>1, <1>2 DEF IInv, TypeOK
<1>4. LayoutMatches'
  BY <1>1 DEF IInv, LayoutMatches
<1>5. Stream'
  BY <1>1, <1>2 DEF IInv, Stream
<1>6. Block'
  BY <1>1 DEF IInv, Block
<1>7. Accounts'
  BY <1>1 DEF IInv, Accounts, CountedIsPlayedOrQueued
<1>8. Outcome'
  BY <1>1, <1>2 DEF IInv, Outcome
<1>9. Continuous'
  BY <1>1, <1>2 DEF IInv, Continuous, Pending
<1> QED
  BY <1>3, <1>4, <1>5, <1>6, <1>7, <1>8, <1>9 DEF IInv

LEMMA PlayInvariant == IInv /\ Play => IInv'
<1> SUFFICES ASSUME IInv, Play PROVE IInv'
  OBVIOUS
<1>1. /\ state \in {"RUNNING", "DRAINING"} /\ ring # <<>>
      /\ ring' = Tail(ring) /\ last' = Head(ring).at /\ heard' = heard + 1
      /\ UNCHANGED <<pc, seg, frames_done, phase, block, put, again, result,
                      state, channels, faults>>
  BY DEF Play, prog
<1>2. /\ {Len(ring), heard, Total, Buffer, frames_done, put, phase, block.from,
          faults} \subseteq Nat
      /\ ring \in Seq(Frame) /\ last \in Int /\ Len(ring) <= Buffer
  BY Numbers DEF IInv
<1>3. /\ Head(ring) \in Frame /\ Head(ring) = ring[1]
      /\ ring' \in Seq(Frame) /\ Len(ring) > 0
      /\ Len(ring') = Len(ring) - 1
      /\ \A i \in 1 .. Len(ring') : ring'[i] = ring[i + 1]
  <2>1. /\ Head(ring) \in Frame /\ ring' \in Seq(Frame)
        /\ Len(ring') = Len(ring) - 1
        /\ \A i \in 1 .. Len(ring') : ring'[i] = ring[i + 1]
    BY <1>1, <1>2, HeadTailProperties
  <2>2. Head(ring) = ring[1] /\ Len(ring) > 0
    BY <1>1, <1>2
  <2> QED
    BY <2>1, <2>2
<1>4. heard' + Len(ring') = heard + Len(ring) /\ heard' <= Total
  <2>1. heard + Len(ring) <= Total
    BY DEF IInv, Accounts
  <2> QED
    BY <1>1, <1>2, <1>3, <2>1
<1>5. TypeOK'
  <2>1. /\ Len(ring') <= Buffer /\ heard' \in 0 .. Total
        /\ last' \in Nat \union {-1}
    BY <1>1, <1>2, <1>3, <1>4 DEF Frame
  <2> QED
    BY <1>1, <1>3, <2>1 DEF IInv, TypeOK, Frame
<1>6. LayoutMatches'
  <2>1. \A i \in 1 .. Len(ring') : i + 1 \in 1 .. Len(ring)
    BY <1>2, <1>3
  <2> QED
    BY <1>1, <1>3, <2>1 DEF IInv, LayoutMatches
<1>7. Stream'
  BY <1>1 DEF IInv, Stream
<1>8. Block'
  BY <1>1 DEF IInv, Block
<1>9. Accounts'
  BY <1>1, <1>4 DEF IInv, Accounts, CountedIsPlayedOrQueued
<1>10. Outcome'
  BY <1>1 DEF IInv, Outcome
<1>11. Continuous'
  <2> SUFFICES ASSUME faults = 0
               PROVE  /\ \A i \in 1 .. Len(ring') :
                           ring'[i].at = Pending - Len(ring') + i - 1
                      /\ last' = Pending - Len(ring') - 1
    BY <1>1 DEF Continuous, Pending
  <2>1. Pending \in Nat
    BY <1>2 DEF Pending
  <2>2. \A i \in 1 .. Len(ring) : ring[i].at = Pending - Len(ring) + i - 1
    BY DEF IInv, Continuous
  <2>3. last' = Pending - Len(ring') - 1
    <3>1. 1 \in 1 .. Len(ring)
      BY <1>2, <1>3
    <3>2. ring[1].at = Pending - Len(ring) + 1 - 1
      BY <2>2, <3>1
    <3> QED
      BY <1>1, <1>2, <1>3, <2>1, <3>2
  <2>4. ASSUME NEW i \in 1 .. Len(ring')
        PROVE  ring'[i].at = Pending - Len(ring') + i - 1
    <3>1. i + 1 \in 1 .. Len(ring) /\ i \in Nat
      BY <1>2, <1>3
    <3>2. ring'[i].at = Pending - Len(ring) + (i + 1) - 1
      BY <1>3, <2>2, <3>1
    <3> QED
      BY <1>2, <1>3, <2>1, <3>1, <3>2
  <2> QED
    BY <2>3, <2>4
<1> QED
  BY <1>5, <1>6, <1>7, <1>8, <1>9, <1>10, <1>11 DEF IInv

LEMMA XrunInvariant == IInv /\ Xrun => IInv'
<1> SUFFICES ASSUME IInv, Xrun PROVE IInv'
  OBVIOUS
<1>1. /\ state = "RUNNING" /\ ring = <<>>
      /\ faults < MaxFaults /\ faults' = faults + 1 /\ state' = "XRUN"
      /\ UNCHANGED <<pc, seg, frames_done, phase, block, put, again, result,
                      channels, ring, last, heard>>
  BY DEF Xrun, prog, Fault
<1>2. faults' \in 0 .. MaxFaults /\ faults' > 0
  <2>1. faults \in Nat
    BY Numbers DEF IInv
  <2> QED
    BY <1>1, <2>1, MaxFaultsAssumption
<1>3. TypeOK'
  BY <1>1, <1>2 DEF IInv, TypeOK
<1>4. LayoutMatches'
  BY <1>1 DEF IInv, LayoutMatches
<1>5. Stream'
  BY <1>1, <1>2 DEF IInv, Stream
<1>6. Block'
  BY <1>1 DEF IInv, Block
<1>7. Accounts'
  BY <1>1 DEF IInv, Accounts, CountedIsPlayedOrQueued
<1>8. Outcome'
  BY <1>1, <1>2 DEF IInv, Outcome
<1>9. Continuous'
  BY <1>1, <1>2 DEF IInv, Continuous, Pending
<1> QED
  BY <1>3, <1>4, <1>5, <1>6, <1>7, <1>8, <1>9 DEF IInv

-----------------------------------------------------------------------------
LEMMA NextInvariant == IInv /\ [Next]_vars => IInv'
<1> SUFFICES ASSUME IInv, [Next]_vars PROVE IInv'
  OBVIOUS
<1>1. CASE UNCHANGED vars
  <2> USE <1>1 DEF vars, IInv
  <2>1. TypeOK'
    BY DEF TypeOK
  <2>2. LayoutMatches' /\ Stream' /\ Block' /\ Outcome'
    BY DEF LayoutMatches, Stream, Block, Outcome
  <2>3. Accounts' /\ Continuous'
    BY DEF Accounts, CountedIsPlayedOrQueued, Continuous, Pending
  <2> QED
    BY <2>1, <2>2, <2>3
<1> QED
  BY <1>1, OpenInvariant, InitialHwParamsInvariant, PrepareInvariant,
    FillPeriodInvariant, SegmentOverInvariant, WriteSomeInvariant,
    WriteReturnsInvariant, WriteFailsInvariant, RecoverInvariant,
    DropInvariant, RefineInvariant, DrainInvariant, CloseInvariant,
    CallFailsInvariant, PlayInvariant, XrunInvariant
  DEF Next, ProgStep

\* Where every frame is, at every call of the program, and which frames they
\* are, for every schedule of channel counts and any number of faults.
THEOREM Inductive == Spec => []IInv
<1> QED
  BY InitInvariant, NextInvariant, PTL DEF Spec

\* Every variable keeps its type: among others, no more frames of a segment
\* are counted or heard than it has, and the ring does not overflow.
THEOREM TypeCorrect == Spec => []TypeOK
<1>1. IInv => TypeOK
  BY DEF IInv
<1> QED
  BY <1>1, Inductive, PTL

\* The card never plays a frame with another channel count than the one it
\* was rendered for: switch_channels drops, refines and prepares first.
THEOREM LayoutMatchesHolds == Spec => []LayoutMatches
<1>1. IInv => LayoutMatches
  BY DEF IInv
<1> QED
  BY <1>1, Inductive, PTL

\* The count of play_segment is the truth, whatever the card does.
THEOREM CountedIsPlayedOrQueuedHolds == Spec => []CountedIsPlayedOrQueued
<1>1. IInv => CountedIsPlayedOrQueued
  BY DEF IInv, Accounts
<1> QED
  BY <1>1, Inductive, PTL

\* An exit with success means the last segment was heard to its end.
THEOREM LastSegmentHeardHolds == Spec => []LastSegmentHeard
<1>1. IInv => LastSegmentHeard
  BY DEF IInv, Outcome, LastSegmentHeard
<1> QED
  BY <1>1, Inductive, PTL

\* As long as nothing fails the program succeeds.
THEOREM NominalSuccessHolds == Spec => []NominalSuccess
<1>1. IInv => NominalSuccess
  BY DEF IInv, Outcome, TypeOK, NominalSuccess
<1> QED
  BY <1>1, Inductive, PTL

\* Without faults the card plays one continuous sine within a segment.
THEOREM SegmentContinuousHolds == Spec => SegmentContinuous
<1>1. ASSUME IInv, [Next]_vars,
             last' # last, faults = 0, heard > 0
      PROVE  last' = last + 1
  <2>1. Play
    BY <1>1 DEF Next, ProgStep, vars, card, prog, Open, InitialHwParams,
      Prepare, FillPeriod, SegmentOver, WriteSome, WriteReturns, WriteFails,
      Recover, Drop, Refine, Drain, Close, CallFails, Xrun
  <2>2. /\ Len(ring) \in Nat /\ ring \in Seq(Frame) /\ ring # <<>>
        /\ last' = Head(ring).at
    BY <1>1, <2>1, Numbers DEF IInv, Play
  <2>3. Head(ring) = ring[1] /\ 1 \in 1 .. Len(ring)
    BY <2>2
  <2>4. ring[1].at = Pending - Len(ring) + 1 - 1
    BY <1>1, <2>3 DEF IInv, Continuous
  <2>5. last = Pending - Len(ring) - 1
    BY <1>1 DEF IInv, Continuous
  <2>6. Pending \in Nat
    <3>1. {phase, put, block.from} \subseteq Nat
      BY <1>1, Numbers DEF IInv
    <3> QED
      BY <3>1 DEF Pending
  <2> QED
    BY <2>2, <2>3, <2>4, <2>5, <2>6
<1>2. IInv /\ [Next]_vars =>
        [last' # last /\ faults = 0 /\ heard > 0 => last' = last + 1]_vars
  BY <1>1
<1> QED
  BY <1>2, Inductive, PTL DEF Spec, SegmentContinuous
=============================================================================
