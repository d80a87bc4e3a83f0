-------------------------- MODULE SineSwitchProofs --------------------------
(***************************************************************************)
(* Proofs for SineSwitch: no tone is cut, and every tone that nothing      *)
(* happened to is heard to its last frame, for any number of tones, any    *)
(* length and any ring.                                                    *)
(***************************************************************************)
EXTENDS SineSwitch, TLAPS

\* The numbers of the state, apart from the rest of its type.
LEMMA Numbers ==
  ASSUME TypeOK
  PROVE  /\ {Tones, Frames, Ring, MaxFaults, tone, todo, ring, faults}
              \subseteq Nat
         /\ tone >= 1 /\ tone <= Tones /\ tone \in Tone
         /\ todo <= Frames /\ ring <= Ring /\ faults <= MaxFaults
         /\ \A t \in Tone : heard[t] \in Nat /\ heard[t] <= Frames
         /\ heard \in [Tone -> 0 .. Frames] /\ Frames > 0 /\ Ring > 0
<1>1. /\ tone \in Tone /\ todo \in 0 .. Frames /\ ring \in 0 .. Ring
      /\ faults \in 0 .. MaxFaults /\ heard \in [Tone -> 0 .. Frames]
  BY DEF TypeOK
<1>2. /\ {Tones, Frames, Ring, MaxFaults} \subseteq Nat
      /\ Frames > 0 /\ Ring > 0
  BY SizesAssumption
<1>3. \A t \in Tone : heard[t] \in 0 .. Frames
  BY <1>1
<1> QED
  BY <1>1, <1>2, <1>3 DEF Tone

LEMMA InitInvariant == Init => IInv
<1> SUFFICES ASSUME Init PROVE IInv
  OBVIOUS
<1>1. /\ 1 \in Tone /\ 0 \in 0 .. Frames /\ 0 \in 0 .. Ring
      /\ 0 \in 0 .. MaxFaults
  BY SizesAssumption DEF Tone
<1>2. TypeOK
  BY <1>1 DEF Init, TypeOK
<1>3. Handle /\ NothingCut /\ UnderrunSurvived
  BY DEF Init, Handle, NothingCut, UnderrunSurvived
<1>4. Accounts
  BY <1>1 DEF Init, Accounts
<1>5. HeardInFull
  BY SizesAssumption DEF Init, HeardInFull, Past, Tone
<1> QED
  BY <1>2, <1>3, <1>4, <1>5 DEF IInv

\* The program ends with an error: something has failed before.
LEMMA DieInvariant ==
  ASSUME IInv, NEW c \in {"err", "crash"}, Die(c), pc # "exit",
         faults' \in 0 .. MaxFaults, faults' > 0,
         hurt' \in {hurt, hurt \union {tone}}
  PROVE  IInv'
<1>1. /\ pc' = "exit" /\ code' = c /\ pcm' = "closed" /\ ring' = 0
      /\ UNCHANGED <<tone, todo, heard>>
  BY DEF Die
<1>2. 0 \in 0 .. Ring /\ tone \in Tone
  BY Numbers DEF IInv
<1>3. TypeOK'
  BY <1>1, <1>2 DEF IInv, TypeOK
<1>4. Handle' /\ NothingCut' /\ UnderrunSurvived'
  BY <1>1 DEF Handle, NothingCut, UnderrunSurvived
<1>5. Accounts'
  BY <1>1 DEF IInv, Accounts
<1>6. HeardInFull'
  BY <1>1 DEF IInv, HeardInFull, Past
<1> QED
  BY <1>3, <1>4, <1>5, <1>6 DEF IInv

\* A fault is counted.
LEMMA FaultCounts ==
  ASSUME IInv, Fault
  PROVE  /\ faults' \in 0 .. MaxFaults /\ faults' > 0
         /\ hurt' = hurt \union {tone} /\ tone \in Tone
<1>1. faults \in Nat /\ MaxFaults \in Nat /\ tone \in Tone
  BY Numbers DEF IInv
<1> QED
  BY <1>1 DEF Fault

LEMMA OpenInvariant == IInv /\ Open => IInv'
<1> SUFFICES ASSUME IInv, Open PROVE IInv'
  OBVIOUS
<1>1. CASE Fault /\ Die("err")
  <2>1. pc # "exit"
    BY DEF Open
  <2> QED
    BY <1>1, <2>1, FaultCounts, DieInvariant
<1>2. CASE /\ pc' = "params" /\ pcm' = "open"
           /\ UNCHANGED <<tone, todo, code, ring, heard, faults, hurt>>
  <2>1. pc = "open"
    BY DEF Open
  <2>2. TypeOK'
    BY <1>2 DEF IInv, TypeOK
  <2>3. Handle' /\ NothingCut' /\ UnderrunSurvived'
    BY <1>2, <2>1 DEF IInv, Handle, NothingCut, UnderrunSurvived
  <2>4. Accounts' /\ HeardInFull'
    BY <1>2, <2>1 DEF IInv, Accounts, HeardInFull, Past
  <2> QED
    BY <2>2, <2>3, <2>4 DEF IInv
<1> QED
  BY <1>1, <1>2 DEF Open

LEMMA SetParamsInvariant == IInv /\ SetParams => IInv'
<1> SUFFICES ASSUME IInv, SetParams PROVE IInv'
  OBVIOUS
<1>1. /\ pc = "params" /\ pc' = "write" /\ todo' = Frames
      /\ pcm' = "prepared" /\ ring' = 0
      /\ UNCHANGED <<tone, code, heard, faults, hurt>>
  BY DEF SetParams
<1>2. /\ {Tones, Frames, Ring, tone, todo, ring, faults} \subseteq Nat
      /\ tone \in Tone /\ todo <= Frames /\ ring <= Ring
      /\ heard[tone] \in Nat /\ heard[tone] <= Frames /\ Frames > 0
  BY Numbers DEF IInv
<1>3. 0 \in 0 .. Ring /\ Frames \in 0 .. Frames
  BY <1>2
<1>4. TypeOK'
  BY <1>1, <1>3 DEF IInv, TypeOK
<1>5. Handle'
  BY <1>1 DEF IInv, Handle
<1>6. Accounts'
  BY <1>1, <1>2 DEF IInv, Accounts
<1>7. HeardInFull'
  BY <1>1 DEF IInv, HeardInFull, Past
<1>8. NothingCut'
  BY <1>1 DEF IInv, NothingCut
<1>9. UnderrunSurvived'
  BY <1>1 DEF IInv, UnderrunSurvived
<1> QED
  BY <1>4, <1>5, <1>6, <1>7, <1>8, <1>9 DEF IInv

LEMMA SetParamsFailsInvariant == IInv /\ SetParamsFails => IInv'
<1> SUFFICES ASSUME IInv, SetParamsFails PROVE IInv'
  OBVIOUS
<1>1. pc = "params" /\ Die("err")
  BY DEF SetParamsFails
<1>2. CASE Fault
  BY <1>1, <1>2, FaultCounts, DieInvariant
<1>3. CASE /\ pcm \notin {"open", "setup", "prepared"}
           /\ UNCHANGED <<faults, hurt>>
  <2>1. faults > 0
    BY <1>1, <1>3 DEF IInv, Handle
  <2>2. faults \in 0 .. MaxFaults
    BY DEF IInv, TypeOK
  <2> QED
    BY <1>1, <1>3, <2>1, <2>2, DieInvariant
<1> QED
  BY <1>2, <1>3 DEF SetParamsFails

LEMMA NoMemoryInvariant == IInv /\ NoMemory => IInv'
<1> SUFFICES ASSUME IInv, NoMemory PROVE IInv'
  OBVIOUS
<1>1. pc # "exit" /\ Fault /\ Die("crash")
  BY DEF NoMemory
<1> QED
  BY <1>1, FaultCounts, DieInvariant

LEMMA WriteSomeInvariant == IInv /\ WriteSome => IInv'
<1> SUFFICES ASSUME IInv, WriteSome PROVE IInv'
  OBVIOUS
<1>1. /\ pc = "write" /\ pcm \in {"prepared", "running"}
      /\ todo > 0 /\ ring < Ring
      /\ todo' = todo - 1 /\ ring' = ring + 1
      /\ pcm' \in {"prepared", "running"}
      /\ UNCHANGED <<pc, tone, code, heard, faults, hurt>>
  BY DEF WriteSome
<1>2. /\ {Tones, Frames, Ring, tone, todo, ring, faults} \subseteq Nat
      /\ tone \in Tone /\ todo <= Frames /\ ring <= Ring
      /\ heard[tone] \in Nat /\ heard[tone] <= Frames /\ Frames > 0
  BY Numbers DEF IInv
<1>3. /\ todo' \in 0 .. Frames /\ ring' \in 0 .. Ring
      /\ heard[tone] + ring' + todo' = heard[tone] + ring + todo
  BY <1>1, <1>2
<1>4. TypeOK'
  BY <1>1, <1>3 DEF IInv, TypeOK
<1>5. Handle'
  BY <1>1 DEF IInv, Handle
<1>6. Accounts'
  BY <1>1, <1>3 DEF IInv, Accounts
<1>7. HeardInFull'
  BY <1>1 DEF IInv, HeardInFull, Past
<1>8. NothingCut'
  BY <1>1 DEF IInv, NothingCut
<1>9. UnderrunSurvived'
  BY <1>1 DEF IInv, UnderrunSurvived
<1> QED
  BY <1>4, <1>5, <1>6, <1>7, <1>8, <1>9 DEF IInv

LEMMA WriteReturnsInvariant == IInv /\ WriteReturns => IInv'
<1> SUFFICES ASSUME IInv, WriteReturns PROVE IInv'
  OBVIOUS
<1>1. /\ pc = "write" /\ todo = 0 /\ pc' = "drain"
      /\ UNCHANGED <<tone, todo, code, pcm, ring, heard, faults, hurt>>
  BY DEF WriteReturns
<1>2. TypeOK'
  BY <1>1 DEF IInv, TypeOK
<1>3. Handle'
  BY <1>1 DEF IInv, Handle
<1>4. Accounts'
  BY <1>1 DEF IInv, Accounts
<1>5. HeardInFull'
  BY <1>1 DEF IInv, HeardInFull, Past
<1>6. NothingCut'
  BY <1>1 DEF IInv, NothingCut
<1>7. UnderrunSurvived'
  BY <1>1 DEF IInv, UnderrunSurvived
<1> QED
  BY <1>2, <1>3, <1>4, <1>5, <1>6, <1>7 DEF IInv

LEMMA WriteStopsInvariant == IInv /\ WriteStops => IInv'
<1> SUFFICES ASSUME IInv, WriteStops PROVE IInv'
  OBVIOUS
<1>1. /\ pc = "write" /\ pcm \in {"xrun", "suspended"}
      /\ pc' = "drain"
      /\ UNCHANGED <<tone, todo, code, pcm, ring, heard, faults, hurt>>
  BY DEF WriteStops
<1>2. TypeOK'
  BY <1>1 DEF IInv, TypeOK
<1>3. Handle'
  BY <1>1 DEF IInv, Handle
<1>4. Accounts'
  BY <1>1 DEF IInv, Accounts
<1>5. HeardInFull'
  BY <1>1 DEF IInv, HeardInFull, Past
<1>6. NothingCut'
  BY <1>1 DEF IInv, NothingCut
<1>7. UnderrunSurvived'
  BY <1>1 DEF IInv, UnderrunSurvived
<1> QED
  BY <1>2, <1>3, <1>4, <1>5, <1>6, <1>7 DEF IInv

LEMMA WriteFailsInvariant == IInv /\ WriteFails => IInv'
<1> SUFFICES ASSUME IInv, WriteFails PROVE IInv'
  OBVIOUS
<1>1. pc = "write" /\ Fault
  BY DEF WriteFails
<1>2. /\ faults' \in 0 .. MaxFaults /\ faults' > 0
      /\ hurt' = hurt \union {tone} /\ tone \in Tone
  BY <1>1, FaultCounts
<1>3. CASE todo = Frames
  <2>1. Die("err")
    BY <1>3 DEF WriteFails
  <2> QED
    BY <1>1, <1>2, <2>1, DieInvariant
<1>4. CASE todo # Frames
  <2>1. pc' = "drain" /\ UNCHANGED <<tone, todo, code, pcm, ring, heard>>
    BY <1>4 DEF WriteFails
  <2>2. TypeOK'
    BY <1>2, <2>1 DEF IInv, TypeOK
  <2>3. Handle' /\ NothingCut' /\ UnderrunSurvived'
    BY <1>1, <1>2, <2>1 DEF IInv, Handle, NothingCut, UnderrunSurvived
  <2>4. Accounts'
    BY <1>1, <1>2, <2>1 DEF IInv, Accounts
  <2>5. HeardInFull'
    BY <1>2, <2>1 DEF IInv, HeardInFull, Past
  <2> QED
    BY <2>2, <2>3, <2>4, <2>5 DEF IInv
<1> QED
  BY <1>3, <1>4

LEMMA StartDrainInvariant == IInv /\ StartDrain => IInv'
<1> SUFFICES ASSUME IInv, StartDrain PROVE IInv'
  OBVIOUS
<1>1. /\ pc = "drain" /\ pcm' = "draining"
      /\ pcm = "running" \/ pcm = "prepared"
      /\ UNCHANGED <<pc, tone, todo, code, ring, heard, faults, hurt>>
  BY DEF StartDrain
<1>2. TypeOK'
  BY <1>1 DEF IInv, TypeOK
<1>3. Handle'
  BY <1>1 DEF IInv, Handle
<1>4. Accounts'
  BY <1>1 DEF IInv, Accounts
<1>5. HeardInFull'
  BY <1>1 DEF IInv, HeardInFull, Past
<1>6. NothingCut'
  BY <1>1 DEF IInv, NothingCut
<1>7. UnderrunSurvived'
  BY <1>1 DEF IInv, UnderrunSurvived
<1> QED
  BY <1>2, <1>3, <1>4, <1>5, <1>6, <1>7 DEF IInv

LEMMA DrainInvariant == IInv /\ Drain => IInv'
<1> SUFFICES ASSUME IInv, Drain PROVE IInv'
  OBVIOUS
<1>1. /\ pc = "drain"
      /\ \/ pcm \in {"prepared", "draining"} /\ ring = 0 /\ pcm' = "setup"
         \/ pcm = "xrun" /\ pcm' = "setup"
         \/ pcm = "suspended" /\ pcm' = "suspended"
      /\ \/ tone < Tones /\ pc' = "params" /\ tone' = tone + 1
         \/ ~ tone < Tones /\ pc' = "close" /\ tone' = tone
      /\ UNCHANGED <<todo, code, ring, heard, faults, hurt>>
  BY DEF Drain
<1>2. /\ {Tones, Frames, Ring, tone, todo, ring, faults} \subseteq Nat
      /\ tone \in Tone /\ todo <= Frames /\ ring <= Ring
      /\ heard[tone] \in Nat /\ heard[tone] <= Frames /\ Frames > 0
  BY Numbers DEF IInv
<1>3. tone' \in Tone /\ (pc' = "close" => tone = Tones)
  <2>1. tone <= Tones /\ tone >= 1
    BY Numbers DEF IInv
  <2> QED
    BY <1>1, <1>2, <2>1 DEF Tone
<1>4. tone \notin hurt => heard[tone] = Frames
  <2>1. SUFFICES ASSUME tone \notin hurt PROVE heard[tone] = Frames
    OBVIOUS
  <2>2. /\ heard[tone] + ring + todo = Frames /\ pcm # "suspended"
        /\ todo = 0
    BY <1>1, <2>1 DEF IInv, Accounts
  <2>3. ring = 0
    BY <1>1, <2>2 DEF IInv, Handle
  <2> QED
    BY <1>2, <2>2, <2>3
<1>5. \A t \in Tone : t > tone' => t > tone
  BY <1>1, <1>2 DEF Tone
<1>6. TypeOK'
  BY <1>1, <1>3 DEF IInv, TypeOK
<1>7. Handle'
  BY <1>1 DEF IInv, Handle
<1>8. Accounts'
  <2>1. code = "none" /\ pc' # "exit" /\ code' = "none"
    BY <1>1 DEF IInv, Accounts, TypeOK
  <2>2. pc' = "params" => tone' > tone
    BY <1>1, <1>2
  <2> QED
    BY <1>1, <1>3, <1>4, <1>5, <2>1, <2>2 DEF IInv, Accounts
<1>9. HeardInFull'
  <2>1. code = "none" /\ code' = "none"
    BY <1>1 DEF IInv, Accounts, TypeOK
  <2>2. ASSUME NEW t \in Tone, t < tone', t # tone
        PROVE  t < tone
    BY <1>1, <1>2, <2>2 DEF Tone
  <2> QED
    BY <1>1, <1>4, <2>1, <2>2 DEF IInv, HeardInFull, Past
<1>10. NothingCut'
  BY <1>1 DEF IInv, NothingCut, Handle
<1>11. UnderrunSurvived'
  BY <1>1 DEF IInv, UnderrunSurvived
<1> QED
  BY <1>6, <1>7, <1>8, <1>9, <1>10, <1>11 DEF IInv

LEMMA CloseInvariant == IInv /\ Close => IInv'
<1> SUFFICES ASSUME IInv, Close PROVE IInv'
  OBVIOUS
<1>1. /\ pc = "close" /\ pc' = "exit" /\ code' = "ok"
      /\ pcm' = "closed" /\ ring' = 0
      /\ UNCHANGED <<tone, todo, heard, faults, hurt>>
  BY DEF Close, Die
<1>2. /\ {Tones, Frames, Ring, tone, todo, ring, faults} \subseteq Nat
      /\ tone \in Tone /\ todo <= Frames /\ ring <= Ring
      /\ heard[tone] \in Nat /\ heard[tone] <= Frames /\ Frames > 0
  BY Numbers DEF IInv
<1>3. 0 \in 0 .. Ring
  BY <1>2
<1>4. TypeOK'
  BY <1>1, <1>3 DEF IInv, TypeOK
<1>5. Handle'
  BY <1>1 DEF IInv, Handle
<1>6. Accounts'
  BY <1>1 DEF IInv, Accounts
<1>7. HeardInFull'
  <2>1. tone = Tones /\ (tone \notin hurt => heard[tone] = Frames)
    BY <1>1 DEF IInv, Accounts
  <2>2. \A t \in Tone : t < tone \/ t = tone
    BY <1>2, <2>1 DEF Tone
  <2> QED
    BY <1>1, <2>1, <2>2 DEF IInv, HeardInFull, Past
<1>8. NothingCut'
  BY <1>1 DEF IInv, NothingCut
<1>9. UnderrunSurvived'
  BY <1>1 DEF IInv, UnderrunSurvived
<1> QED
  BY <1>4, <1>5, <1>6, <1>7, <1>8, <1>9 DEF IInv

LEMMA PlayInvariant == IInv /\ Play => IInv'
<1> SUFFICES ASSUME IInv, Play PROVE IInv'
  OBVIOUS
<1>1. /\ pcm \in {"running", "draining"} /\ ring > 0
      /\ ring' = ring - 1
      /\ heard' = [heard EXCEPT ![tone] = @ + 1]
      /\ UNCHANGED <<pc, tone, todo, code, pcm, faults, hurt>>
  BY DEF Play
<1>2. /\ {Tones, Frames, Ring, tone, todo, ring, faults} \subseteq Nat
      /\ tone \in Tone /\ todo <= Frames /\ ring <= Ring
      /\ heard[tone] \in Nat /\ heard[tone] <= Frames /\ Frames > 0
  BY Numbers DEF IInv
<1>3. pc \in {"write", "drain"}
  BY <1>1 DEF IInv, Handle, TypeOK
<1>4. /\ heard'[tone] = heard[tone] + 1
      /\ \A t \in Tone : t # tone => heard'[t] = heard[t]
  BY <1>1, <1>2 DEF IInv, TypeOK
<1>5. /\ heard'[tone] + ring' + todo = heard[tone] + ring + todo
      /\ heard'[tone] \in 0 .. Frames /\ ring' \in 0 .. Ring
  <2>1. heard[tone] + ring + todo <= Frames
    BY <1>3 DEF IInv, Accounts
  <2> QED
    BY <1>1, <1>2, <1>4, <2>1
<1>6. TypeOK'
  <2>1. heard' \in [Tone -> 0 .. Frames]
    <3>1. heard \in [Tone -> 0 .. Frames]
      BY DEF IInv, TypeOK
    <3> QED
      BY <1>1, <1>4, <1>5, <3>1
  <2> QED
    BY <1>1, <1>5, <2>1 DEF IInv, TypeOK
<1>7. Handle'
  BY <1>1 DEF IInv, Handle
<1>8. Accounts'
  <2>1. \A t \in Tone : t > tone => t # tone
    BY <1>2 DEF Tone
  <2>2. code = "none"
    BY <1>3 DEF IInv, Accounts, TypeOK
  <2> QED
    BY <1>1, <1>3, <1>4, <1>5, <2>1, <2>2 DEF IInv, Accounts
<1>9. HeardInFull'
  <2>1. \A t \in Tone : t < tone => t # tone
    BY <1>2 DEF Tone
  <2>2. code = "none"
    BY <1>3 DEF IInv, Accounts, TypeOK
  <2> QED
    BY <1>1, <1>4, <2>1, <2>2 DEF IInv, HeardInFull, Past
<1>10. NothingCut'
  BY <1>1, <1>3 DEF IInv, NothingCut
<1>11. UnderrunSurvived'
  BY <1>1 DEF IInv, UnderrunSurvived
<1> QED
  BY <1>6, <1>7, <1>8, <1>9, <1>10, <1>11 DEF IInv

LEMMA XrunInvariant == IInv /\ Xrun => IInv'
<1> SUFFICES ASSUME IInv, Xrun PROVE IInv'
  OBVIOUS
<1>1. /\ pcm = "running" /\ ring = 0 /\ pcm' = "xrun"
      /\ hurt' = IF todo > 0 THEN hurt \union {tone} ELSE hurt
      /\ UNCHANGED <<pc, tone, todo, code, ring, heard, faults>>
  BY DEF Xrun
<1>2. /\ {Tones, Frames, Ring, tone, todo, ring, faults} \subseteq Nat
      /\ tone \in Tone /\ todo <= Frames /\ ring <= Ring
      /\ heard[tone] \in Nat /\ heard[tone] <= Frames /\ Frames > 0
  BY Numbers DEF IInv
<1>3. pc \in {"write", "drain"}
  BY <1>1 DEF IInv, Handle, TypeOK
<1>4. hurt \subseteq hurt' /\ hurt' \subseteq Tone
  BY <1>1, <1>2 DEF IInv, TypeOK
<1>5. tone \notin hurt' => tone \notin hurt /\ todo = 0
  BY <1>1, <1>2
<1>6. TypeOK'
  BY <1>1, <1>4 DEF IInv, TypeOK
<1>7. Handle'
  BY <1>1, <1>3 DEF IInv, Handle
<1>8. Accounts'
  BY <1>1, <1>3, <1>4, <1>5 DEF IInv, Accounts
<1>9. HeardInFull'
  BY <1>1, <1>4 DEF IInv, HeardInFull, Past
<1>10. NothingCut'
  BY <1>1, <1>3 DEF IInv, NothingCut
<1>11. UnderrunSurvived'
  BY <1>1 DEF IInv, UnderrunSurvived
<1> QED
  BY <1>6, <1>7, <1>8, <1>9, <1>10, <1>11 DEF IInv

LEMMA SuspendInvariant == IInv /\ Suspend => IInv'
<1> SUFFICES ASSUME IInv, Suspend PROVE IInv'
  OBVIOUS
<1>1. /\ pcm \in {"running", "draining"} /\ pcm' = "suspended"
      /\ Fault
      /\ UNCHANGED <<pc, tone, todo, code, ring, heard>>
  BY DEF Suspend
<1>2. /\ faults' \in 0 .. MaxFaults /\ faults' > 0
      /\ hurt' = hurt \union {tone} /\ tone \in Tone
  BY <1>1, FaultCounts
<1>3. pc \in {"write", "drain"}
  BY <1>1 DEF IInv, Handle, TypeOK
<1>4. TypeOK'
  BY <1>1, <1>2 DEF IInv, TypeOK
<1>5. Handle'
  BY <1>1, <1>2, <1>3 DEF IInv, Handle
<1>6. Accounts'
  BY <1>1, <1>2, <1>3 DEF IInv, Accounts
<1>7. HeardInFull'
  BY <1>1, <1>2 DEF IInv, HeardInFull, Past
<1>8. NothingCut'
  BY <1>1, <1>3 DEF IInv, NothingCut
<1>9. UnderrunSurvived'
  BY <1>1, <1>2 DEF IInv, UnderrunSurvived
<1> QED
  BY <1>4, <1>5, <1>6, <1>7, <1>8, <1>9 DEF IInv

-----------------------------------------------------------------------------
LEMMA NextInvariant == IInv /\ [Next]_vars => IInv'
<1> SUFFICES ASSUME IInv, [Next]_vars PROVE IInv'
  OBVIOUS
<1>1. CASE UNCHANGED vars
  BY <1>1 DEF vars, IInv, TypeOK, Handle, Accounts, HeardInFull, Past,
    NothingCut, UnderrunSurvived
<1> QED
  BY <1>1, OpenInvariant, SetParamsInvariant, SetParamsFailsInvariant,
    NoMemoryInvariant, WriteSomeInvariant, WriteReturnsInvariant,
    WriteStopsInvariant, WriteFailsInvariant, StartDrainInvariant,
    DrainInvariant, CloseInvariant, PlayInvariant, XrunInvariant,
    SuspendInvariant
  DEF Next, Program, Trouble

\* Where the frames of the present tone are, at every statement, for any
\* number and length of the tones, any ring, and any number of faults.
THEOREM Inductive == Spec => []IInv
<1> QED
  BY InitInvariant, NextInvariant, PTL DEF Spec

\* Every variable keeps its type: among others, no tone is heard for longer
\* than it is.
THEOREM TypeCorrect == Spec => []TypeOK
<1>1. IInv => TypeOK
  BY DEF IInv
<1> QED
  BY <1>1, Inductive, PTL

\* What nothing happened to is heard in full, although nobody looks at the
\* results of snd_pcm_drain and of the recovered write.
THEOREM HeardInFullHolds == Spec => []HeardInFull
<1>1. IInv => HeardInFull
  BY DEF IInv
<1> QED
  BY <1>1, Inductive, PTL

\* Configuring the handle in place cuts no tone.
THEOREM NothingCutHolds == Spec => []NothingCut
<1>1. IInv => NothingCut
  BY DEF IInv
<1> QED
  BY <1>1, Inductive, PTL

\* Underruns alone, however many, do not make the program fail.
THEOREM UnderrunSurvivedHolds == Spec => []UnderrunSurvived
<1>1. IInv => UnderrunSurvived
  BY DEF IInv
<1> QED
  BY <1>1, Inductive, PTL
=============================================================================
