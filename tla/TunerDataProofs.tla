--------------------------- MODULE TunerDataProofs --------------------------
(***************************************************************************)
(* Proofs for TunerData: the bytes of any number, what a numeral is read   *)
(* as, then the three parts, each with its inductive invariant.            *)
(***************************************************************************)
EXTENDS TunerData, FiniteSetTheorems, TLAPS

-----------------------------------------------------------------------------
(* Bytes. *)

\* One byte is taken from a number.
LEMMA Split ==
  ASSUME NEW x \in Int
  PROVE  /\ Shift(x) \in Int /\ BYTE_0(x) \in Byte
         /\ x = BYTE_0(x) + (256 * Shift(x))
         /\ x \in Nat => Shift(x) \in Nat
         /\ x \in Byte => BYTE_0(x) = x
BY SMT DEF Shift, BYTE_0, Byte

\* What si468x_dab_set_freq_list and si468x_dab_start_digital_service send is
\* four bytes, and si468x_dab_get_freq_list makes the same word of them.
THEOREM Word4OfBytes4 ==
  ASSUME NEW x \in Word32
  PROVE  /\ Bytes4(x) \in Byte \X Byte \X Byte \X Byte
         /\ Word4(Bytes4(x)) = x
<1> DEFINE a == Shift(x)  b == Shift(a)  c == Shift(b)
<1>1. x \in Nat /\ c \in Byte
  BY DEF Word32
<1>2. a \in Nat /\ BYTE_0(x) \in Byte /\ x = BYTE_0(x) + (256 * a)
  BY <1>1, Split, SMT
<1>3. b \in Nat /\ BYTE_1(x) \in Byte /\ a = BYTE_1(x) + (256 * b)
  BY <1>2, Split DEF BYTE_1
<1>4. BYTE_2(x) \in Byte /\ b = BYTE_2(x) + (256 * c)
  BY <1>3, Split DEF BYTE_2
<1>5. BYTE_3(x) = c
  <2>1. c \in Int
    BY <1>1 DEF Byte
  <2> QED BY <1>1, <2>1, Split DEF BYTE_3
<1>6. Bytes4(x) \in Byte \X Byte \X Byte \X Byte
  BY <1>1, <1>2, <1>3, <1>4, <1>5 DEF Bytes4
<1>7. Word4(Bytes4(x)) =
        BYTE_0(x)
          + (256 * (BYTE_1(x) + (256 * (BYTE_2(x) + (256 * BYTE_3(x))))))
  BY DEF Word4, Bytes4
<1> HIDE DEF a, b, c
<1> QED
  BY <1>2, <1>3, <1>4, <1>5, <1>6, <1>7

\* What si468x_set_property sends of a property arrives, and
\* si468x_get_property makes the same value of it.
THEOREM Word2OfBytes2 ==
  ASSUME NEW x \in Word16
  PROVE  /\ Bytes2(x) \in Byte \X Byte
         /\ Word2(Bytes2(x)) = x
<1> DEFINE a == Shift(x)
<1>1. x \in Nat /\ BYTE_1(x) = a /\ a \in Byte
  <2>1. x \in Nat /\ a \in Byte
    BY DEF Word16
  <2>2. a \in Int
    BY <2>1 DEF Byte
  <2> QED BY <2>1, <2>2, Split DEF BYTE_1
<1>2. BYTE_0(x) \in Byte /\ x = BYTE_0(x) + (256 * BYTE_1(x))
  BY <1>1, Split
<1> QED BY <1>1, <1>2 DEF Bytes2, Word2

\* An int that the shell command casts to uint16_t becomes a word of two
\* bytes that differs from it by a multiple of 65536: it is not refused.
THEOREM CastWraps ==
  ASSUME NEW x \in Int
  PROVE  /\ uint16(x) \in Word16
         /\ x = uint16(x) + (256 * (256 * Shift(Shift(x))))
<1> DEFINE a == Shift(x)  b == Shift(a)  u == uint16(x)
<1>1. a \in Int /\ BYTE_0(x) \in Byte /\ x = BYTE_0(x) + (256 * a)
  BY Split
<1>2. b \in Int /\ BYTE_1(x) \in Byte /\ a = BYTE_1(x) + (256 * b)
  BY <1>1, Split DEF BYTE_1
<1>3. u = BYTE_0(x) + (256 * BYTE_1(x))
  BY DEF uint16, Word2, Bytes2
<1> HIDE DEF a, b, u
<1>4. x = u + (256 * (256 * b))
  <2> DEFINE l == BYTE_0(x)  h == BYTE_1(x)
  <2>1. /\ l \in Int /\ h \in Int /\ b \in Int /\ u = l + (256 * h)
        /\ x = l + (256 * (h + (256 * b)))
    BY <1>1, <1>2, <1>3 DEF Byte
  <2> HIDE DEF l, h
  <2> QED BY <2>1, SMT
<1>5. u \in Nat /\ Shift(u) = BYTE_1(x)
  <2> DEFINE l == BYTE_0(x)  h == BYTE_1(x)
  <2>1. l \in 0 .. 255 /\ h \in 0 .. 255 /\ u = l + (256 * h)
    BY <1>1, <1>2, <1>3 DEF Byte
  <2> HIDE DEF l, h
  <2>2. u \in Nat /\ u \div 256 = h
    BY <2>1, SMT
  <2> QED BY <2>2 DEF Shift, h
<1> QED BY <1>2, <1>4, <1>5 DEF Word16, a, b, u

\* The fields of the first byte of a service leave no bit out but the
\* highest and use none twice, and those of the second leave none out.
THEOREM FieldsOfService ==
  ASSUME NEW x \in Byte
  PROVE  /\ x = 128 * (x \div 128)
                + 64 * get_service1_SrvLinkingInfoFlag(x)
                + 2 * get_service1_Pty(x) + get_service1_PD_flag(x)
         /\ x = 128 * get_service2_LOCAL_flag(x)
                + 16 * get_service2_CAId(x) + get_service2_NUM_COMP(x)
BY SMT DEF Byte, Field, get_service1_SrvLinkingInfoFlag, get_service1_Pty,
       get_service1_PD_flag, get_service2_LOCAL_flag, get_service2_CAId,
       get_service2_NUM_COMP

-----------------------------------------------------------------------------
(* Numerals. *)

\* A set of naturals has a least element.  The provers cannot instantiate
\* the induction theorems of the library, but they can this consequence of
\* the well-foundedness of strict inclusion on finite sets.
LEMMA LeastOf ==
  ASSUME NEW T, T \subseteq Nat, T # {}
  PROVE  \E x \in T : \A y \in T : x <= y
<1> DEFINE F == FiniteSubsetsOf(Nat)
           R == StrictSubsetOrdering(Nat)
           U == {0 .. x - 1 : x \in T}
<1>1. IsWellFoundedOn(R, F)
  BY FS_StrictSubsetOrderingWellFounded
<1>2. \A x \in Nat : 0 .. x - 1 \in F
  BY FS_Interval DEF FiniteSubsetsOf
<1>3. U \subseteq F /\ U # {}
  BY <1>2
<1> HIDE DEF F, R, U
<1>4. \E u \in U : \A v \in U : <<v, u>> \notin R
  BY <1>1, <1>3, WFMin
<1>5. PICK x \in T : \A y \in T : <<0 .. y - 1, 0 .. x - 1>> \notin R
  BY <1>4 DEF U
<1>6. ASSUME NEW y \in T, ~ x <= y
      PROVE  FALSE
  <2>1. 0 .. y - 1 \subseteq 0 .. x - 1 /\ y \in (0 .. x - 1) \ (0 .. y - 1)
    BY <1>6
  <2>2. 0 .. y - 1 \in SUBSET Nat /\ 0 .. x - 1 \in SUBSET Nat
    BY <1>6
  <2> QED
    BY <1>5, <2>1, <2>2 DEF R, StrictSubsetOrdering
<1> QED
  BY <1>6

\* u has the values of the first digits, digit by digit.
Upto(u, base, digits) ==
  /\ u[0] = 0
  /\ \A n \in 0 .. Len(digits) - 1 :
       u[n + 1] = (base * u[n]) + digits[n + 1]

\* Value is defined by recursion: the function exists, so it obeys its
\* equations.
LEMMA ValueDef ==
  ASSUME NEW base, NEW digits, Len(digits) \in Nat
  PROVE  \E u : Upto(u, base, digits) /\ Value(base, digits) = u[Len(digits)]
<1> DEFINE Def(g, k) == IF k = 0 THEN 0 ELSE (base * g[k - 1]) + digits[k]
           Is(g, m) == g = [k \in 0 .. m |-> Def(g, k)]
           T == {m \in 0 .. Len(digits) : ~ \E g : Is(g, m)}
<1>1. T = {}
  <2> SUFFICES ASSUME T # {} PROVE FALSE
    OBVIOUS
  <2>1. PICK m \in T : \A k \in T : m <= k
    <3>1. T \subseteq Nat
      OBVIOUS
    <3> HIDE DEF T
    <3> QED
      BY <3>1, LeastOf
  <2>2. CASE m = 0
    <3> DEFINE h == [k \in 0 .. 0 |-> 0]
    <3>1. Is(h, 0)
      OBVIOUS
    <3> QED
      BY <2>1, <2>2, <3>1
  <2>3. CASE m # 0
    <3>1. m - 1 \in 0 .. Len(digits) /\ m - 1 \notin T
      BY <2>1, <2>3
    <3>2. PICK g : Is(g, m - 1)
      BY <3>1
    <3> DEFINE h == [k \in 0 .. m |->
                       IF k < m THEN g[k] ELSE (base * g[m - 1]) + digits[m]]
    <3>3. m \in Nat /\ m > 0
      BY <2>1, <2>3
    <3>4. \A k \in 0 .. m : h[k] = Def(h, k)
      <4> TAKE k \in 0 .. m
      <4>1. CASE k = m
        <5>1. h[k - 1] = g[k - 1]
          BY <3>3, <4>1
        <5> QED
          BY <3>3, <4>1, <5>1
      <4>2. CASE k # m
        <5>1. k \in 0 .. m - 1 /\ h[k] = g[k] /\ (k # 0 => h[k - 1] = g[k - 1])
          BY <3>3, <4>2
        <5>2. g[k] = Def(g, k)
          BY <3>2, <5>1
        <5> QED
          BY <5>1, <5>2
      <4> QED
        BY <4>1, <4>2
    <3>5. Is(h, m)
      BY <3>4
    <3> QED
      BY <2>1, <3>5
  <2> QED
    BY <2>2, <2>3
<1>2. PICK g : Is(g, Len(digits))
  BY <1>1
<1> DEFINE u == CHOOSE f : f = [k \in 0 .. Len(digits) |->
                  IF k = 0 THEN 0 ELSE (base * f[k - 1]) + digits[k]]
<1>3. u = [k \in 0 .. Len(digits) |->
             IF k = 0 THEN 0 ELSE (base * u[k - 1]) + digits[k]]
  BY <1>2
<1>4. Value(base, digits) = u[Len(digits)]
  BY DEF Value
<1> HIDE DEF u
<1>5. u[0] = 0 /\ \A n \in 0 .. Len(digits) - 1 :
        u[n + 1] = (base * u[n]) + digits[n + 1]
  <2>1. 0 \in 0 .. Len(digits) /\ \A n \in 0 .. Len(digits) - 1 :
          n + 1 \in 0 .. Len(digits) /\ n + 1 # 0 /\ (n + 1) - 1 = n
    OBVIOUS
  <2> QED
    BY <1>3, <2>1
<1> QED
  BY <1>4, <1>5 DEF Upto

\* What sscanf reads is a number, whatever the digits.
LEMMA ValueInt ==
  ASSUME NEW base \in Int, NEW digits \in Seq(Int)
  PROVE  Value(base, digits) \in Int
<1>0. Len(digits) \in Nat
  OBVIOUS
<1>1. \A n \in 1 .. Len(digits) : digits[n] \in Int
  OBVIOUS
<1>2. PICK u : Upto(u, base, digits) /\ Value(base, digits) = u[Len(digits)]
  BY <1>0, ValueDef, Zenon
<1> DEFINE T == {m \in 0 .. Len(digits) : u[m] \notin Int}
<1>3. T = {}
  <2> SUFFICES ASSUME T # {} PROVE FALSE
    OBVIOUS
  <2>1. PICK m \in T : \A k \in T : m <= k
    <3>1. T \subseteq Nat
      OBVIOUS
    <3> HIDE DEF T
    <3> QED
      BY <3>1, LeastOf
  <2>2. m # 0
    BY <1>2, <2>1 DEF Upto
  <2>3. m - 1 \in 0 .. Len(digits) - 1 /\ m - 1 \notin T /\ (m - 1) + 1 = m
    BY <1>0, <2>1, <2>2
  <2>4. u[m - 1] \in Int /\ digits[m] \in Int
    BY <1>0, <1>1, <2>1, <2>2, <2>3
  <2>5. u[m] = (base * u[m - 1]) + digits[m]
    BY <1>2, <2>3 DEF Upto
  <2>6. u[m] \in Int
    BY <2>4, <2>5
  <2> QED
    BY <2>1, <2>6
<1> QED
  BY <1>0, <1>2, <1>3

\* The 0 of 0x is all that %d reads.
LEMMA ValueOfZero ==
  ASSUME NEW base \in Int
  PROVE  Value(base, <<0>>) = 0
<1>1. PICK u : Upto(u, base, <<0>>) /\ Value(base, <<0>>) = u[Len(<<0>>)]
  BY ValueDef
<1>2. u[0] = 0 /\ u[0 + 1] = (base * u[0]) + <<0>>[0 + 1]
  BY <1>1 DEF Upto
<1> QED
  BY <1>1, <1>2
\* sscanf reads a number, with %d and with %x.
LEMMA ScansInt ==
  ASSUME NEW n \in Numeral
  PROVE  scan_d(n) \in Int /\ scan_x(n) \in Int
<1>1. n.digits \in Seq(Int)
  BY NumeralAssumption
<1>2. Decimals(n) \in Seq(Int)
  <2> DEFINE i == SelectInSeq(n.digits, LAMBDA d : d > 9)
             I == {j \in 1 .. Len(n.digits) : n.digits[j] > 9}
  <2>1. CASE n.prefix
    <3>1. Decimals(n) = <<0>>
      BY <2>1 DEF Decimals
    <3> QED
      BY <3>1
  <2>2. CASE ~n.prefix /\ i = 0
    <3>1. Decimals(n) = n.digits
      BY <2>2 DEF Decimals
    <3> QED
      BY <1>1, <3>1
  <2>3. CASE ~n.prefix /\ i # 0
    <3>1. Decimals(n) = SubSeq(n.digits, 1, i - 1)
      BY <2>3 DEF Decimals
    <3>2. i = IF I # {} THEN Min(I) ELSE 0
      BY DEF SelectInSeq
    <3>3. i \in I
      <4> HIDE DEF i
      <4>1. I # {} /\ i = Min(I)
        BY <2>3, <3>2
      <4>2. I \subseteq Nat
        OBVIOUS
      <4> HIDE DEF I
      <4> QED
        BY <4>1, <4>2, LeastOf DEF Min
    <3>4. i - 1 \in 0 .. Len(n.digits)
      <4> HIDE DEF i
      <4> QED
        BY <1>1, <3>3
    <3> HIDE DEF i
    <3> QED
      BY <1>1, <3>1, <3>4
  <2> QED
    BY <2>1, <2>2, <2>3
<1>3. Value(10, Decimals(n)) \in Int /\ Value(16, n.digits) \in Int
  BY <1>1, <1>2, ValueInt
<1> QED
  BY <1>3 DEF scan_d, scan_x, Signed

\* What get_digital_service_list prints is 0 to a %d.
LEMMA Hex08IsZero ==
  ASSUME NEW id
  PROVE  scan_d(Hex08(id)) = 0
<1>1. Hex08(id).prefix = TRUE /\ Hex08(id).minus = FALSE
  BY DEF Hex08
<1>2. Decimals(Hex08(id)) = <<0>>
  BY <1>1 DEF Decimals
<1> QED
  BY <1>1, <1>2, ValueOfZero DEF scan_d, Signed

\* The bytes of a number, and the number of bytes.
LEMMA BytesType ==
  ASSUME NEW x \in Int
  PROVE  /\ Bytes2(x) \in Octets2 /\ Bytes4(x) \in Octets4
         /\ uint8(x) \in Byte
<1>1. Shift(x) \in Int /\ BYTE_0(x) \in Byte
  BY Split
<1>2. Shift(Shift(x)) \in Int /\ BYTE_1(x) \in Byte
  BY <1>1, Split DEF BYTE_1
<1>3. Shift(Shift(Shift(x))) \in Int /\ BYTE_2(x) \in Byte
  BY <1>2, Split DEF BYTE_2
<1>4. BYTE_3(x) \in Byte
  BY <1>3, Split DEF BYTE_3
<1> QED
  BY <1>1, <1>2, <1>3, <1>4 DEF Bytes2, Bytes4, Octets2, Octets4, uint8

LEMMA WordType ==
  /\ \A b \in Octets2 : Word2(b) \in Nat /\ Word2(b) <= 65535
  /\ \A b \in Octets4 : Word4(b) \in Nat
<1>1. ASSUME NEW b \in Octets2
      PROVE  Word2(b) \in Nat /\ Word2(b) <= 65535
  <2>1. b[1] \in 0 .. 255 /\ b[2] \in 0 .. 255
    BY DEF Octets2, Byte
  <2>2. /\ b[1] \in Int /\ 0 <= b[1] /\ b[1] <= 255
        /\ b[2] \in Int /\ 0 <= b[2] /\ b[2] <= 255
    BY <2>1
  <2>3. /\ b[1] + (256 * b[2]) \in Int
        /\ 0 <= b[1] + (256 * b[2]) /\ b[1] + (256 * b[2]) <= 65535
    BY <2>2
  <2> QED
    BY <2>3, SMT DEF Word2
<1>2. ASSUME NEW b \in Octets4
      PROVE  Word4(b) \in Nat
  <2>1. b[1] \in Nat /\ b[2] \in Nat /\ b[3] \in Nat /\ b[4] \in Nat
    BY DEF Octets4, Byte
  <2> QED
    BY <2>1 DEF Word4
<1> QED
  BY <1>1, <1>2

\* A number below 65536 fits in two bytes, and the cast leaves it alone.
LEMMA FitsInTwo ==
  ASSUME NEW x \in Nat, x <= 65535
  PROVE  x \in Word16 /\ uint16(x) = x /\ Word2(Bytes2(x)) = x
<1>1. x \in Word16
  <2> DEFINE h == Shift(x)  l == BYTE_0(x)
  <2>1. h \in Nat /\ l \in Byte /\ x = l + (256 * h)
    BY Split
  <2> HIDE DEF h, l
  <2>2. l \in Int /\ 0 <= l
    BY <2>1 DEF Byte
  <2>3. h <= 255
    BY <2>1, <2>2
  <2>4. h \in Byte
    BY <2>1, <2>3 DEF Byte
  <2> QED
    BY <2>4 DEF Word16, h
<1> QED
  BY <1>1, Word2OfBytes2 DEF uint16

-----------------------------------------------------------------------------
(* The numbers: the inductive invariant of TunerValues. *)

\* A list of frequencies as it is sent.
LEMMA PackedType ==
  ASSUME NEW d \in Seq(Word32)
  PROVE  /\ Packed(d) \in Seq(Octets4) /\ Len(Packed(d)) = Len(d)
         /\ \A i \in 1 .. Len(d) : Word4(Packed(d)[i]) = d[i]
<1>1. Len(d) \in Nat /\ DOMAIN d = 1 .. Len(d)
  OBVIOUS
<1>2. \A i \in 1 .. Len(d) : d[i] \in Word32 /\ d[i] \in Int
  BY DEF Word32
<1>3. \A i \in 1 .. Len(d) :
        Bytes4(d[i]) \in Octets4 /\ Word4(Bytes4(d[i])) = d[i]
  BY <1>2, BytesType, Word4OfBytes4
<1>4. Packed(d) = [i \in 1 .. Len(d) |-> Bytes4(d[i])]
  BY <1>1 DEF Packed
<1> QED
  BY <1>1, <1>3, <1>4

LEMMA ValuesInit == Init => IInv
<1> SUFFICES ASSUME Init PROVE IInv
  OBVIOUS
<1>1. /\ DefaultList \in Seq(Word32)
      /\ Len(DefaultList) \in Int /\ 1 <= Len(DefaultList)
      /\ Len(DefaultList) <= 256
  BY ListsAssumption
<1>2. DefaultList[1] \in Int
  BY <1>1 DEF Word32
<1>3. /\ list \in Seq(Octets4) /\ Len(list) <= 256
      /\ freq \in Octets4 /\ Word4(freq) = DefaultList[1]
  <2>1. Len(list) = Len(DefaultList) /\ list \in Seq(Octets4)
    BY <1>1, PackedType DEF Init
  <2>2. 1 \in 1 .. Len(DefaultList) /\ 1 \in 1 .. Len(list)
    BY <1>1, <2>1
  <2>3. freq = list[1] /\ list = Packed(DefaultList)
    BY DEF Init
  <2> QED
    BY <1>1, <2>1, <2>2, <2>3, PackedType
<1>4. fm \in Octets2 /\ Word2(fm) = 8750
  BY BytesType, FitsInTwo DEF Init
<1>5. <<0, 0>> \in Octets2 /\ Word2(<<0, 0>>) = 0
  BY DEF Octets2, Byte, Word2
<1>6. service \in Octets4 /\ Word4(service) = 0
  <2>1. 0 \in Word32
    BY DEF Word32, Shift, Byte
  <2> QED
    BY <2>1, BytesType, Word4OfBytes4 DEF Init
<1>7. index \in Byte
  BY DEF Init, Byte
<1>8. TypeOK
  <2>1. asked \in Asked
    BY <1>2 DEF Init, Asked
  <2> QED
    BY <1>3, <1>4, <1>5, <1>6, <1>7, <2>1 DEF Init, TypeOK
<1>9. SetAsAsked
  BY <1>4, <1>5 DEF Init, SetAsAsked
<1>10. TunedAsListed /\ ReadBackAsSet /\ StartedOrZero
  BY <1>3, <1>6
  DEF Init, TunedAsListed, ReadBackAsSet, StartedOrZero, Nothing, Shown
<1> QED
  BY <1>8, <1>9, <1>10 DEF IInv

\* si468x_dab_set_freq_list and dab_get_frequencies_list.
LEMMA ListStep ==
  ASSUME IInv, SetFrequenciesList \/ GetFrequenciesList
  PROVE  IInv'
<1> USE DEF IInv, TypeOK, SetAsAsked, TunedAsListed, ReadBackAsSet,
            StartedOrZero, Shown, Nothing
<1>1. CASE SetFrequenciesList
  <2> DEFINE d == SubSeq(BandIII, 1, uint8(Len(BandIII)))
  <2>1. d \in Seq(Word32) /\ Len(d) <= 256
    <3>1. /\ BandIII \in Seq(Word32) /\ Len(BandIII) \in Nat
          /\ Len(BandIII) <= 255
      BY ListsAssumption
    <3>2. uint8(Len(BandIII)) = Len(BandIII)
      <4> DEFINE n == Len(BandIII)
      <4>1. n \in Nat /\ n <= 255
        BY <3>1
      <4> HIDE DEF n
      <4>2. n \in Int /\ n \in Byte
        BY <4>1 DEF Byte
      <4>3. uint8(n) = n
        BY <4>2, Split DEF uint8
      <4> QED
        BY <4>3 DEF n
    <3> QED
      BY <3>1, <3>2
  <2>2. list' = Packed(d)
    BY <1>1 DEF SetFrequenciesList
  <2> HIDE DEF d
  <2>3. list' \in Seq(Octets4) /\ Len(list') <= 256
    BY <2>1, <2>2, PackedType
  <2> QED
    BY <1>1, <2>3 DEF SetFrequenciesList
<1>2. CASE GetFrequenciesList
  BY <1>2 DEF GetFrequenciesList
<1> QED
  BY <1>1, <1>2

\* What uint8_t leaves of a number from the list.
LEMMA NumberFits ==
  ASSUME NEW x \in Int, 0 <= x, x <= 255
  PROVE  uint8(x) = x
<1>1. x \in Byte
  BY DEF Byte
<1> QED
  BY <1>1, Split DEF uint8

\* One of the wishes of the users changes.
LEMMA AskedFreq ==
  ASSUME NEW a \in Asked, NEW x \in Int, NEW b, b = [a EXCEPT !.freq = x]
  PROVE  /\ b \in Asked /\ b.freq = x /\ b.fm = a.fm /\ b.up = a.up
         /\ b.prop = a.prop /\ b.service = a.service
BY DEF Asked

LEMMA AskedFm ==
  ASSUME NEW a \in Asked, NEW x \in Int, NEW b, b = [a EXCEPT !.fm = x]
  PROVE  /\ b \in Asked /\ b.freq = a.freq /\ b.fm = x /\ b.up = a.up
         /\ b.prop = a.prop /\ b.service = a.service
BY DEF Asked

LEMMA AskedProp ==
  ASSUME NEW a \in Asked, NEW q \in Property, NEW x \in Int,
         NEW b, b = [a EXCEPT !.prop[q] = x]
  PROVE  /\ b \in Asked /\ b.freq = a.freq /\ b.fm = a.fm /\ b.up = a.up
         /\ b.prop = [a.prop EXCEPT ![q] = x] /\ b.service = a.service
BY DEF Asked

LEMMA AskedService ==
  ASSUME NEW a \in Asked, NEW x \in Int, NEW b, b = [a EXCEPT !.service = x]
  PROVE  /\ b \in Asked /\ b.freq = a.freq /\ b.fm = a.fm /\ b.up = a.up
         /\ b.prop = a.prop /\ b.service = x
BY DEF Asked

\* dab_tune_frequency, in the list and beyond it.
LEMMA TuneStep ==
  ASSUME IInv, NEW n \in Numeral, DabTune(n)
  PROVE  IInv'
<1> DEFINE x == scan_d(n)  k == uint8(x)
           f == IF x + 1 \in DOMAIN list THEN Frequencies[x + 1] ELSE 0
<1>1. /\ IF k + 1 \in DOMAIN list
         THEN index' = k /\ freq' = list[k + 1]
         ELSE UNCHANGED <<index, freq>>
      /\ asked' = [asked EXCEPT !.freq = f]
      /\ printed'.of = "nothing"
      /\ UNCHANGED <<list, fm, up, prop, service>>
  BY DEF DabTune, Nothing, Shown
<1>2. x \in Int /\ k \in Byte
  BY ScansInt, BytesType
<1>3. /\ list \in Seq(Octets4) /\ Len(list) <= 256 /\ Len(list) \in Nat
      /\ DOMAIN list = 1 .. Len(list)
  BY DEF IInv, TypeOK
<1>4. x + 1 \in DOMAIN list => k = x /\ x + 1 \in 1 .. Len(list)
  <2> HIDE DEF x
  <2>1. x + 1 \in DOMAIN list => 0 <= x /\ x <= 255
    BY <1>2, <1>3
  <2> QED
    BY <1>2, <1>3, <2>1, NumberFits
<1> HIDE DEF x, k
<1>5. f \in Int /\ (f # 0 => k + 1 \in DOMAIN list /\ f = Word4(list[k + 1]))
  <2>1. CASE x + 1 \in DOMAIN list
    <3>1. list[k + 1] \in Octets4 /\ f = Word4(list[k + 1])
      BY <1>3, <1>4, <2>1 DEF Frequencies
    <3>2. Word4(list[k + 1]) \in Int
      BY <3>1, WordType
    <3> QED
      BY <1>4, <2>1, <3>1, <3>2
  <2>2. CASE x + 1 \notin DOMAIN list
    BY <2>2
  <2> QED
    BY <2>1, <2>2
<1>6. freq' \in Octets4 /\ index' \in Byte
  BY <1>1, <1>2, <1>3 DEF IInv, TypeOK
<1> HIDE DEF f
<1>7. /\ asked' \in Asked /\ asked'.freq = f
      /\ asked'.fm = asked.fm /\ asked'.up = asked.up
      /\ asked'.prop = asked.prop /\ asked'.service = asked.service
  BY <1>1, <1>5, AskedFreq DEF IInv, TypeOK
<1>8. TypeOK'
  BY <1>1, <1>6, <1>7 DEF IInv, TypeOK
<1>9. SetAsAsked' /\ StartedOrZero'
  BY <1>1, <1>7 DEF IInv, SetAsAsked, StartedOrZero
<1>10. TunedAsListed'
  BY <1>1, <1>5, <1>7 DEF TunedAsListed
<1>11. ReadBackAsSet'
  BY <1>1, <1>7 DEF IInv, ReadBackAsSet
<1> QED
  BY <1>8, <1>9, <1>10, <1>11 DEF IInv

\* fm_tune_frequency and fm_seek_start.
LEMMA FmStep ==
  ASSUME IInv, NEW n \in Numeral, FmTune(n) \/ FmSeek(n)
  PROVE  IInv'
<1>1. CASE FmTune(n)
  <2> DEFINE x == scan_d(n)  k == x \div 10
  <2>1. x \in Int /\ 87500 <= x /\ x <= 108000
    BY <1>1, ScansInt DEF FmTune
  <2>2. k \in Nat /\ k <= 65535 /\ x - (10 * k) \in 0 .. 9
    <3> HIDE DEF x
    <3> QED
      BY <2>1, SMT
  <2>3. /\ fm' = Bytes2(uint16(k)) /\ asked' = [asked EXCEPT !.fm = x]
        /\ printed'.of = "nothing"
        /\ UNCHANGED <<list, index, freq, up, prop, service>>
    BY <1>1 DEF FmTune, Nothing, Shown
  <2> HIDE DEF x, k
  <2>4. fm' \in Octets2 /\ Word2(fm') = k
    BY <2>2, <2>3, FitsInTwo, BytesType
  <2>5. /\ asked' \in Asked /\ asked'.freq = asked.freq /\ asked'.fm = x
        /\ asked'.up = asked.up /\ asked'.prop = asked.prop
        /\ asked'.service = asked.service
    BY <2>1, <2>3, AskedFm DEF IInv, TypeOK
  <2>6. TypeOK'
    BY <2>3, <2>4, <2>5 DEF IInv, TypeOK
  <2>7. SetAsAsked'
    BY <2>2, <2>3, <2>4, <2>5 DEF IInv, SetAsAsked
  <2>8. TunedAsListed' /\ StartedOrZero' /\ ReadBackAsSet'
    BY <2>3, <2>5 DEF IInv, TunedAsListed, StartedOrZero, ReadBackAsSet
  <2> QED
    BY <2>6, <2>7, <2>8 DEF IInv
<1>2. CASE FmSeek(n)
  <2> DEFINE x == scan_d(n)  u == (x = 1)
  <2>1. x = 0 \/ x = 1
    BY <1>2 DEF FmSeek
  <2>2. PICK s \in Station :
          fm' = Bytes2(s) /\ asked' = [asked EXCEPT !.up = u, !.fm = 10 * s]
    BY <1>2, Zenon DEF FmSeek
  <2>3. /\ up' = (Field((IF x # 0 THEN 2 ELSE 0) + 1, 2, 2) = 1)
        /\ printed'.of = "nothing"
        /\ UNCHANGED <<list, index, freq, prop, service>>
    BY <1>2 DEF FmSeek, Nothing, Shown
  <2> HIDE DEF x
  <2>4. up' = u /\ u \in BOOLEAN
    <3>1. Field(3, 2, 2) = 1 /\ Field(1, 2, 2) = 0
      BY SMT DEF Field
    <3> QED
      BY <2>1, <2>3, <3>1
  <2> HIDE DEF u
  <2>5. s \in Word16 /\ s \in Int /\ 10 * s \in Int
    BY <2>2, WidthsAssumption DEF Word16
  <2>6. fm' \in Octets2 /\ Word2(fm') = s
    BY <2>2, <2>5, BytesType, Word2OfBytes2
  <2>7. /\ asked' \in Asked /\ asked'.freq = asked.freq
        /\ asked'.fm = 10 * s /\ asked'.up = u
        /\ asked'.prop = asked.prop /\ asked'.service = asked.service
    <3>1. PICK z \in Int : z = 10 * s
      BY <2>5
    <3>2. PICK v \in BOOLEAN : v = u
      BY <2>4
    <3>3. asked \in Asked /\ asked' = [asked EXCEPT !.up = v, !.fm = z]
      BY <2>2, <3>1, <3>2 DEF IInv, TypeOK
    <3>4. /\ asked' \in Asked /\ asked'.freq = asked.freq
          /\ asked'.fm = z /\ asked'.up = v
          /\ asked'.prop = asked.prop /\ asked'.service = asked.service
      BY <3>3 DEF Asked
    <3> QED
      BY <3>1, <3>2, <3>4
  <2>8. TypeOK'
    BY <2>3, <2>4, <2>6, <2>7 DEF IInv, TypeOK
  <2>9. SetAsAsked'
    <3>1. asked'.fm - (10 * Word2(fm')) \in 0 .. 9
      BY <2>5, <2>6, <2>7
    <3> QED
      BY <2>3, <2>7, <3>1 DEF IInv, SetAsAsked
  <2>10. TunedAsListed' /\ StartedOrZero'
    BY <2>3, <2>7 DEF IInv, TunedAsListed, StartedOrZero
  <2>11. ReadBackAsSet'
    BY <2>3, <2>4, <2>7 DEF ReadBackAsSet
  <2> QED
    BY <2>8, <2>9, <2>10, <2>11 DEF IInv
<1> QED
  BY <1>1, <1>2

\* dab_digrad_status and fm_rsq_status.
LEMMA StatusStep ==
  ASSUME IInv, DigradStatus \/ FmRsqStatus
  PROVE  IInv'
<1>1. CASE DigradStatus
  BY <1>1
  DEF DigradStatus, IInv, TypeOK, SetAsAsked, TunedAsListed, ReadBackAsSet,
      StartedOrZero, Shown
<1>2. CASE FmRsqStatus
  <2>1. Word2(fm) * 10 = 10 * Word2(fm)
    BY WordType DEF IInv, TypeOK
  <2>2. printed'.of = "rsq" /\ asked'.fm - printed'.value \in 0 .. 9
    BY <1>2, <2>1 DEF FmRsqStatus, IInv, SetAsAsked, Shown
  <2>3. UNCHANGED <<list, index, freq, fm, up, prop, service, asked>>
    BY <1>2 DEF FmRsqStatus
  <2> QED
    BY <2>2, <2>3
    DEF IInv, TypeOK, SetAsAsked, TunedAsListed, ReadBackAsSet,
        StartedOrZero
<1> QED
  BY <1>1, <1>2

\* The cast keeps the remainder.
LEMMA CastKeeps ==
  ASSUME NEW x \in Int
  PROVE  x % 65536 = Word2(Bytes2(uint16(x)))
<1>1. PICK w \in Word16, h \in Int : w = uint16(x) /\ x = w + (65536 * h)
  <2>1. uint16(x) \in Word16 /\ Shift(Shift(x)) \in Int
    BY CastWraps, Split
  <2>2. PICK w \in Word16 : w = uint16(x)
    BY <2>1
  <2>3. PICK h \in Int : h = Shift(Shift(x))
    BY <2>1
  <2>4. w \in Int
    BY DEF Word16
  <2>5. x = w + (256 * (256 * h))
    BY <2>2, <2>3, CastWraps
  <2>6. x = w + (65536 * h)
    BY <2>4, <2>5, SMT
  <2> QED
    BY <2>2, <2>6
<1>2. w \in Nat /\ w < 65536
  <2>1. w \in Nat /\ Shift(w) \in Byte
    BY DEF Word16
  <2>2. BYTE_0(w) \in Byte /\ w = BYTE_0(w) + (256 * Shift(w))
    BY <2>1, Split
  <2>3. ASSUME NEW lo \in Byte, NEW hi \in Byte, w = lo + (256 * hi)
        PROVE  w < 65536
    BY <2>1, <2>3, SMT DEF Byte
  <2> QED
    BY <2>1, <2>2, <2>3
<1>3. x % 65536 = w
  BY <1>1, <1>2, SMT
<1> QED
  BY <1>1, <1>3, Word2OfBytes2

\* set_property and get_property.
LEMMA PropertyStep ==
  ASSUME IInv, NEW p \in Numeral, NEW n \in Numeral,
         SetProperty(p, n) \/ GetProperty(p)
  PROVE  IInv'
<1>1. CASE SetProperty(p, n)
  <2> DEFINE q == Word2(Bytes2(scan_x(p)))  x == scan_x(n)
  <2>1. /\ printed'.of = "nothing"
        /\ UNCHANGED <<list, index, freq, fm, up, service>>
    BY <1>1 DEF SetProperty, Nothing, Shown
  <2>2. /\ IF q \in Property
           THEN /\ prop' = [prop EXCEPT ![q] = Bytes2(uint16(x))]
                /\ asked' = [asked EXCEPT !.prop[q] = x]
           ELSE UNCHANGED <<prop, asked>>
        /\ x \in Int
    BY <1>1, ScansInt DEF SetProperty
  <2> HIDE DEF q, x
  <2>3. CASE q \in Property
    <3>1. uint16(x) \in Int /\ Bytes2(uint16(x)) \in Octets2
      <4>1. uint16(x) \in Int
        BY <2>2, CastWraps DEF Word16
      <4> QED
        BY <4>1, BytesType
    <3>2. x % 65536 = Word2(Bytes2(uint16(x)))
      BY <2>2, CastKeeps
    <3>3. /\ asked' \in Asked /\ asked'.freq = asked.freq
          /\ asked'.fm = asked.fm /\ asked'.up = asked.up
          /\ asked'.prop = [asked.prop EXCEPT ![q] = x]
          /\ asked'.service = asked.service
      BY <2>1, <2>2, <2>3, AskedProp DEF IInv, TypeOK
    <3>4. TypeOK'
      BY <2>1, <2>2, <2>3, <3>1, <3>3 DEF IInv, TypeOK
    <3>5. SetAsAsked'
      <4>1. asked'.fm - (10 * Word2(fm')) \in 0 .. 9
        BY <2>1, <2>2, <3>3 DEF IInv, SetAsAsked
      <4>2. DOMAIN prop = Property /\ DOMAIN asked.prop = Property
        BY DEF IInv, TypeOK, Asked
      <4>3. ASSUME NEW r \in Property
            PROVE  asked'.prop[r] % 65536 = Word2(prop'[r])
        <5>1. CASE r = q
          BY <2>1, <2>2, <2>3, <3>2, <3>3, <4>2, <5>1
        <5>2. CASE r # q
          <6>1. asked'.prop[r] = asked.prop[r] /\ prop'[r] = prop[r]
            BY <2>1, <2>2, <2>3, <3>3, <4>2, <5>2
          <6> QED
            BY <6>1 DEF IInv, SetAsAsked
        <5> QED
          BY <5>1, <5>2
      <4> QED
        BY <4>1, <4>3 DEF SetAsAsked
    <3>6. TunedAsListed' /\ ReadBackAsSet' /\ StartedOrZero'
      BY <2>1, <2>2, <3>3 DEF IInv, TunedAsListed, ReadBackAsSet, StartedOrZero
    <3> QED
      BY <3>4, <3>5, <3>6 DEF IInv
  <2>4. CASE q \notin Property
    BY <2>1, <2>2, <2>4
    DEF IInv, TypeOK, SetAsAsked, TunedAsListed, ReadBackAsSet, StartedOrZero
  <2> QED
    BY <2>3, <2>4
<1>2. CASE GetProperty(p)
  <2> DEFINE q == Word2(Bytes2(scan_x(p)))
  <2>1. PICK value \in IF q \in Property THEN {Word2(prop[q])} ELSE Leftover :
          printed' = Shown("property", [index |-> scan_x(p), value |-> value])
    BY <1>2, Zenon DEF GetProperty
  <2>2. Word2(Bytes2(scan_x(p))) = scan_x(p)
    <3>1. scan_x(p) \in Nat /\ scan_x(p) <= 65535
      BY <1>2, ScansInt DEF GetProperty, Accepted
    <3> QED
      BY <3>1, FitsInTwo
  <2>3. /\ printed'.of = "property" /\ printed'.value.index = scan_x(p)
        /\ printed'.value.value = value
    BY <2>1 DEF Shown
  <2>4. scan_x(p) \in Property => printed'.value.value = Word2(prop[scan_x(p)])
    BY <2>1, <2>2, <2>3
  <2>5. UNCHANGED <<list, index, freq, fm, up, prop, service, asked>>
    BY <1>2 DEF GetProperty
  <2> QED
    BY <2>3, <2>4, <2>5
    DEF IInv, TypeOK, SetAsAsked, TunedAsListed, ReadBackAsSet, StartedOrZero
<1> QED
  BY <1>1, <1>2

\* dab_start_digital_service, with the ID as it is printed and in decimal.
LEMMA ServiceStep ==
  ASSUME IInv, NEW id \in Service, NEW n, StartService(n, id),
         scan_d(n) \in {id, 0}
  PROVE  IInv'
<1>1. /\ service' = Bytes4(scan_d(n))
      /\ asked' = [asked EXCEPT !.service = id]
      /\ printed'.of = "nothing"
      /\ UNCHANGED <<list, index, freq, fm, up, prop>>
  BY DEF StartService, Nothing, Shown
<1>2. id \in Word32 /\ 0 \in Word32
  BY WidthsAssumption DEF Word32, Shift, Byte
<1>3. scan_d(n) \in Word32 /\ scan_d(n) \in Int /\ id \in Int
  BY <1>2 DEF Word32
<1>4. service' \in Octets4 /\ Word4(service') \in {id, 0}
  BY <1>1, <1>3, BytesType, Word4OfBytes4
<1>5. /\ asked' \in Asked /\ asked'.freq = asked.freq
      /\ asked'.fm = asked.fm /\ asked'.up = asked.up
      /\ asked'.prop = asked.prop /\ asked'.service = id
  BY <1>1, <1>3, AskedService DEF IInv, TypeOK
<1>6. TypeOK' /\ SetAsAsked'
  BY <1>1, <1>4, <1>5 DEF IInv, TypeOK, SetAsAsked
<1>7. TunedAsListed' /\ ReadBackAsSet' /\ StartedOrZero'
  BY <1>1, <1>4, <1>5 DEF IInv, TunedAsListed, ReadBackAsSet, StartedOrZero
<1> QED
  BY <1>6, <1>7 DEF IInv

\* A number that is refused changes nothing.
LEMMA RefusedStep ==
  ASSUME IInv, Refused
  PROVE  IInv'
<1>1. /\ printed'.of = "error"
      /\ UNCHANGED <<list, index, freq, fm, up, prop, service, asked>>
  BY DEF Refused, Shown
<1> QED
  BY <1>1 DEF IInv, TypeOK, SetAsAsked, TunedAsListed, ReadBackAsSet,
              StartedOrZero

LEMMA ValuesNext == IInv /\ [Next]_vars => IInv'
<1> SUFFICES ASSUME IInv, [Next]_vars PROVE IInv'
  OBVIOUS
<1>1. CASE SetFrequenciesList \/ GetFrequenciesList
  BY <1>1, ListStep
<1>2. CASE DigradStatus \/ FmRsqStatus \/ Refused
  BY <1>2, StatusStep, RefusedStep
<1>3. ASSUME NEW n \in Numeral,
             \/ DabTune(n) \/ FmTune(n) \/ FmSeek(n) \/ GetProperty(n)
             \/ \E p \in Numeral : SetProperty(p, n)
      PROVE  IInv'
  BY <1>3, TuneStep, FmStep, PropertyStep
<1>4. ASSUME NEW id \in Service, StartService(Hex08(id), id)
      PROVE  IInv'
  BY <1>4, Hex08IsZero, ServiceStep
<1>5. ASSUME NEW id \in Service, NEW n \in Numeral, scan_d(n) = id,
             StartService(n, id)
      PROVE  IInv'
  BY <1>5, ServiceStep
<1>6. CASE UNCHANGED vars
  BY <1>6 DEF vars, IInv, TypeOK, SetAsAsked, TunedAsListed, ReadBackAsSet,
              StartedOrZero
<1> QED
  BY <1>1, <1>2, <1>3, <1>4, <1>5, <1>6 DEF Next

-----------------------------------------------------------------------------
(* The events: the inductive invariant of DabEvents. *)

\* The tuner raises an event in any state of a run.
LEMMA RaiseStep ==
  ASSUME Events!IInv, NEW e \in Event, Events!Raise(e)
  PROVE  Events!IInv'
<1> USE EventAssumption
    DEF Events!IInv, Events!TypeOK, Events!ListIsCurrent, Events!ReadIsRecent,
        Events!SeenIsRecent, Events!AboutToClear, Events!SeenIsCleared
<1>1. CASE e = svrlistint
  BY <1>1 DEF Events!Raise
<1>2. CASE e # svrlistint
  BY <1>2 DEF Events!Raise
<1> QED BY <1>1, <1>2

\* Up to the printing, only the structure changes.
LEMMA ReadStep ==
  ASSUME Events!IInv, Events!Start \/ Events!Keep \/ Events!KeepFails
  PROVE  Events!IInv'
<1> USE EventAssumption
    DEF Events!IInv, Events!TypeOK, Events!EventStatus, Events!ListIsCurrent,
        Events!ReadIsRecent, Events!SeenIsRecent, Events!AboutToClear,
        Events!SeenIsCleared
<1>1. CASE Events!Start
  BY <1>1 DEF Events!Start
<1>2. CASE Events!Keep
  BY <1>2 DEF Events!Keep
<1>3. CASE Events!KeepFails
  BY <1>3 DEF Events!KeepFails
<1> QED BY <1>1, <1>2, <1>3

\* The printing shows the list of the tuner, or its event is late.
LEMMA PrintStatusStep ==
  ASSUME Events!IInv, Events!PrintStatus
  PROVE  Events!IInv'
<1> USE EventAssumption
    DEF Events!IInv, Events!TypeOK, Events!EventStatus, Events!ListIsCurrent,
        Events!ReadIsRecent, Events!SeenIsRecent, Events!AboutToClear,
        Events!SeenIsCleared, Events!PrintStatus
<1>1. CASE read
  <2>1. Events!TypeOK'
    BY <1>1
  <2>2. Events!SeenIsRecent'
    BY <1>1
  <2>3. Events!ListIsCurrent'
    BY <1>1
  <2>4. Events!ReadIsRecent' /\ Events!AboutToClear' /\ Events!SeenIsCleared'
    BY <1>1
  <2> QED BY <2>1, <2>2, <2>3, <2>4
<1>2. CASE ~read
  BY <1>2
<1> QED BY <1>1, <1>2

\* After the clearing, an event that was not seen is missed.
LEMMA ClearStep ==
  ASSUME Events!IInv, Events!Clear \/ Events!GiveUp
  PROVE  Events!IInv'
<1> USE EventAssumption
    DEF Events!IInv, Events!TypeOK, Events!ListIsCurrent, Events!ReadIsRecent,
        Events!SeenIsRecent, Events!AboutToClear, Events!SeenIsCleared
<1>1. CASE Events!Clear
  BY <1>1 DEF Events!Clear
<1>2. CASE Events!GiveUp
  BY <1>2 DEF Events!GiveUp
<1> QED BY <1>1, <1>2

\* The inductive invariant of DabEvents holds in every state, whatever the
\* order of events, reads and clears of dab_get_event_status.
THEOREM EventsInductive == Events!Spec => []Events!IInv
<1>1. Events!Init => Events!IInv
  <2> SUFFICES ASSUME Events!Init PROVE Events!IInv
    OBVIOUS
  <2>1. Events!TypeOK
    <3>1. 0 \in 0 .. MaxVersion
      BY EventAssumption
    <3>2. {latched, late, seen, missed} \subseteq SUBSET Event
      BY DEF Events!Init
    <3>3. {read, kept} \subseteq BOOLEAN
      BY DEF Events!Init
    <3> QED BY <3>1, <3>2, <3>3 DEF Events!Init, Events!TypeOK
  <2> QED
    BY <2>1
    DEF Events!Init, Events!IInv, Events!ListIsCurrent, Events!ReadIsRecent,
        Events!SeenIsRecent, Events!AboutToClear, Events!SeenIsCleared
<1>2. Events!IInv /\ [Events!Next]_(Events!vars) => Events!IInv'
  <2> SUFFICES ASSUME Events!IInv, [Events!Next]_(Events!vars)
               PROVE  Events!IInv'
    OBVIOUS
  <2>1. CASE Events!dab_get_event_status
    BY <2>1, ReadStep, PrintStatusStep, ClearStep
    DEF Events!dab_get_event_status
  <2>2. CASE \E e \in Event : Events!Raise(e)
    BY <2>2, RaiseStep
  <2>3. CASE UNCHANGED Events!vars
    BY <2>3 DEF Events!vars, Events!IInv, Events!TypeOK, Events!ListIsCurrent,
                Events!ReadIsRecent, Events!SeenIsRecent, Events!AboutToClear,
                Events!SeenIsCleared
  <2> QED BY <2>1, <2>2, <2>3 DEF Events!Next
<1> QED BY <1>1, <1>2, PTL DEF Events!Spec

\* The variables keep their types.
THEOREM EventsTypeCorrect == Events!Spec => []Events!TypeOK
<1>1. Events!IInv => Events!TypeOK
  BY DEF Events!IInv
<1> QED BY <1>1, EventsInductive, PTL

\* The version a user was shown is that of the tuner's service list, unless
\* the event of a new one is pending or was swallowed.
THEOREM ListIsCurrentHolds == Events!Spec => []Events!ListIsCurrent
<1>1. Events!IInv => Events!ListIsCurrent
  BY DEF Events!IInv
<1> QED BY <1>1, EventsInductive, PTL

\* dab_get_event_status clears no event unseen but those raised between its
\* two exchanges, unless the first of them failed.
LEMMA EventsMissedLate ==
  Events!Spec => Events!OnlyLateOnesAreMissed
<1>1. ASSUME Events!IInv, [Events!Next]_(Events!vars)
      PROVE  [\A e \in missed' \ missed : e \in late' \/ ~read']_(Events!vars)
  <2>1. CASE Events!Clear
    BY <1>1, <2>1 DEF Events!IInv, Events!AboutToClear, Events!Clear
  <2>2. CASE missed' \subseteq missed
    BY <2>2
  <2>3. CASE UNCHANGED Events!vars
    BY <2>3
  <2>4. CASE \E e \in Event : Events!Raise(e)
    BY <2>4, <2>2 DEF Events!Raise
  <2>5. CASE \/ Events!Start \/ Events!Keep \/ Events!KeepFails
             \/ Events!PrintStatus \/ Events!GiveUp
    BY <2>5, <2>2
    DEF Events!Start, Events!Keep, Events!KeepFails, Events!PrintStatus,
        Events!GiveUp
  <2> QED
    BY <1>1, <2>1, <2>3, <2>4, <2>5
    DEF Events!Next, Events!dab_get_event_status
<1> QED BY <1>1, EventsInductive, PTL
  DEF Events!Spec, Events!OnlyLateOnesAreMissed

\* It shows an event that it has shown before only if it was raised again or
\* a run since then did not get to the clearing.
LEMMA EventsShownOnce == Events!Spec => Events!ShownOnce
<1>1. ASSUME Events!IInv, [Events!Next]_(Events!vars)
      PROVE  [Events!PrintStatus /\ read =>
                status.flags \intersect seen = {} \/ kept]_(Events!vars)
  BY <1>1
  DEF Events!IInv, Events!ReadIsRecent, Events!SeenIsCleared,
      Events!PrintStatus
<1> QED BY <1>1, EventsInductive, PTL DEF Events!Spec, Events!ShownOnce

-----------------------------------------------------------------------------
(* The replies: what each structure is made of. *)

\* Number of the bits of a field.
Bitcount(bits) == Cardinality(bits)

LEMMA IntervalCount ==
  ASSUME NEW b \in Nat, NEW lo \in Nat, NEW hi \in Nat, lo <= hi
  PROVE  Bitcount(Replies!Bits(b, lo, hi)) = hi - lo + 1
<1> DEFINE l == (8 * b) + lo  h == (8 * b) + hi
<1>1. l \in Int /\ h \in Int /\ l <= h /\ h - l = hi - lo
  OBVIOUS
<1> HIDE DEF l, h
<1>2. Cardinality(l .. h) = h - l + 1
  BY <1>1, FS_Interval
<1> QED
  BY <1>1, <1>2 DEF Bitcount, Replies!Bits, l, h

LEMMA FieldCounts ==
  ASSUME NEW b \in Nat
  PROVE  /\ \A i \in Nat : Bitcount(Replies!Bit(b, i)) = 1
         /\ Bitcount(Replies!Bits(b, 0, 1)) = 2
         /\ Bitcount(Replies!Bits(b, 2, 3)) = 2
         /\ Bitcount(Replies!Bits(b, 4, 5)) = 2
         /\ Bitcount(Replies!Bits(b, 6, 7)) = 2
         /\ Bitcount(Replies!Bits(b, 0, 4)) = 5
         /\ Bitcount(Replies!Octets(b, 1)) = 8
         /\ Bitcount(Replies!Octets(b, 2)) = 16
         /\ Bitcount(Replies!Octets(b, 4)) = 32
         /\ Bitcount(Replies!Octets(b, 16)) = 128
<1>1. \A i \in Nat : Bitcount(Replies!Bit(b, i)) = 1
  BY IntervalCount DEF Replies!Bit
<1>2. /\ Bitcount(Replies!Bits(b, 0, 1)) = 2
      /\ Bitcount(Replies!Bits(b, 2, 3)) = 2
      /\ Bitcount(Replies!Bits(b, 4, 5)) = 2
      /\ Bitcount(Replies!Bits(b, 6, 7)) = 2
      /\ Bitcount(Replies!Bits(b, 0, 4)) = 5
  BY IntervalCount
<1>3. ASSUME NEW n \in Nat, n # 0
      PROVE  Bitcount(Replies!Octets(b, n)) = 8 * n
  <2>1. 0 \in Nat /\ (8 * n) - 1 \in Nat /\ 0 <= (8 * n) - 1
    BY <1>3
  <2>2. Bitcount(Replies!Octets(b, n)) = (8 * n) - 1 - 0 + 1
    BY <2>1, IntervalCount DEF Replies!Octets
  <2> QED
    BY <2>2
<1> QED
  BY <1>1, <1>2, <1>3

LEMMA ConstCount == Bitcount(Replies!Const) = 0
BY FS_EmptySet DEF Bitcount, Replies!Const

\* What is decoded of a reply of that size fits into the structure.
Fits(decode, structure, size) ==
  /\ DOMAIN decode \subseteq DOMAIN structure
  /\ \A f \in DOMAIN structure : structure[f] \in Nat
  /\ \A f \in DOMAIN decode :
       /\ decode[f] \subseteq 0 .. (8 * size) - 1
       /\ Bitcount(decode[f]) <= structure[f]

\* No bit of the reply is in two fields, pi and rdsfifoused apart.
Disjoint(decode) ==
  \A f, g \in DOMAIN decode :
    decode[f] \intersect decode[g] # {} =>
      f = g \/ {f, g} = {"pi", "rdsfifoused"}

LEMMA DigradStatusFits ==
  /\ Fits(Replies!digrad_status, Replies!DAB_digrad_status, 19)
  /\ Disjoint(Replies!digrad_status)
<1> USE DEF Replies!digrad_status
<1>1. \A f \in DOMAIN Replies!digrad_status :
        Replies!digrad_status[f] \subseteq 0 .. (8 * 19) - 1
  BY DEF Replies!Bits, Replies!Bit, Replies!Octets, Replies!Const
<1>2. /\ DOMAIN Replies!digrad_status \subseteq
           DOMAIN Replies!DAB_digrad_status
      /\ \A f \in DOMAIN Replies!DAB_digrad_status :
           Replies!DAB_digrad_status[f] \in Nat
  BY DEF Replies!DAB_digrad_status
<1>3. \A f \in DOMAIN Replies!digrad_status :
        Bitcount(Replies!digrad_status[f]) <= Replies!DAB_digrad_status[f]
  BY FieldCounts, ConstCount DEF Replies!DAB_digrad_status
<1>4. Disjoint(Replies!digrad_status)
  BY DEF Disjoint, Replies!Bits, Replies!Bit, Replies!Octets, Replies!Const
<1> QED
  BY <1>1, <1>2, <1>3, <1>4 DEF Fits

LEMMA EnsambleInfoFits ==
  /\ Fits(Replies!ensamble_info, Replies!DAB_ensamble_info, 22)
  /\ Disjoint(Replies!ensamble_info)
<1> USE DEF Replies!ensamble_info
<1>1. \A f \in DOMAIN Replies!ensamble_info :
        Replies!ensamble_info[f] \subseteq 0 .. (8 * 22) - 1
  BY DEF Replies!Bits, Replies!Bit, Replies!Octets, Replies!Const
<1>2. /\ DOMAIN Replies!ensamble_info \subseteq
           DOMAIN Replies!DAB_ensamble_info
      /\ \A f \in DOMAIN Replies!DAB_ensamble_info :
           Replies!DAB_ensamble_info[f] \in Nat
  BY DEF Replies!DAB_ensamble_info
<1>3. \A f \in DOMAIN Replies!ensamble_info :
        Bitcount(Replies!ensamble_info[f]) <= Replies!DAB_ensamble_info[f]
  BY FieldCounts, ConstCount DEF Replies!DAB_ensamble_info
<1>4. Disjoint(Replies!ensamble_info)
  BY DEF Disjoint, Replies!Bits, Replies!Bit, Replies!Octets, Replies!Const
<1> QED
  BY <1>1, <1>2, <1>3, <1>4 DEF Fits

LEMMA DabTimeFits ==
  /\ Fits(Replies!dab_time, Replies!DAB_time, 7)
  /\ Disjoint(Replies!dab_time)
<1> USE DEF Replies!dab_time
<1>1. \A f \in DOMAIN Replies!dab_time :
        Replies!dab_time[f] \subseteq 0 .. (8 * 7) - 1
  BY DEF Replies!Bits, Replies!Bit, Replies!Octets, Replies!Const
<1>2. /\ DOMAIN Replies!dab_time \subseteq DOMAIN Replies!DAB_time
      /\ \A f \in DOMAIN Replies!DAB_time : Replies!DAB_time[f] \in Nat
  BY DEF Replies!DAB_time
<1>3. \A f \in DOMAIN Replies!dab_time :
        Bitcount(Replies!dab_time[f]) <= Replies!DAB_time[f]
  BY FieldCounts, ConstCount DEF Replies!DAB_time
<1>4. Disjoint(Replies!dab_time)
  BY DEF Disjoint, Replies!Bits, Replies!Bit, Replies!Octets, Replies!Const
<1> QED
  BY <1>1, <1>2, <1>3, <1>4 DEF Fits

LEMMA EventStatusFits ==
  /\ Fits(Replies!event_status, Replies!DAB_event_status, 4)
  /\ Disjoint(Replies!event_status)
<1> USE DEF Replies!event_status
<1>1. \A f \in DOMAIN Replies!event_status :
        Replies!event_status[f] \subseteq 0 .. (8 * 4) - 1
  BY DEF Replies!Bits, Replies!Bit, Replies!Octets, Replies!Const
<1>2. /\ DOMAIN Replies!event_status \subseteq DOMAIN Replies!DAB_event_status
      /\ \A f \in DOMAIN Replies!DAB_event_status :
           Replies!DAB_event_status[f] \in Nat
  BY DEF Replies!DAB_event_status
<1>3. \A f \in DOMAIN Replies!event_status :
        Bitcount(Replies!event_status[f]) <= Replies!DAB_event_status[f]
  BY FieldCounts, ConstCount DEF Replies!DAB_event_status
<1>4. Disjoint(Replies!event_status)
  BY DEF Disjoint, Replies!Bits, Replies!Bit, Replies!Octets, Replies!Const
<1> QED
  BY <1>1, <1>2, <1>3, <1>4 DEF Fits

LEMMA AudioInfoFits ==
  /\ Fits(Replies!audio_info, Replies!DAB_audio_info, 6)
  /\ Disjoint(Replies!audio_info)
<1> USE DEF Replies!audio_info
<1>1. \A f \in DOMAIN Replies!audio_info :
        Replies!audio_info[f] \subseteq 0 .. (8 * 6) - 1
  BY DEF Replies!Bits, Replies!Bit, Replies!Octets, Replies!Const
<1>2. /\ DOMAIN Replies!audio_info \subseteq DOMAIN Replies!DAB_audio_info
      /\ \A f \in DOMAIN Replies!DAB_audio_info :
           Replies!DAB_audio_info[f] \in Nat
  BY DEF Replies!DAB_audio_info
<1>3. \A f \in DOMAIN Replies!audio_info :
        Bitcount(Replies!audio_info[f]) <= Replies!DAB_audio_info[f]
  BY FieldCounts, ConstCount DEF Replies!DAB_audio_info
<1>4. Disjoint(Replies!audio_info)
  BY DEF Disjoint, Replies!Bits, Replies!Bit, Replies!Octets, Replies!Const
<1> QED
  BY <1>1, <1>2, <1>3, <1>4 DEF Fits

LEMMA RsqStatusFits ==
  /\ Fits(Replies!rsq_status, Replies!FM_rsq_status, 17)
  /\ Disjoint(Replies!rsq_status)
<1> USE DEF Replies!rsq_status
<1>1. \A f \in DOMAIN Replies!rsq_status :
        Replies!rsq_status[f] \subseteq 0 .. (8 * 17) - 1
  BY DEF Replies!Bits, Replies!Bit, Replies!Octets, Replies!Const
<1>2. /\ DOMAIN Replies!rsq_status \subseteq DOMAIN Replies!FM_rsq_status
      /\ \A f \in DOMAIN Replies!FM_rsq_status :
           Replies!FM_rsq_status[f] \in Nat
  BY DEF Replies!FM_rsq_status
<1>3. \A f \in DOMAIN Replies!rsq_status :
        Bitcount(Replies!rsq_status[f]) <= Replies!FM_rsq_status[f]
  BY FieldCounts, ConstCount DEF Replies!FM_rsq_status
<1>4. Disjoint(Replies!rsq_status)
  BY DEF Disjoint, Replies!Bits, Replies!Bit, Replies!Octets, Replies!Const
<1> QED
  BY <1>1, <1>2, <1>3, <1>4 DEF Fits

LEMMA RdsStatusFits ==
  /\ Fits(Replies!rds_status, Replies!FM_rds_status, 16)
  /\ Disjoint(Replies!rds_status)
<1> USE DEF Replies!rds_status
<1>1. \A f \in DOMAIN Replies!rds_status :
        Replies!rds_status[f] \subseteq 0 .. (8 * 16) - 1
  BY DEF Replies!Bits, Replies!Bit, Replies!Octets, Replies!Const
<1>2. /\ DOMAIN Replies!rds_status \subseteq DOMAIN Replies!FM_rds_status
      /\ \A f \in DOMAIN Replies!FM_rds_status :
           Replies!FM_rds_status[f] \in Nat
  BY DEF Replies!FM_rds_status
<1>3. \A f \in DOMAIN Replies!rds_status :
        Bitcount(Replies!rds_status[f]) <= Replies!FM_rds_status[f]
  BY FieldCounts, ConstCount DEF Replies!FM_rds_status
<1>4. Disjoint(Replies!rds_status)
  BY DEF Disjoint, Replies!Bits, Replies!Bit, Replies!Octets, Replies!Const
<1> QED
  BY <1>1, <1>2, <1>3, <1>4 DEF Fits

LEMMA RdsBlockcountFits ==
  /\ Fits(Replies!rds_blockcount, Replies!FM_rds_blockcount, 6)
  /\ Disjoint(Replies!rds_blockcount)
<1> USE DEF Replies!rds_blockcount
<1>1. \A f \in DOMAIN Replies!rds_blockcount :
        Replies!rds_blockcount[f] \subseteq 0 .. (8 * 6) - 1
  BY DEF Replies!Bits, Replies!Bit, Replies!Octets, Replies!Const
<1>2. /\ DOMAIN Replies!rds_blockcount \subseteq
           DOMAIN Replies!FM_rds_blockcount
      /\ \A f \in DOMAIN Replies!FM_rds_blockcount :
           Replies!FM_rds_blockcount[f] \in Nat
  BY DEF Replies!FM_rds_blockcount
<1>3. \A f \in DOMAIN Replies!rds_blockcount :
        Bitcount(Replies!rds_blockcount[f]) <= Replies!FM_rds_blockcount[f]
  BY FieldCounts, ConstCount DEF Replies!FM_rds_blockcount
<1>4. Disjoint(Replies!rds_blockcount)
  BY DEF Disjoint, Replies!Bits, Replies!Bit, Replies!Octets, Replies!Const
<1> QED
  BY <1>1, <1>2, <1>3, <1>4 DEF Fits

LEMMA PartInfoFits ==
  /\ Fits(Replies!part_info, Replies!info, 19)
  /\ Disjoint(Replies!part_info)
<1> USE DEF Replies!part_info
<1>1. \A f \in DOMAIN Replies!part_info :
        Replies!part_info[f] \subseteq 0 .. (8 * 19) - 1
  BY DEF Replies!Bits, Replies!Bit, Replies!Octets, Replies!Const
<1>2. /\ DOMAIN Replies!part_info \subseteq DOMAIN Replies!info
      /\ \A f \in DOMAIN Replies!info : Replies!info[f] \in Nat
  BY DEF Replies!info
<1>3. \A f \in DOMAIN Replies!part_info :
        Bitcount(Replies!part_info[f]) <= Replies!info[f]
  BY FieldCounts, ConstCount DEF Replies!info
<1>4. Disjoint(Replies!part_info)
  BY DEF Disjoint, Replies!Bits, Replies!Bit, Replies!Octets, Replies!Const
<1> QED
  BY <1>1, <1>2, <1>3, <1>4 DEF Fits

-----------------------------------------------------------------------------
(* The replies: what each command does with its structure. *)

\* Command c, called by its name: its fields are laid out well, and what it
\* prints is assigned and checked, or listed as an exception.
Described(c, name) ==
  /\ Fits(c.decode, c.fields, c.size) /\ Disjoint(c.decode) /\ c.size \in Nat
  /\ c.shows \subseteq DOMAIN c.fields
  /\ \A f \in c.shows :
       f \in DOMAIN c.decode \/ f \in {"tune_offet", "label_16"}
  /\ (c.checked /\ c.heeds) \/ name \in Replies!Unchecked

LEMMA CommandsDescribed ==
  \A name \in DOMAIN Replies!Commands :
    Described(Replies!Commands[name], name)
<1> SUFFICES ASSUME NEW name \in DOMAIN Replies!Commands
             PROVE  Described(Replies!Commands[name], name)
  OBVIOUS
<1>1. CASE name = "dab_digrad_status"
  <2>1. Replies!Commands[name] = Replies!dab_digrad_status
    BY <1>1 DEF Replies!Commands
  <2>2. /\ Replies!dab_digrad_status.decode = Replies!digrad_status
        /\ Replies!dab_digrad_status.fields = Replies!DAB_digrad_status
        /\ Replies!dab_digrad_status.size = 19
    BY DEF Replies!dab_digrad_status, Replies!Cmd
  <2>3. /\ Replies!dab_digrad_status.shows \subseteq
             DOMAIN Replies!DAB_digrad_status
        /\ \A f \in Replies!dab_digrad_status.shows :
             \/ f \in DOMAIN Replies!digrad_status
             \/ f \in {"tune_offet", "label_16"}
        /\ \/ /\ Replies!dab_digrad_status.checked
              /\ Replies!dab_digrad_status.heeds
           \/ name \in Replies!Unchecked
    BY <1>1
    DEF Replies!dab_digrad_status, Replies!Cmd, Replies!digrad_status,
        Replies!DAB_digrad_status, Replies!Unchecked
  <2> QED
    BY <2>1, <2>2, <2>3, DigradStatusFits DEF Described
<1>2. CASE name = "dab_get_ensamble_info"
  <2>1. Replies!Commands[name] = Replies!dab_get_ensamble_info
    BY <1>2 DEF Replies!Commands
  <2>2. /\ Replies!dab_get_ensamble_info.decode = Replies!ensamble_info
        /\ Replies!dab_get_ensamble_info.fields = Replies!DAB_ensamble_info
        /\ Replies!dab_get_ensamble_info.size = 22
    BY DEF Replies!dab_get_ensamble_info, Replies!Cmd
  <2>3. /\ Replies!dab_get_ensamble_info.shows \subseteq
             DOMAIN Replies!DAB_ensamble_info
        /\ \A f \in Replies!dab_get_ensamble_info.shows :
             \/ f \in DOMAIN Replies!ensamble_info
             \/ f \in {"tune_offet", "label_16"}
        /\ \/ /\ Replies!dab_get_ensamble_info.checked
              /\ Replies!dab_get_ensamble_info.heeds
           \/ name \in Replies!Unchecked
    BY <1>2
    DEF Replies!dab_get_ensamble_info, Replies!Cmd, Replies!ensamble_info,
        Replies!DAB_ensamble_info, Replies!Unchecked
  <2> QED
    BY <2>1, <2>2, <2>3, EnsambleInfoFits DEF Described
<1>3. CASE name = "dab_get_time"
  <2>1. Replies!Commands[name] = Replies!dab_get_time
    BY <1>3 DEF Replies!Commands
  <2>2. /\ Replies!dab_get_time.decode = Replies!dab_time
        /\ Replies!dab_get_time.fields = Replies!DAB_time
        /\ Replies!dab_get_time.size = 7
    BY DEF Replies!dab_get_time, Replies!Cmd
  <2>3. /\ Replies!dab_get_time.shows \subseteq DOMAIN Replies!DAB_time
        /\ \A f \in Replies!dab_get_time.shows :
             \/ f \in DOMAIN Replies!dab_time
             \/ f \in {"tune_offet", "label_16"}
        /\ \/ Replies!dab_get_time.checked /\ Replies!dab_get_time.heeds
           \/ name \in Replies!Unchecked
    BY <1>3
    DEF Replies!dab_get_time, Replies!Cmd, Replies!dab_time, Replies!DAB_time,
        Replies!Unchecked
  <2> QED
    BY <2>1, <2>2, <2>3, DabTimeFits DEF Described
<1>4. CASE name = "dab_get_event_status"
  <2>1. Replies!Commands[name] = Replies!dab_get_event_status
    BY <1>4 DEF Replies!Commands
  <2>2. /\ Replies!dab_get_event_status.decode = Replies!event_status
        /\ Replies!dab_get_event_status.fields = Replies!DAB_event_status
        /\ Replies!dab_get_event_status.size = 4
    BY DEF Replies!dab_get_event_status, Replies!Cmd
  <2>3. /\ Replies!dab_get_event_status.shows \subseteq
             DOMAIN Replies!DAB_event_status
        /\ \A f \in Replies!dab_get_event_status.shows :
             \/ f \in DOMAIN Replies!event_status
             \/ f \in {"tune_offet", "label_16"}
        /\ \/ /\ Replies!dab_get_event_status.checked
              /\ Replies!dab_get_event_status.heeds
           \/ name \in Replies!Unchecked
    BY <1>4
    DEF Replies!dab_get_event_status, Replies!Cmd, Replies!event_status,
        Replies!DAB_event_status, Replies!Unchecked
  <2> QED
    BY <2>1, <2>2, <2>3, EventStatusFits DEF Described
<1>5. CASE name = "dab_get_audio_info"
  <2>1. Replies!Commands[name] = Replies!dab_get_audio_info
    BY <1>5 DEF Replies!Commands
  <2>2. /\ Replies!dab_get_audio_info.decode = Replies!audio_info
        /\ Replies!dab_get_audio_info.fields = Replies!DAB_audio_info
        /\ Replies!dab_get_audio_info.size = 6
    BY DEF Replies!dab_get_audio_info, Replies!Cmd
  <2>3. /\ Replies!dab_get_audio_info.shows \subseteq
             DOMAIN Replies!DAB_audio_info
        /\ \A f \in Replies!dab_get_audio_info.shows :
             \/ f \in DOMAIN Replies!audio_info
             \/ f \in {"tune_offet", "label_16"}
        /\ \/ /\ Replies!dab_get_audio_info.checked
              /\ Replies!dab_get_audio_info.heeds
           \/ name \in Replies!Unchecked
    BY <1>5
    DEF Replies!dab_get_audio_info, Replies!Cmd, Replies!audio_info,
        Replies!DAB_audio_info, Replies!Unchecked
  <2> QED
    BY <2>1, <2>2, <2>3, AudioInfoFits DEF Described
<1>6. CASE name = "fm_rsq_status"
  <2>1. Replies!Commands[name] = Replies!fm_rsq_status
    BY <1>6 DEF Replies!Commands
  <2>2. /\ Replies!fm_rsq_status.decode = Replies!rsq_status
        /\ Replies!fm_rsq_status.fields = Replies!FM_rsq_status
        /\ Replies!fm_rsq_status.size = 17
    BY DEF Replies!fm_rsq_status, Replies!Cmd
  <2>3. /\ Replies!fm_rsq_status.shows \subseteq DOMAIN Replies!FM_rsq_status
        /\ \A f \in Replies!fm_rsq_status.shows :
             \/ f \in DOMAIN Replies!rsq_status
             \/ f \in {"tune_offet", "label_16"}
        /\ \/ Replies!fm_rsq_status.checked /\ Replies!fm_rsq_status.heeds
           \/ name \in Replies!Unchecked
    BY <1>6
    DEF Replies!fm_rsq_status, Replies!Cmd, Replies!rsq_status,
        Replies!FM_rsq_status, Replies!Unchecked
  <2> QED
    BY <2>1, <2>2, <2>3, RsqStatusFits DEF Described
<1>7. CASE name = "fm_rds_status"
  <2>1. Replies!Commands[name] = Replies!fm_rds_status
    BY <1>7 DEF Replies!Commands
  <2>2. /\ Replies!fm_rds_status.decode = Replies!rds_status
        /\ Replies!fm_rds_status.fields = Replies!FM_rds_status
        /\ Replies!fm_rds_status.size = 16
    BY DEF Replies!fm_rds_status, Replies!Cmd
  <2>3. /\ Replies!fm_rds_status.shows \subseteq DOMAIN Replies!FM_rds_status
        /\ \A f \in Replies!fm_rds_status.shows :
             \/ f \in DOMAIN Replies!rds_status
             \/ f \in {"tune_offet", "label_16"}
        /\ \/ Replies!fm_rds_status.checked /\ Replies!fm_rds_status.heeds
           \/ name \in Replies!Unchecked
    BY <1>7
    DEF Replies!fm_rds_status, Replies!Cmd, Replies!rds_status,
        Replies!FM_rds_status, Replies!Unchecked
  <2> QED
    BY <2>1, <2>2, <2>3, RdsStatusFits DEF Described
<1>8. CASE name = "fm_rds_blockcount"
  <2>1. Replies!Commands[name] = Replies!fm_rds_blockcount
    BY <1>8 DEF Replies!Commands
  <2>2. /\ Replies!fm_rds_blockcount.decode = Replies!rds_blockcount
        /\ Replies!fm_rds_blockcount.fields = Replies!FM_rds_blockcount
        /\ Replies!fm_rds_blockcount.size = 6
    BY DEF Replies!fm_rds_blockcount, Replies!Cmd
  <2>3. /\ Replies!fm_rds_blockcount.shows \subseteq
             DOMAIN Replies!FM_rds_blockcount
        /\ \A f \in Replies!fm_rds_blockcount.shows :
             \/ f \in DOMAIN Replies!rds_blockcount
             \/ f \in {"tune_offet", "label_16"}
        /\ \/ /\ Replies!fm_rds_blockcount.checked
              /\ Replies!fm_rds_blockcount.heeds
           \/ name \in Replies!Unchecked
    BY <1>8
    DEF Replies!fm_rds_blockcount, Replies!Cmd, Replies!rds_blockcount,
        Replies!FM_rds_blockcount, Replies!Unchecked
  <2> QED
    BY <2>1, <2>2, <2>3, RdsBlockcountFits DEF Described
<1>9. CASE name = "tuner_get_part_info"
  <2>1. Replies!Commands[name] = Replies!tuner_get_part_info
    BY <1>9 DEF Replies!Commands
  <2>2. /\ Replies!tuner_get_part_info.decode = Replies!part_info
        /\ Replies!tuner_get_part_info.fields = Replies!info
        /\ Replies!tuner_get_part_info.size = 19
    BY DEF Replies!tuner_get_part_info, Replies!Cmd
  <2>3. /\ Replies!tuner_get_part_info.shows \subseteq DOMAIN Replies!info
        /\ \A f \in Replies!tuner_get_part_info.shows :
             \/ f \in DOMAIN Replies!part_info
             \/ f \in {"tune_offet", "label_16"}
        /\ \/ /\ Replies!tuner_get_part_info.checked
              /\ Replies!tuner_get_part_info.heeds
           \/ name \in Replies!Unchecked
    BY <1>9
    DEF Replies!tuner_get_part_info, Replies!Cmd, Replies!part_info,
        Replies!info, Replies!Unchecked
  <2> QED
    BY <2>1, <2>2, <2>3, PartInfoFits DEF Described
<1> QED
  BY <1>1, <1>2, <1>3, <1>4, <1>5, <1>6, <1>7, <1>8, <1>9
  DEF Replies!Commands

-----------------------------------------------------------------------------
(* The replies: the inductive invariant of TunerReplies. *)

LEMMA RepliesInit == Replies!Init => Replies!IInv
<1> SUFFICES ASSUME Replies!Init PROVE Replies!IInv
  OBVIOUS
<1>1. /\ cmd = "dab_get_time" /\ cmd \in DOMAIN Replies!Commands
      /\ Replies!C = Replies!dab_get_time
      /\ Replies!dab_get_time.fields = Replies!DAB_time
  BY DEF Replies!Init, Replies!C, Replies!Commands, Replies!dab_get_time,
         Replies!Cmd
<1>2. Replies!TypeOK /\ Replies!StackOrDecoded
  BY <1>1 DEF Replies!Init, Replies!TypeOK, Replies!StackOrDecoded,
              Replies!Stack, Replies!Value
<1>3. /\ Replies!Owned /\ Replies!DecodedBeforePrint
      /\ Replies!PrintedAtEnd /\ Replies!ShownWasAnswered
  BY DEF Replies!Init, Replies!Owned, Replies!DecodedBeforePrint,
         Replies!PrintedAtEnd, Replies!ShownWasAnswered
<1> QED
  BY <1>2, <1>3 DEF Replies!IInv

\* A command starts with a structure of its own on the stack.
LEMMA CallStep ==
  ASSUME Replies!IInv, NEW c \in DOMAIN Replies!Commands, Replies!Call(c)
  PROVE  Replies!IInv'
<1>1. /\ at' = "send" /\ cmd' = c /\ suspect' = {}
      /\ exec' \in {"none", "older"} /\ holds' = "older"
      /\ fields' = [f \in DOMAIN Replies!Commands[c].fields |-> Replies!Stack]
      /\ ret' = "ok" /\ screen' = << >>
  BY DEF Replies!Call
<1>2. Replies!C' = Replies!Commands[c]
  BY <1>1 DEF Replies!C
<1>3. Replies!TypeOK' /\ Replies!StackOrDecoded'
  BY <1>1, <1>2 DEF Replies!TypeOK, Replies!StackOrDecoded, Replies!Stack,
                    Replies!Value
<1>4. /\ Replies!Owned' /\ Replies!DecodedBeforePrint'
      /\ Replies!PrintedAtEnd' /\ Replies!ShownWasAnswered'
  BY <1>1
  DEF Replies!Owned, Replies!DecodedBeforePrint, Replies!PrintedAtEnd,
      Replies!ShownWasAnswered
<1> QED
  BY <1>3, <1>4 DEF Replies!IInv

\* A step that leaves the command, its structure and the screen alone keeps
\* what the invariant says of these three.
LEMMA Untouched ==
  ASSUME Replies!IInv, UNCHANGED <<cmd, fields, screen>>,
         at' \in {"idle", "send", "wait", "read", "print"},
         ret' \in {"ok", "err"},
         suspect' \subseteq {"lost", "busy", "blind", "unread"},
         exec' \in {"none", "own", "older"}, holds' \in {"reply", "older"}
  PROVE  Replies!TypeOK' /\ Replies!StackOrDecoded' /\ Replies!C' = Replies!C
<1>1. Replies!C' = Replies!C
  BY DEF Replies!C
<1> QED
  BY <1>1 DEF Replies!IInv, Replies!TypeOK, Replies!StackOrDecoded

\* The command is sent, to an idle tuner or a busy one, or is lost.
LEMMA SendStep ==
  ASSUME Replies!IInv, Replies!Send
  PROVE  Replies!IInv'
<1>1. /\ at = "send" /\ at' = "wait" /\ screen = << >> /\ suspect = {}
      /\ UNCHANGED <<cmd, fields, ret, screen, holds>>
  BY DEF Replies!Send, Replies!IInv, Replies!PrintedAtEnd, Replies!Owned
<1>2. \/ exec' = "own" /\ suspect' \in {{}, {"busy"}}
      \/ exec' = exec /\ suspect' = {"busy"}
      \/ exec' = exec /\ suspect' = {"lost"} /\ ~Replies!C.checked
  BY <1>1 DEF Replies!Send, Replies!Fault
<1>3. Replies!TypeOK' /\ Replies!StackOrDecoded' /\ Replies!C' = Replies!C
  <2>1. /\ exec' \in {"none", "own", "older"}
        /\ suspect' \subseteq {"lost", "busy", "blind", "unread"}
        /\ ret' \in {"ok", "err"} /\ holds' \in {"reply", "older"}
    BY <1>1, <1>2 DEF Replies!IInv, Replies!TypeOK
  <2> QED
    BY <1>1, <2>1, Untouched
<1>4. Replies!Owned'
  BY <1>1, <1>2, <1>3 DEF Replies!Owned
<1>5. /\ Replies!DecodedBeforePrint' /\ Replies!PrintedAtEnd'
      /\ Replies!ShownWasAnswered'
  BY <1>1
  DEF Replies!DecodedBeforePrint, Replies!PrintedAtEnd,
      Replies!ShownWasAnswered
<1> QED
  BY <1>3, <1>4, <1>5 DEF Replies!IInv

\* The wait ends on a CTS of the tuner, or on one that nobody sent.
LEMMA WaitStep ==
  ASSUME Replies!IInv, Replies!Wait \/ Replies!WaitBlind
  PROVE  Replies!IInv'
<1>1. /\ at = "wait" /\ at' = "read" /\ screen = << >>
      /\ UNCHANGED <<cmd, fields, ret, screen, exec, holds>>
      /\ \/ exec = "none" /\ suspect' = suspect
         \/ suspect' = suspect \union {"blind"}
  BY DEF Replies!Wait, Replies!WaitBlind, Replies!Fault, Replies!IInv,
         Replies!PrintedAtEnd
<1>2. Replies!TypeOK' /\ Replies!StackOrDecoded' /\ Replies!C' = Replies!C
  <2>1. /\ suspect' \subseteq {"lost", "busy", "blind", "unread"}
        /\ exec' \in {"none", "own", "older"} /\ holds' \in {"reply", "older"}
        /\ ret' \in {"ok", "err"}
    BY <1>1 DEF Replies!IInv, Replies!TypeOK
  <2> QED
    BY <1>1, <2>1, Untouched
<1>3. Replies!Owned'
  BY <1>1, <1>2 DEF Replies!IInv, Replies!Owned
<1>4. /\ Replies!DecodedBeforePrint' /\ Replies!PrintedAtEnd'
      /\ Replies!ShownWasAnswered'
  BY <1>1
  DEF Replies!DecodedBeforePrint, Replies!PrintedAtEnd,
      Replies!ShownWasAnswered
<1> QED
  BY <1>2, <1>3, <1>4 DEF Replies!IInv

\* The library gives up, and returns an error.
LEMMA FailStep ==
  ASSUME Replies!IInv,
         Replies!SendFails \/ Replies!WaitFails \/ Replies!ReadFails
  PROVE  Replies!IInv'
<1>1. /\ at # "idle" /\ at' = "print" /\ ret' = "err" /\ screen = << >>
      /\ UNCHANGED <<cmd, fields, screen, exec, holds>> /\ suspect' = suspect
  BY DEF Replies!SendFails, Replies!WaitFails, Replies!ReadFails,
         Replies!Fail, Replies!Fault, Replies!IInv, Replies!PrintedAtEnd
<1>2. Replies!TypeOK' /\ Replies!StackOrDecoded' /\ Replies!C' = Replies!C
  <2>1. /\ suspect' \subseteq {"lost", "busy", "blind", "unread"}
        /\ exec' \in {"none", "own", "older"} /\ holds' \in {"reply", "older"}
    BY <1>1 DEF Replies!IInv, Replies!TypeOK
  <2> QED
    BY <1>1, <2>1, Untouched
<1>3. Replies!Owned'
  BY <1>1, <1>2 DEF Replies!IInv, Replies!Owned
<1>4. /\ Replies!DecodedBeforePrint' /\ Replies!PrintedAtEnd'
      /\ Replies!ShownWasAnswered'
  BY <1>1
  DEF Replies!DecodedBeforePrint, Replies!PrintedAtEnd,
      Replies!ShownWasAnswered
<1> QED
  BY <1>2, <1>3, <1>4 DEF Replies!IInv

\* The tuner is done, before, during or after the wait of the command.
LEMMA FinishStep ==
  ASSUME Replies!IInv, Replies!ChipFinish
  PROVE  Replies!IInv'
<1>1. /\ exec # "none" /\ exec' = "none"
      /\ holds' = IF exec = "own" THEN "reply" ELSE "older"
      /\ UNCHANGED <<at, cmd, fields, ret, screen, suspect>>
  BY DEF Replies!ChipFinish
<1>2. Replies!TypeOK' /\ Replies!StackOrDecoded' /\ Replies!C' = Replies!C
  <2>1. /\ at' \in {"idle", "send", "wait", "read", "print"}
        /\ ret' \in {"ok", "err"} /\ holds' \in {"reply", "older"}
        /\ suspect' \subseteq {"lost", "busy", "blind", "unread"}
    BY <1>1 DEF Replies!IInv, Replies!TypeOK
  <2> QED
    BY <1>1, <2>1, Untouched
<1>3. Replies!Owned'
  BY <1>1, <1>2 DEF Replies!IInv, Replies!Owned
<1>4. /\ Replies!DecodedBeforePrint' /\ Replies!PrintedAtEnd'
      /\ Replies!ShownWasAnswered'
  BY <1>1, <1>2
  DEF Replies!IInv, Replies!DecodedBeforePrint, Replies!PrintedAtEnd,
      Replies!ShownWasAnswered, Replies!Excused
<1> QED
  BY <1>2, <1>3, <1>4 DEF Replies!IInv

\* The reply is decoded, whatever is in the buffer, or nothing is.
LEMMA DecodeStep ==
  ASSUME Replies!IInv, Replies!Read
  PROVE  Replies!IInv'
<1>1. /\ at = "read" /\ at' = "print"
      /\ UNCHANGED <<cmd, ret, screen, exec, holds>> /\ screen = << >>
      /\ \/ suspect' = suspect
         \/ suspect' = suspect \union {"unread"} /\ ~Replies!C.checked
      /\ suspect' \subseteq {"lost", "busy", "blind", "unread"}
  BY DEF Replies!IInv, Replies!TypeOK, Replies!PrintedAtEnd, Replies!Read,
         Replies!Fault
<1>2. Replies!C' = Replies!C
  BY <1>1 DEF Replies!C
<1>3. Replies!Owned'
  BY <1>1, <1>2 DEF Replies!IInv, Replies!Owned
<1>4. Replies!PrintedAtEnd' /\ Replies!ShownWasAnswered'
  BY <1>1 DEF Replies!PrintedAtEnd, Replies!ShownWasAnswered
<1>5. DOMAIN Replies!C.decode \subseteq DOMAIN fields
  BY CommandsDescribed DEF Described, Fits, Replies!C, Replies!IInv,
     Replies!TypeOK
\* The status said that there is nothing to decode.
<1>6. CASE UNCHANGED fields /\ cmd = "tuner_get_part_info" /\ exec # "none"
  <2>1. Replies!TypeOK' /\ Replies!StackOrDecoded'
    BY <1>1, <1>2, <1>6
    DEF Replies!IInv, Replies!TypeOK, Replies!StackOrDecoded
  <2>2. "blind" \in suspect' /\ ~Replies!C'.checked
    <3>1. Replies!C = Replies!tuner_get_part_info
      BY <1>6 DEF Replies!C, Replies!Commands
    <3>2. ~Replies!C.checked
      BY <3>1 DEF Replies!tuner_get_part_info, Replies!Cmd
    <3>3. "blind" \in suspect
      BY <1>1, <1>6 DEF Replies!IInv, Replies!Owned
    <3> QED
      BY <1>1, <1>2, <3>2, <3>3
  <2>3. Replies!DecodedBeforePrint'
    BY <2>2 DEF Replies!DecodedBeforePrint
  <2> QED
    BY <1>3, <1>4, <2>1, <2>3 DEF Replies!IInv
<1>7. CASE \E from \in {"stack", "reply", "older", "junk"} :
             /\ Replies!Decode(from)
             /\ Replies!Excused(from)' \/ (suspect' # {} /\ ~Replies!C.checked)
  <2>1. PICK from \in {"stack", "reply", "older", "junk"} :
          /\ fields' = [f \in DOMAIN fields |->
               IF f \in DOMAIN Replies!C.decode
               THEN Replies!Value(from, Replies!C.decode[f]) ELSE fields[f]]
          /\ Replies!Excused(from)' \/ (suspect' # {} /\ ~Replies!C.checked)
    BY <1>7 DEF Replies!Decode
  <2>2. DOMAIN fields' = DOMAIN fields
    BY <2>1
  <2>3. \A f \in DOMAIN fields' :
          IF f \in DOMAIN Replies!C.decode
          THEN fields'[f].from = from /\ fields'[f].bits = Replies!C.decode[f]
          ELSE fields'[f] = fields[f]
    BY <2>1 DEF Replies!Value
  <2>4. Replies!TypeOK' /\ Replies!StackOrDecoded'
    BY <1>1, <1>2, <2>2, <2>3
    DEF Replies!IInv, Replies!TypeOK, Replies!StackOrDecoded
  <2>5. Replies!DecodedBeforePrint'
    BY <1>2, <1>5, <2>1, <2>2, <2>3
    DEF Replies!DecodedBeforePrint, Replies!Excused
  <2> QED
    BY <1>3, <1>4, <2>4, <2>5 DEF Replies!IInv
\* Whose reply it is follows from Owned.
<1>8. ASSUME Replies!Decode(IF exec = "none" THEN holds ELSE "junk"),
             suspect' = suspect
      PROVE  \E from \in {"stack", "reply", "older", "junk"} :
               /\ Replies!Decode(from)
               /\ \/ Replies!Excused(from)'
                  \/ suspect' # {} /\ ~Replies!C.checked
  <2> DEFINE from == IF exec = "none" THEN holds ELSE "junk"
  <2>1. from \in {"reply", "older", "junk"}
    BY DEF Replies!IInv, Replies!TypeOK
  <2>2. Replies!Excused(from) \/ (suspect # {} /\ ~Replies!C.checked)
    BY <1>1 DEF Replies!IInv, Replies!TypeOK, Replies!Owned, Replies!Excused
  <2>3. Replies!Excused(from)' \/ (suspect' # {} /\ ~Replies!C.checked)
    BY <1>1, <1>8, <2>2 DEF Replies!Excused
  <2>4. Replies!Decode(from)
    BY <1>8
  <2>5. from' = from
    BY <1>1
  <2> QED
    BY <2>1, <2>3, <2>4, <2>5 DEF Replies!Excused
<1>9. ASSUME Replies!Decode("stack"), ~Replies!C.checked,
             Replies!Fault({"unread"})
      PROVE  \E from \in {"stack", "reply", "older", "junk"} :
               /\ Replies!Decode(from)
               /\ \/ Replies!Excused(from)'
                  \/ suspect' # {} /\ ~Replies!C.checked
  BY <1>9 DEF Replies!Fault
<1> QED
  BY <1>6, <1>7, <1>8, <1>9 DEF Replies!Read

\* What is printed had been decoded, or the command is one of the unchecked.
LEMMA ShowStep ==
  ASSUME Replies!IInv, Replies!Show
  PROVE  Replies!IInv'
<1>1. /\ at = "print" /\ at' = "idle"
      /\ screen' = IF ret = "err" /\ Replies!C.heeds THEN << >>
                   ELSE [f \in Replies!C.shows |-> fields[f]]
      /\ UNCHANGED <<cmd, fields, ret, faults, suspect, exec, holds>>
  BY DEF Replies!Show
<1>2. Replies!C' = Replies!C
  BY <1>1 DEF Replies!C
<1>3. Replies!TypeOK' /\ Replies!StackOrDecoded'
  BY <1>1, <1>2 DEF Replies!IInv, Replies!TypeOK, Replies!StackOrDecoded
<1>4. Replies!Owned' /\ Replies!DecodedBeforePrint' /\ Replies!PrintedAtEnd'
  BY <1>1, <1>2
  DEF Replies!IInv, Replies!Owned, Replies!DecodedBeforePrint,
      Replies!PrintedAtEnd
<1>5. Replies!ShownWasAnswered'
  <2>1. CASE ret = "err" /\ Replies!C.heeds
    BY <1>1, <2>1 DEF Replies!ShownWasAnswered
  <2>2. CASE ~ (ret = "err" /\ Replies!C.heeds)
    <3>1. screen' = [f \in Replies!C.shows |-> fields[f]]
      BY <1>1, <2>2
    <3>2. Described(Replies!C, cmd)
      BY CommandsDescribed DEF Replies!C, Replies!IInv, Replies!TypeOK
    <3>3. \/ \A f \in DOMAIN Replies!C.decode :
               Replies!Excused(fields[f].from)
          \/ (suspect # {} \/ ret = "err") /\ cmd \in Replies!Unchecked
      BY <1>1, <2>2, <3>2
      DEF Replies!IInv, Replies!DecodedBeforePrint, Described
    <3>4. \A f \in Replies!C.shows :
            f \in DOMAIN Replies!C.decode \/ f \in {"tune_offet", "label_16"}
      BY <3>2 DEF Described
    <3> QED
      BY <1>1, <3>1, <3>3, <3>4
      DEF Replies!ShownWasAnswered, Replies!Excused
  <2> QED
    BY <2>1, <2>2
<1> QED
  BY <1>3, <1>4, <1>5 DEF Replies!IInv

\* The inductive invariant of TunerReplies holds in every state, whatever
\* calls of the bus fail on the way of a reply, whatever the tuner was doing
\* before and whenever it is done.
THEOREM RepliesInductive == Replies!Spec => []Replies!IInv
<1>1. Replies!IInv /\ [Replies!Next]_(Replies!vars) => Replies!IInv'
  <2> SUFFICES ASSUME Replies!IInv, [Replies!Next]_(Replies!vars)
               PROVE  Replies!IInv'
    OBVIOUS
  <2>1. CASE Replies!Next
    BY <2>1, CallStep, SendStep, WaitStep, FailStep, DecodeStep, ShowStep,
       FinishStep DEF Replies!Next
  <2>2. CASE UNCHANGED Replies!vars
    BY <2>2
    DEF Replies!vars, Replies!IInv, Replies!TypeOK, Replies!StackOrDecoded,
        Replies!Owned, Replies!DecodedBeforePrint, Replies!PrintedAtEnd,
        Replies!ShownWasAnswered, Replies!Excused, Replies!C
  <2> QED
    BY <2>1, <2>2
<1> QED
  BY <1>1, RepliesInit, PTL DEF Replies!Spec

\* Where a field holds bits of a reply, they are its own.
LEMMA BitsAreOwn == Replies!IInv => EachBitOnce
<1> SUFFICES ASSUME Replies!IInv PROVE EachBitOnce
  OBVIOUS
<1> DEFINE c == Replies!C
<1>1. Described(c, cmd)
  BY CommandsDescribed DEF Replies!C, Replies!IInv, Replies!TypeOK
<1>2. DOMAIN fields = DOMAIN c.fields
  BY DEF Replies!IInv, Replies!TypeOK
<1>3. \A f \in DOMAIN fields :
        \/ fields[f].bits = {}
        \/ f \in DOMAIN c.decode /\ fields[f].bits = c.decode[f]
  BY DEF Replies!IInv, Replies!StackOrDecoded
<1> HIDE DEF c
<1>4. ASSUME NEW f \in DOMAIN fields
      PROVE  /\ fields[f].bits \subseteq 0 .. (8 * c.size) - 1
             /\ Bitcount(fields[f].bits) <= c.fields[f]
  <2>1. CASE fields[f].bits = {}
    <3>1. Bitcount({}) = 0 /\ c.fields[f] \in Nat
      BY <1>1, <1>2, ConstCount DEF Described, Fits, Replies!Const
    <3> QED
      BY <2>1, <3>1
  <2>2. CASE f \in DOMAIN c.decode /\ fields[f].bits = c.decode[f]
    BY <1>1, <2>2 DEF Described, Fits
  <2> QED
    BY <1>3, <2>1, <2>2
<1>5. ASSUME NEW f \in DOMAIN fields, NEW g \in DOMAIN fields
      PROVE  fields[f].bits \intersect fields[g].bits # {} =>
               f = g \/ {f, g} = {"pi", "rdsfifoused"}
  <2>1. CASE fields[f].bits = {} \/ fields[g].bits = {}
    BY <2>1
  <2>2. CASE /\ f \in DOMAIN c.decode /\ fields[f].bits = c.decode[f]
             /\ g \in DOMAIN c.decode /\ fields[g].bits = c.decode[g]
    BY <1>1, <2>2 DEF Described, Disjoint
  <2> QED
    BY <1>3, <2>1, <2>2
<1>6. \A f \in DOMAIN fields :
        /\ fields[f].bits \subseteq 0 .. (8 * Replies!C.size) - 1
        /\ Cardinality(fields[f].bits) <= Replies!C.fields[f]
  BY <1>4 DEF Bitcount, c
<1>7. \A f \in DOMAIN fields : \A g \in DOMAIN fields :
        fields[f].bits \intersect fields[g].bits # {} =>
          f = g \/ {f, g} = {"pi", "rdsfifoused"}
  BY <1>5
<1>8. ASSUME NEW S PROVE Replies!Cardinality(S) = Cardinality(S)
  BY DEF Replies!Cardinality, Cardinality
<1>9. Replies!EachBitOnce
  BY <1>6, <1>7, <1>8 DEF Replies!EachBitOnce
<1> QED
  BY <1>9 DEF EachBitOnce

-----------------------------------------------------------------------------
(* The three together. *)

\* The inductive invariant of TunerValues holds in every state, whatever is
\* typed and whatever the lists and the widths of the tuner are.
THEOREM ValuesInductive == Spec => []IInv
BY ValuesInit, ValuesNext, PTL DEF Spec

\* A step of one part leaves the state of the other two alone.
LEMMA OneAtATime ==
  [DataNext]_<<part, vars, events, replies>> =>
    /\ [Next]_vars
    /\ [Events!Next]_(Events!vars)
    /\ [Replies!Next]_(Replies!vars)
<1> SUFFICES ASSUME [DataNext]_<<part, vars, events, replies>>
             PROVE  /\ Next \/ vars' = vars
                    /\ Events!Next \/ events' = events
                    /\ Replies!Next \/ replies' = replies
  BY DEF events, replies, Events!vars, Replies!vars
<1>1. CASE Numbers
  BY <1>1 DEF Numbers
<1>2. CASE Latching
  BY <1>2 DEF Latching
<1>3. CASE Printing
  BY <1>3 DEF Printing
<1> QED
  BY <1>1, <1>2, <1>3 DEF DataNext

\* The composition leaves each of the three to its own steps.
LEMMA DataImplementsParts ==
  DataSpec => Spec /\ Events!Spec /\ Replies!Spec
<1>1. DataInit => Init /\ Events!Init /\ Replies!Init
  BY DEF DataInit
<1> QED
  BY <1>1, OneAtATime, PTL DEF DataSpec, Spec, Events!Spec, Replies!Spec

\* The invariants of shell_cmds.c's three sides hold together.
THEOREM DataInductive == DataSpec => []DataInv
BY DataImplementsParts, ValuesInductive, EventsInductive, RepliesInductive,
   PTL DEF DataInv

\* A number taken from the list tunes to the frequency printed next to it.
THEOREM TunedAsListedHolds == DataSpec => []TunedAsListed
<1>1. DataInv => TunedAsListed
  BY DEF DataInv, IInv
<1> QED
  BY <1>1, DataInductive, PTL

\* What was set is read back, but for the bits that the packing loses and for
\* the properties that the tuner does not have.
THEOREM ReadBackAsSetHolds == DataSpec => []ReadBackAsSet
<1>1. DataInv => ReadBackAsSet
  BY DEF DataInv, IInv
<1> QED
  BY <1>1, DataInductive, PTL

\* dab_start_digital_service starts the service that was meant or number 0.
THEOREM StartedOrZeroHolds == DataSpec => []StartedOrZero
<1>1. DataInv => StartedOrZero
  BY DEF DataInv, IInv
<1> QED
  BY <1>1, DataInductive, PTL

\* Every field of a reply is made of bits of its own, that exist and fit.
THEOREM EachBitOnceHolds == DataSpec => []EachBitOnce
<1>1. DataInv => EachBitOnce
  BY BitsAreOwn DEF DataInv
<1> QED
  BY <1>1, DataInductive, PTL

\* What is printed was answered to this command.  The exceptions are two
\* fields that nobody assigns, a tuner that was still busy, a wait that
\* believed an unread status, and six commands that lack a check.
THEOREM ShownWasAnsweredHolds == DataSpec => []ShownWasAnswered
<1>1. DataInv => ShownWasAnswered
  BY DEF DataInv, Replies!IInv, ShownWasAnswered
<1> QED
  BY <1>1, DataInductive, PTL

\* dab_get_event_status clears no event unseen but the late ones.
THEOREM OnlyLateOnesAreMissedHolds == DataSpec => OnlyLateOnesAreMissed
BY DataImplementsParts, EventsMissedLate, PTL
DEF OnlyLateOnesAreMissed

\* It shows no event twice that was raised once and cleared.
THEOREM ShownOnceHolds == DataSpec => ShownOnce
BY DataImplementsParts, EventsShownOnce, PTL DEF ShownOnce
=============================================================================
