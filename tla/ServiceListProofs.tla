-------------------------- MODULE ServiceListProofs -------------------------
(***************************************************************************)
(* Proofs for ServiceList: what SizeUpto computes for every list, then the *)
(* inductive invariant and the safety properties.                          *)
(***************************************************************************)
EXTENDS ServiceList, FiniteSetTheorems, TLAPS

\* A set of naturals has a least element.  The provers cannot instantiate
\* the induction theorems of the library, but they can this consequence of
\* the well-foundedness of strict inclusion on finite sets.
LEMMA LeastOf ==
  ASSUME NEW T, T \subseteq Nat, T # {}
  PROVE  \E x \in T : \A y \in T : x <= y
<1> DEFINE F == FiniteSubsetsOf(Nat)
           R == StrictSubsetOrdering(Nat)
           U == {0 .. x - 1 : x \in T}
<1>1. IsWellFoundedOn(R, F)
  BY FS_StrictSubsetOrderingWellFounded
<1>2. \A x \in Nat : 0 .. x - 1 \in F
  BY FS_Interval DEF FiniteSubsetsOf
<1>3. U \subseteq F /\ U # {}
  BY <1>2
<1> HIDE DEF F, R, U
<1>4. \E u \in U : \A v \in U : <<v, u>> \notin R
  BY <1>1, <1>3, WFMin
<1>5. PICK x \in T : \A y \in T : <<0 .. y - 1, 0 .. x - 1>> \notin R
  BY <1>4 DEF U
<1>6. ASSUME NEW y \in T, ~ x <= y
      PROVE  FALSE
  <2>1. 0 .. y - 1 \subseteq 0 .. x - 1 /\ y \in (0 .. x - 1) \ (0 .. y - 1)
    BY <1>6
  <2>2. 0 .. y - 1 \in SUBSET Nat /\ 0 .. x - 1 \in SUBSET Nat
    BY <1>6
  <2> QED
    BY <1>5, <2>1, <2>2 DEF R, StrictSubsetOrdering
<1> QED
  BY <1>6

\* The component counts of a list, of any length.
LEMMA CountsType ==
  ASSUME NEW c \in Counts
  PROVE  /\ Len(c) \in 0 .. ByteMax
         /\ c \in [1 .. Len(c) -> 0 .. NumCompMax]
         /\ c \in Seq(Nat)
<1>1. PICK n \in 0 .. ByteMax : c \in [1 .. n -> 0 .. NumCompMax]
  BY DEF Counts
<1>2. n \in Nat /\ NumCompMax \in Nat
  BY <1>1, SizesAssumption
<1>3. c \in Seq(0 .. NumCompMax) /\ Len(c) = n
  BY <1>1, <1>2
<1> QED
  BY <1>1, <1>2, <1>3

\* SizeUpto is defined by recursion: the function exists, so it obeys its
\* equations.
LEMMA SizeUptoDef ==
  ASSUME NEW c \in Counts
  PROVE  /\ SizeUpto(c, 0) = 0
         /\ \A n \in 0 .. Len(c) - 1 :
              SizeUpto(c, n + 1) = SizeUpto(c, n) + ServiceSize + c[n + 1]
<1> DEFINE Def(g, i) == IF i = 0 THEN 0 ELSE g[i - 1] + ServiceSize + c[i]
           Is(g, m) == g = [i \in 0 .. m |-> Def(g, i)]
           T == {m \in 0 .. Len(c) : ~ \E g : Is(g, m)}
<1>1. Len(c) \in Nat
  BY CountsType, SizesAssumption
<1>2. T = {}
  <2> SUFFICES ASSUME T # {} PROVE FALSE
    OBVIOUS
  <2>1. PICK m \in T : \A k \in T : m <= k
    <3>1. T \subseteq Nat
      BY <1>1
    <3> HIDE DEF T
    <3> QED
      BY <3>1, LeastOf
  <2>2. CASE m = 0
    <3> DEFINE h == [i \in 0 .. 0 |-> 0]
    <3>1. Is(h, 0)
      OBVIOUS
    <3> QED
      BY <2>1, <2>2, <3>1
  <2>3. CASE m # 0
    <3>1. m - 1 \in 0 .. Len(c) /\ m - 1 \notin T
      BY <1>1, <2>1, <2>3
    <3>2. PICK g : Is(g, m - 1)
      BY <3>1
    <3> DEFINE h == [i \in 0 .. m |->
                       IF i < m THEN g[i] ELSE g[m - 1] + ServiceSize + c[m]]
    <3>3. m \in Nat /\ m > 0
      BY <1>1, <2>1, <2>3
    <3>4. \A i \in 0 .. m : h[i] = Def(h, i)
      <4> TAKE i \in 0 .. m
      <4>1. CASE i = m
        <5>1. h[i - 1] = g[i - 1]
          BY <3>3, <4>1
        <5> QED
          BY <3>3, <4>1, <5>1
      <4>2. CASE i # m
        <5>1. i \in 0 .. m - 1 /\ h[i] = g[i] /\ (i # 0 => h[i - 1] = g[i - 1])
          BY <3>3, <4>2
        <5>2. g[i] = Def(g, i)
          BY <3>2, <5>1
        <5> QED
          BY <5>1, <5>2
      <4> QED
        BY <4>1, <4>2
    <3>5. Is(h, m)
      BY <3>4
    <3> QED
      BY <2>1, <3>5
  <2> QED
    BY <2>2, <2>3
<1>3. PICK g : Is(g, Len(c))
  BY <1>1, <1>2
<1> DEFINE u == CHOOSE f : f = [i \in 0 .. Len(c) |->
                  IF i = 0 THEN 0 ELSE f[i - 1] + ServiceSize + c[i]]
<1>4. u = [i \in 0 .. Len(c) |->
             IF i = 0 THEN 0 ELSE u[i - 1] + ServiceSize + c[i]]
  BY <1>3
<1>5. \A n \in 0 .. Len(c) : SizeUpto(c, n) = u[n]
  BY DEF SizeUpto
<1> HIDE DEF u
<1>6. u[0] = 0 /\ \A n \in 0 .. Len(c) - 1 :
        u[n + 1] = u[n] + ServiceSize + c[n + 1]
  <2>1. 0 \in 0 .. Len(c) /\ \A n \in 0 .. Len(c) - 1 :
          n + 1 \in 0 .. Len(c) /\ n + 1 # 0 /\ (n + 1) - 1 = n
    BY <1>1
  <2> QED
    BY <1>4, <2>1
<1> QED
  BY <1>1, <1>5, <1>6

\* The sizes are natural numbers and grow by a service at least.
LEMMA SizeUptoNat ==
  ASSUME NEW c \in Counts
  PROVE  \A n \in 0 .. Len(c) : SizeUpto(c, n) \in Nat
<1> DEFINE T == {n \in 0 .. Len(c) : SizeUpto(c, n) \notin Nat}
<1>1. Len(c) \in Nat
  BY CountsType, SizesAssumption
<1> SUFFICES ASSUME T # {} PROVE FALSE
  OBVIOUS
<1>2. PICK n \in T : \A k \in T : n <= k
  <2>1. T \subseteq Nat
    BY <1>1
  <2> HIDE DEF T
  <2> QED
    BY <2>1, LeastOf
<1>3. n # 0
  BY <1>2, SizeUptoDef
<1>4. n - 1 \in 0 .. Len(c) - 1 /\ n - 1 \notin T /\ (n - 1) + 1 = n
  BY <1>1, <1>2, <1>3
<1>5. SizeUpto(c, n) = SizeUpto(c, n - 1) + ServiceSize + c[n]
  BY <1>4, SizeUptoDef
<1>6. SizeUpto(c, n - 1) \in Nat /\ ServiceSize \in Nat /\ c[n] \in Nat
  BY <1>1, <1>2, <1>3, <1>4, CountsType, SizesAssumption
<1> QED
  BY <1>2, <1>5, <1>6

LEMMA SizeUptoGrows ==
  ASSUME NEW c \in Counts, NEW n \in 0 .. Len(c) - 1
  PROVE  SizeUpto(c, n) + ServiceSize <= SizeUpto(c, Len(c))
<1> DEFINE T == {m \in n + 1 .. Len(c) :
                   ~ SizeUpto(c, n) + ServiceSize <= SizeUpto(c, m)}
<1>1. Len(c) \in Nat /\ n \in Nat /\ ServiceSize \in Nat
  BY CountsType, SizesAssumption
<1>2. T = {}
  <2> SUFFICES ASSUME T # {} PROVE FALSE
    OBVIOUS
  <2>1. PICK m \in T : \A k \in T : m <= k
    <3>1. T \subseteq Nat
      BY <1>1
    <3> HIDE DEF T
    <3> QED
      BY <3>1, LeastOf
  <2>2. m - 1 \in 0 .. Len(c) - 1 /\ m \in Nat /\ (m - 1) + 1 = m
    BY <1>1, <2>1
  <2>3. SizeUpto(c, m) = SizeUpto(c, m - 1) + ServiceSize + c[m]
    BY <2>2, SizeUptoDef
  <2>4. c[m] \in Nat /\ {SizeUpto(c, n), SizeUpto(c, m - 1)} \subseteq Nat
    BY <1>1, <2>1, <2>2, CountsType, SizeUptoNat
  <2>5. CASE m = n + 1
    BY <1>1, <2>1, <2>3, <2>4, <2>5
  <2>6. CASE m # n + 1
    <3>1. m - 1 \in n + 1 .. Len(c) /\ m - 1 \notin T
      BY <1>1, <2>1, <2>2, <2>6
    <3>2. SizeUpto(c, n) + ServiceSize <= SizeUpto(c, m - 1)
      BY <3>1
    <3> QED
      BY <1>1, <2>1, <2>3, <2>4, <3>2
  <2> QED
    BY <2>5, <2>6
<1>3. Len(c) \in n + 1 .. Len(c)
  BY <1>1
<1> QED
  BY <1>2, <1>3

\* What is in the block of a list, read or not.
Contents == Lists \union Garbage

LEMMA ContentsType ==
  ASSUME NEW x \in Contents
  PROVE  x.counts \in Counts /\ x.size \in Nat
<1>1. CASE x \in Lists
  <2>1. PICK c \in Counts : x = Listing(c)
    BY <1>1 DEF Lists
  <2>2. Len(c) \in 0 .. Len(c)
    BY CountsType, SizesAssumption
  <2> QED
    BY <2>1, <2>2, SizeUptoNat DEF Listing
<1>2. CASE x \in Garbage
  BY <1>2, SizesAssumption DEF Garbage
<1> QED
  BY <1>1, <1>2 DEF Contents

LEMMA EmptyList ==
  <<>> \in Counts /\ Listing(<<>>) \in Contents /\ SizeUpto(<<>>, 0) = 0
<1>1. <<>> \in Counts
  <2>1. <<>> \in [1 .. 0 -> 0 .. NumCompMax] /\ 0 \in 0 .. ByteMax
    BY SizesAssumption
  <2> QED
    BY <2>1 DEF Counts
<1> QED
  BY <1>1, SizeUptoDef DEF Contents, Lists

-----------------------------------------------------------------------------
\* The numbers of the state, apart from the rest of its type.
LEMMA Numbers ==
  ASSUME TypeOK
  PROVE  /\ next \in Nat \ {0} /\ raw \in 0 .. next - 1
         /\ calls \in Nat
<1>1. next \in Nat /\ raw \in 0 .. next - 1 /\ calls \in 0 .. MaxCalls
  BY DEF TypeOK
<1> QED
  BY <1>1, SizesAssumption

LEMMA InitInvariant == Init => IInv
<1> SUFFICES ASSUME Init PROVE IInv
  OBVIOUS
<1> USE DEF Init
<1>1. TypeOK
  BY EmptyList, SizesAssumption DEF TypeOK, NoList, Contents
<1>2. HeapOwned /\ RawExplained /\ ErrorsAreCaused
  BY DEF HeapOwned, RawExplained, ErrorsAreCaused, InCall
<1>3. Progress
  BY EmptyList DEF Progress, NoList, Listing, InCall
<1> QED
  BY <1>1, <1>2, <1>3 DEF IInv

\* One lemma for the steps of a call that leave the list alone, and one for
\* each that does not.
LEMMA CallInvariant == IInv /\ Call => IInv'
<1> SUFFICES ASSUME IInv, Call PROVE IInv'
  OBVIOUS
<1>1. calls \in 0 .. MaxCalls /\ calls < MaxCalls /\ calls' = calls + 1
  BY DEF IInv, TypeOK, Call
<1>2. calls' \in 0 .. MaxCalls /\ calls' # 0 /\ (calls' = 1 => calls = 0)
  BY <1>1, SizesAssumption
<1>3. /\ filled' \in Seq([at : Nat, comps : 0 .. NumCompMax])
      /\ Len(filled') <= MaxServices + 1
  <2>1. filled' = <<>>
    BY DEF Call
  <2> QED
    BY <2>1, SizesAssumption
<1>4. /\ pc = "idle" /\ pc' = "free" /\ now' = {} /\ before' = now
      /\ UNCHANGED <<header, raw, heap, next, content, tmp, ptr, ret, ub>>
  BY DEF Call
<1>5. TypeOK'
  BY <1>2, <1>3, <1>4 DEF IInv, TypeOK
<1>6. HeapOwned'
  BY <1>4 DEF IInv, HeapOwned
<1>7. RawExplained'
  BY <1>2, <1>4 DEF IInv, RawExplained, InCall
<1>8. Progress'
  BY <1>4 DEF IInv, Progress, InCall, Call
<1>9. ErrorsAreCaused'
  BY <1>4 DEF IInv, ErrorsAreCaused, Progress
<1> QED
  BY <1>5, <1>6, <1>7, <1>8, <1>9 DEF IInv

LEMMA FreeOldInvariant == IInv /\ FreeOld => IInv'
<1> SUFFICES ASSUME IInv, FreeOld PROVE IInv'
  OBVIOUS
<1>1. /\ pc = "free" /\ heap \subseteq {raw} /\ tmp = 0 /\ ub = "none"
      /\ UNCHANGED <<header, raw, filled, next, content, tmp, ptr, ret, now,
                     before, calls>>
  BY DEF IInv, FreeOld, HeapOwned, Progress
<1>2. \/ /\ raw \in heap \union {0} /\ pc' = "exchange" /\ heap' = {}
         /\ ub' = ub
      \/ /\ raw \notin heap \union {0} /\ pc' = "undefined" /\ heap' = heap
         /\ ub' = "double free"
  BY <1>1 DEF FreeOld, Undefined
<1>3. TypeOK'
  <2>1. pc' \in {"exchange", "undefined"} /\ ub' \in {"none", "double free"}
        /\ heap' \subseteq heap
    BY <1>1, <1>2
  <2> QED
    BY <1>1, <2>1 DEF IInv, TypeOK
<1>4. HeapOwned'
  BY <1>1, <1>2 DEF HeapOwned
<1>5. RawExplained'
  BY <1>1, <1>2 DEF IInv, RawExplained, InCall
<1>6. Progress'
  BY <1>1, <1>2 DEF IInv, Progress, InCall
<1>7. ErrorsAreCaused'
  <2>1. raw \notin heap \union {0} => before # {} /\ calls # 0 /\ calls # 1
    BY <1>1 DEF IInv, RawExplained, InCall
  <2>2. raw \notin heap \union {0} => calls > 1
    BY <2>1, Numbers DEF IInv
  <2> QED
    BY <1>1, <1>2, <2>1, <2>2 DEF ErrorsAreCaused
<1> QED
  BY <1>3, <1>4, <1>5, <1>6, <1>7 DEF IInv

LEMMA ExchangeInvariant == IInv /\ Exchange => IInv'
<1> SUFFICES ASSUME IInv, Exchange PROVE IInv'
  OBVIOUS
<1> USE DEF IInv, Exchange, Return
<1>1. TypeOK'
  BY DEF TypeOK
<1>2. HeapOwned'
  BY DEF HeapOwned
<1>3. RawExplained'
  BY DEF RawExplained, InCall
<1>4. Progress'
  BY DEF Progress, InCall
<1>5. ErrorsAreCaused'
  BY DEF ErrorsAreCaused, Progress
<1> QED
  BY <1>1, <1>2, <1>3, <1>4, <1>5

LEMMA AllocTmpInvariant == IInv /\ AllocTmp => IInv'
<1> SUFFICES ASSUME IInv, AllocTmp PROVE IInv'
  OBVIOUS
<1>1. /\ pc = "malloc" /\ heap = {} /\ tmp = 0 /\ filled = <<>>
      /\ UNCHANGED <<header, raw, filled, content, ret, before, calls, ub>>
  BY DEF IInv, AllocTmp, HeapOwned, Progress, InCall
<1>2. \/ /\ pc' = "read" /\ tmp' = next /\ heap' = {next}
         /\ next' = next + 1 /\ UNCHANGED <<now, ptr>>
      \/ /\ pc' = "fill" /\ ptr' = 0 /\ now' = now \union {"oom"}
         /\ UNCHANGED <<tmp, heap, next>>
  BY <1>1 DEF AllocTmp
<1>3. next \in Nat \ {0} /\ raw \in 0 .. next - 1
  BY Numbers DEF IInv
<1>4. /\ next' \in Nat /\ heap' \subseteq 1 .. next' - 1
      /\ raw' \in 0 .. next' - 1
  BY <1>1, <1>2, <1>3
<1>5. TypeOK'
  <2>1. ptr \in Nat /\ now \union before \subseteq {"error", "oom", "unread"}
    BY DEF IInv, TypeOK
  <2>2. /\ pc' \in {"read", "fill"} /\ tmp' \in heap' \union {0}
        /\ ptr' \in Nat
        /\ now' \union before' \subseteq {"error", "oom", "unread"}
    BY <1>1, <1>2, <2>1
  <2> QED
    BY <1>1, <1>4, <2>2 DEF IInv, TypeOK
<1>6. HeapOwned'
  BY <1>1, <1>2 DEF HeapOwned
<1>7. RawExplained'
  BY <1>1, <1>2 DEF IInv, RawExplained, InCall
<1>8. Progress'
  <2>1. header \in [size : Nat, services : 0 .. ByteMax]
    BY DEF IInv, TypeOK
  <2>2. Len(filled) = 0 /\ header.services >= 0
    BY <1>1, <2>1, SizesAssumption
  <2> QED
    BY <1>1, <1>2, <2>2 DEF IInv, Progress, InCall
<1>9. ErrorsAreCaused'
  BY <1>1, <1>2 DEF IInv, ErrorsAreCaused, Progress
<1> QED
  BY <1>5, <1>6, <1>7, <1>8, <1>9 DEF IInv

LEMMA ReadListInvariant == IInv /\ ReadList => IInv'
<1> SUFFICES ASSUME IInv, ReadList PROVE IInv'
  OBVIOUS
<1>1. content' \in Contents
  BY DEF ReadList, Contents
<1>2. content'.counts \in Counts /\ content'.size \in Nat
      /\ Len(content'.counts) \in 0 .. ByteMax
  BY <1>1, ContentsType, CountsType
<1>3. content' = Listing(content'.counts) \/ "unread" \in now'
  BY DEF ReadList, Lists, Listing
<1> USE DEF IInv, ReadList
<1>4. TypeOK'
  BY <1>1, <1>2 DEF TypeOK, Contents
<1>5. HeapOwned'
  BY DEF HeapOwned
<1>6. RawExplained'
  BY DEF RawExplained, InCall
<1>7. Progress'
  BY <1>3 DEF Progress, InCall, Intact
<1>8. ErrorsAreCaused'
  BY DEF ErrorsAreCaused, Progress
<1> QED
  BY <1>4, <1>5, <1>6, <1>7, <1>8

LEMMA CopyListInvariant == IInv /\ CopyList => IInv'
<1> SUFFICES ASSUME IInv, CopyList PROVE IInv'
  OBVIOUS
<1>1. content.counts \in Counts /\ Len(content.counts) \in Nat
  <2>1. content \in Contents
    BY DEF IInv, TypeOK, Contents
  <2> QED
    BY <2>1, ContentsType, CountsType, SizesAssumption
<1>2. /\ pc = "copy" /\ heap = {tmp} /\ filled = <<>> /\ Len(filled) = 0
      /\ tmp' = 0
      /\ UNCHANGED <<header, filled, content, ret, before, calls>>
  BY DEF IInv, CopyList, HeapOwned, Progress, InCall
<1>3. \/ /\ raw' = next /\ heap' = {next} /\ next' = next + 1
         /\ now' = now
      \/ raw' = 0 /\ heap' = {} /\ next' = next /\ now' = now \union {"oom"}
  BY <1>2 DEF CopyList, AllocList
<1>4. \/ pc' = "undefined" /\ ub' = "overread" /\ ptr' = ptr
      \/ pc' = "fill" /\ ptr' = 0 /\ ub' = ub
  BY DEF CopyList, Undefined
<1>5. TypeOK'
  <2>1. next \in Nat \ {0}
    BY Numbers DEF IInv
  <2>2. next' \in Nat /\ heap' \subseteq 1 .. next' - 1
        /\ raw' \in 0 .. next' - 1
    BY <1>3, <2>1
  <2>3. ptr \in Nat /\ now \union before \subseteq {"error", "oom", "unread"}
    BY DEF IInv, TypeOK
  <2>4. /\ pc' \in {"fill", "undefined"} /\ ptr' \in Nat
        /\ now' \union before' \subseteq {"error", "oom", "unread"}
        /\ ub' \in {ub, "overread"}
    BY <1>2, <1>3, <1>4, <2>3
  <2> QED
    BY <1>2, <2>2, <2>4 DEF IInv, TypeOK
<1>6. HeapOwned'
  BY <1>2, <1>3, <1>4 DEF HeapOwned
<1>7. RawExplained'
  BY <1>2, <1>3, <1>4 DEF IInv, RawExplained, InCall
<1>8. Progress'
  <2>1. header = [size |-> content.size, services |-> Len(content.counts)]
    BY DEF IInv, Progress
  <2>2. pc' = "fill" =>
          \/ now' \intersect {"oom", "unread"} # {}
          \/ Intact' /\ Pointers' /\ ptr' = SizeUpto(content.counts, 0)
    BY <1>1, <1>2, <1>3, <1>4, SizeUptoDef
    DEF IInv, Progress, Intact, Pointers
  <2>3. header'.services = Len(content.counts)
    BY <1>2, <2>1
  <2>4. pc' = "fill" => ub' = "none"
    BY <1>2, <1>4 DEF IInv, Progress
  <2> QED
    BY <1>1, <1>2, <1>4, <2>1, <2>2, <2>3, <2>4 DEF Progress, InCall
<1>9. ErrorsAreCaused'
  <2>1. ub' = "overread" => header'.size > BufferSize
    BY <1>2, <1>4 DEF IInv, CopyList, Undefined, Progress
  <2> QED
    BY <1>2, <1>3, <1>4, <2>1 DEF IInv, ErrorsAreCaused, Progress
<1> QED
  BY <1>5, <1>6, <1>7, <1>8, <1>9 DEF IInv

LEMMA FillInvariant == IInv /\ Fill => IInv'
<1> SUFFICES ASSUME IInv, Fill PROVE IInv'
  OBVIOUS
<1> DEFINE c == content.counts
           k == Len(filled)
           sound == Intact /\ Pointers /\ ptr = SizeUpto(c, k)
           broken == now \intersect {"oom", "unread"} # {}
<1>1. /\ content \in Contents
      /\ filled \in Seq([at : Nat, comps : 0 .. NumCompMax])
      /\ ptr \in Nat
  BY DEF IInv, TypeOK, Contents
<1>2. /\ c \in Counts /\ Len(c) \in Nat
      /\ content.size \in Nat /\ k \in Nat
      /\ c \in [1 .. Len(c) -> 0 .. NumCompMax]
      /\ {MaxServices, MaxComponents, NumCompMax, ServiceSize} \subseteq Nat
  BY <1>1, ContentsType, CountsType, SizesAssumption
<1>3. header.services = Len(c) /\ k < Len(c) /\ c[k + 1] \in 0 .. NumCompMax
  <2>1. header.services = Len(c) /\ k < header.services
    BY DEF IInv, Progress, Fill
  <2> QED
    BY <1>2, <2>1
<1>4. /\ pc = "fill" /\ heap \subseteq {raw} /\ ub = "none"
      /\ UNCHANGED <<header, raw, heap, next, content, tmp, ret, now, before,
                     calls>>
      /\ raw \in heap \/ "oom" \in now
      /\ broken \/ sound
  BY DEF IInv, Fill, HeapOwned, RawExplained, Progress
\* Either the pointer cannot be used, which has its cause ...
<1>5. CASE Invalid # "none"
  <2>1. pc' = "undefined" /\ ub' = Invalid /\ UNCHANGED <<filled, ptr>>
    BY <1>5 DEF Fill, Undefined
  <2>2. Invalid \in {"null", "freed", "bounds", "overrun"}
    BY <1>5 DEF Invalid
  <2>3. raw \in heap => raw # 0
    <3>1. heap \subseteq 1 .. next - 1 /\ next \in Nat
      BY DEF IInv, TypeOK
    <3> QED
      BY <3>1
  <2>4. Invalid \in {"null", "freed"} => "oom" \in now
    BY <1>4, <2>3 DEF Invalid
  <2>5. Invalid = "bounds" => broken
    <3> SUFFICES ASSUME Invalid = "bounds", sound PROVE FALSE
      BY <1>4
    <3>1. content.size = SizeUpto(c, Len(c))
      BY DEF Intact, Listing
    <3>2. SizeUpto(c, k) + ServiceSize <= SizeUpto(c, Len(c))
      <4>1. k \in 0 .. Len(c) - 1
        BY <1>2, <1>3
      <4> QED
        BY <1>2, <4>1, SizeUptoGrows
    <3>3. ptr + ServiceSize > content.size
      <4>1. ~ (ptr + ServiceSize <= content.size)
        BY <1>1, <1>2 DEF Invalid
      <4> QED
        BY <1>1, <1>2, <4>1
    <3> QED
      BY <1>1, <1>2, <3>1, <3>2, <3>3
  <2>6. TypeOK'
    BY <1>4, <2>1, <2>2 DEF IInv, TypeOK
  <2>7. HeapOwned' /\ RawExplained'
    BY <1>4, <2>1 DEF IInv, HeapOwned, RawExplained, InCall
  <2>8. Progress'
    BY <1>4, <2>1 DEF IInv, Progress, InCall
  \* A service has room for the components that it can claim.
  <2>9. Invalid = "overrun" => header.services > MaxServices
    <3>1. ~ (c[k + 1] > MaxComponents + 1)
      BY <1>2, <1>3, FieldAssumption
    <3>2. Invalid = "overrun" => k > MaxServices
      BY <3>1 DEF Invalid
    <3> QED
      BY <1>2, <1>3, <3>2
  <2>10. ErrorsAreCaused'
    BY <1>4, <2>1, <2>2, <2>4, <2>5, <2>9 DEF ErrorsAreCaused
  <2> QED
    BY <2>6, <2>7, <2>8, <2>10 DEF IInv
\* ... or it is that of the next service.
<1>6. CASE Invalid = "none"
  <2> DEFINE e == [at |-> ptr, comps |-> c[k + 1]]
  <2>1. /\ filled' = Append(filled, e)
        /\ ptr' = ptr + ServiceSize + c[k + 1]
        /\ pc' = pc /\ ub' = ub
    BY <1>6 DEF Fill, Advance
  <2>2. raw \in heap
    BY <1>6 DEF Invalid
  <2>3. e \in [at : Nat, comps : 0 .. NumCompMax]
    BY <1>1, <1>3
  <2> HIDE DEF e
  <2>4. /\ filled' \in Seq([at : Nat, comps : 0 .. NumCompMax])
        /\ Len(filled') = k + 1
        /\ \A i \in 1 .. k : filled'[i] = filled[i]
        /\ filled'[k + 1] = e
    BY <1>1, <2>1, <2>3
  <2>5. ptr' \in Nat
    BY <1>1, <1>2, <1>3, <2>1
  <2>6. Len(filled') <= MaxServices + 1 /\ Len(filled') <= Len(c)
    <3>1. ~ (k > MaxServices)
      BY <1>6 DEF Invalid
    <3> QED
      BY <1>2, <1>3, <2>4, <3>1
  <2>7. TypeOK'
    BY <1>4, <2>1, <2>4, <2>5, <2>6 DEF IInv, TypeOK
  <2>8. HeapOwned' /\ RawExplained'
    BY <1>4, <2>1 DEF IInv, HeapOwned, RawExplained, InCall
  <2>9. broken' \/ sound'
    <3> SUFFICES ASSUME sound PROVE sound'
      BY <1>4
    <3>1. ptr' = SizeUpto(c, k + 1)
      <4>1. k \in 0 .. Len(c) - 1
        BY <1>2, <1>3
      <4> QED
        BY <1>2, <2>1, <4>1, SizeUptoDef
    <3>2. Intact'
      BY <1>4 DEF Intact
    <3>3. Pointers'
      <4>1. ASSUME NEW i \in 1 .. k + 1
            PROVE  /\ filled'[i].at = SizeUpto(c, i - 1)
                   /\ filled'[i].comps = c[i]
        <5>1. CASE i = k + 1
          <6>1. i - 1 = k
            BY <1>2, <5>1
          <6> QED
            BY <2>4, <5>1, <6>1 DEF e
        <5>2. CASE i # k + 1
          <6>1. i \in 1 .. k
            BY <1>2, <5>2
          <6> QED
            BY <2>4, <6>1 DEF Pointers
        <5> QED
          BY <5>1, <5>2
      <4> QED
        BY <1>4, <2>4, <2>6, <4>1 DEF Pointers
    <3> QED
      BY <1>4, <2>4, <3>1, <3>2, <3>3
  <2>10. Progress'
    <3>1. /\ header' = [size |-> content'.size,
                        services |-> Len(content'.counts)]
          /\ Len(filled') <= header'.services
      BY <1>3, <1>4, <2>6 DEF IInv, Progress
    <3> QED
      BY <1>4, <2>1, <2>2, <2>9, <3>1 DEF Progress, InCall
  <2>11. ErrorsAreCaused'
    BY <1>4, <2>1 DEF ErrorsAreCaused
  <2> QED
    BY <2>7, <2>8, <2>10, <2>11 DEF IInv
<1> QED
  BY <1>5, <1>6

LEMMA FilledInvariant == IInv /\ Filled => IInv'
<1> SUFFICES ASSUME IInv, Filled PROVE IInv'
  OBVIOUS
<1>1. /\ pc = "fill" /\ Len(filled) = header.services
      /\ pc' = "idle" /\ ret' = "ok"
      /\ UNCHANGED <<header, raw, filled, heap, next, content, tmp, ptr, now,
                     before, calls, ub>>
  BY DEF Filled, Return
<1>2. TypeOK'
  BY <1>1 DEF IInv, TypeOK
<1>3. HeapOwned'
  BY <1>1 DEF IInv, HeapOwned
<1>4. RawExplained'
  BY <1>1 DEF IInv, RawExplained, InCall
<1>5. Progress'
  <2>1. header.services = Len(content.counts)
    BY DEF IInv, Progress
  <2> QED
    BY <1>1, <2>1 DEF IInv, Progress, InCall, Intact, Pointers
<1>6. ErrorsAreCaused'
  BY <1>1 DEF IInv, ErrorsAreCaused
<1> QED
  BY <1>2, <1>3, <1>4, <1>5, <1>6 DEF IInv

\* A list that nothing disturbed ends inside its block.
LEMMA EndsInside ==
  ASSUME IInv, pc = "idle", ret = "ok", now \intersect {"oom", "unread"} = {},
         NEW i \in 1 .. Len(filled)
  PROVE  ~ (filled[i].at + ServiceSize + filled[i].comps > content.size)
<1> DEFINE c == content.counts
<1>1. Intact /\ Pointers /\ Len(filled) = Len(c)
  BY DEF IInv, Progress
<1>2. content \in Contents
  BY DEF IInv, TypeOK, Contents
<1>3. /\ c \in Counts /\ Len(c) \in Nat /\ content.size \in Nat
      /\ ServiceSize \in Nat /\ content.size = SizeUpto(c, Len(c))
  BY <1>1, <1>2, ContentsType, CountsType, SizesAssumption
  DEF Intact, Listing
<1>4. i \in 1 .. Len(c) /\ i - 1 \in 0 .. Len(c) - 1 /\ (i - 1) + 1 = i
  BY <1>1, <1>3
<1>5. filled[i].at + ServiceSize + filled[i].comps = SizeUpto(c, i)
  BY <1>1, <1>3, <1>4, SizeUptoDef DEF Pointers
<1>6. CASE i = Len(c)
  BY <1>3, <1>5, <1>6
<1>7. CASE i # Len(c)
  <2>1. i \in 0 .. Len(c) - 1 /\ i \in 0 .. Len(c)
    BY <1>3, <1>4, <1>7
  <2>2. SizeUpto(c, i) + ServiceSize <= SizeUpto(c, Len(c))
    BY <1>3, <2>1, SizeUptoGrows
  <2>3. SizeUpto(c, i) \in Nat
    BY <1>3, <2>1, SizeUptoNat
  <2> QED
    BY <1>3, <1>5, <2>2, <2>3
<1> QED
  BY <1>6, <1>7

\* Why a list cannot be printed, with the cause of it.
LEMMA UnprintableIsCaused ==
  ASSUME IInv, pc = "idle", ret = "ok"
  PROVE  /\ Unprintable \in {"none", "bounds", "overrun"}
         /\ Unprintable = "bounds" => now \intersect {"oom", "unread"} # {}
         /\ Unprintable = "overrun" => header.services > MaxServices
<1>1. Unprintable \in {"none", "bounds", "overrun"}
  BY DEF Unprintable
<1>2. Unprintable = "bounds" => now \intersect {"oom", "unread"} # {}
  BY EndsInside DEF Unprintable
<1>3. ASSUME Unprintable = "overrun" PROVE header.services > MaxServices
  <2>1. /\ filled \in Seq([at : Nat, comps : 0 .. NumCompMax])
        /\ {NumCompMax, MaxComponents, MaxServices} \subseteq Nat
        /\ header.services \in Nat
    <3>1. /\ header \in [size : Nat, services : 0 .. ByteMax]
          /\ filled \in Seq([at : Nat, comps : 0 .. NumCompMax])
      BY DEF IInv, TypeOK
    <3>2. header.services \in 0 .. ByteMax
      BY <3>1
    <3> QED
      BY <3>1, <3>2, SizesAssumption
  <2>2. \A i \in 1 .. Len(filled) : ~ (filled[i].comps > MaxComponents)
    <3> TAKE i \in 1 .. Len(filled)
    <3> DEFINE E == [at : Nat, comps : 0 .. NumCompMax]
    <3>1. filled[i] \in E
      <4> HIDE DEF E
      <4>1. filled \in Seq(E)
        BY <2>1 DEF E
      <4> QED
        BY <4>1
    <3>2. filled[i].comps \in 0 .. NumCompMax
      BY <3>1
    <3> QED
      BY <2>1, <3>2, FieldAssumption
  <2>3. Len(filled) > MaxServices
    BY <1>3, <2>2 DEF Unprintable
  <2>4. Len(filled) <= header.services
    BY DEF IInv, Progress
  <2>5. Len(filled) \in Nat
    BY <2>1
  <2> QED
    BY <2>1, <2>3, <2>4, <2>5
<1> QED
  BY <1>1, <1>2, <1>3

LEMMA ReleaseInvariant == IInv /\ Release => IInv'
<1> SUFFICES ASSUME IInv, Release PROVE IInv'
  OBVIOUS
<1>1. /\ pc = "idle" /\ ret = "ok" /\ heap \subseteq {raw} /\ ub = "none"
      /\ tmp = 0
      /\ UNCHANGED <<header, raw, filled, next, content, tmp, ptr, ret, now,
                     before, calls>>
  BY DEF IInv, Release, HeapOwned, Progress
<1>2. \/ /\ Unprintable # "none" /\ pc' = "undefined" /\ heap' = heap
         /\ ub' = Unprintable
      \/ /\ raw \in heap \union {0} /\ pc' = "released" /\ heap' = {}
         /\ ub' = ub
      \/ /\ raw \notin heap \union {0} /\ pc' = "undefined" /\ heap' = heap
         /\ ub' = "double free"
  BY <1>1 DEF Release, Undefined
<1>3. TypeOK'
  <2>1. /\ pc' \in {"released", "undefined"} /\ heap' \subseteq heap
        /\ ub' \in {"none", "double free", "bounds", "overrun"}
    BY <1>1, <1>2, UnprintableIsCaused
  <2> QED
    BY <1>1, <2>1 DEF IInv, TypeOK
<1>4. HeapOwned'
  BY <1>1, <1>2 DEF HeapOwned
<1>5. RawExplained'
  BY <1>1, <1>2 DEF IInv, RawExplained, InCall
<1>6. Progress'
  BY <1>1, <1>2 DEF IInv, Progress, InCall
<1>7. ErrorsAreCaused'
  <2>1. raw \notin heap \union {0} => "oom" \in now /\ calls # 0 /\ calls # 1
    BY <1>1 DEF IInv, RawExplained
  <2>2. raw \notin heap \union {0} => calls > 1
    BY <2>1, Numbers DEF IInv
  <2> QED
    BY <1>1, <1>2, <2>1, <2>2, UnprintableIsCaused DEF ErrorsAreCaused
<1> QED
  BY <1>3, <1>4, <1>5, <1>6, <1>7 DEF IInv

-----------------------------------------------------------------------------
LEMMA NextInvariant == IInv /\ [Next]_vars => IInv'
<1> SUFFICES ASSUME IInv, [Next]_vars PROVE IInv'
  OBVIOUS
<1>1. CASE UNCHANGED vars
  <2> USE <1>1 DEF vars, IInv
  <2>1. TypeOK'
    BY DEF TypeOK
  <2>2. HeapOwned' /\ RawExplained'
    BY DEF HeapOwned, RawExplained
  <2>3. Progress'
    BY DEF Progress, Intact, Pointers
  <2>4. ErrorsAreCaused'
    BY DEF ErrorsAreCaused
  <2> QED
    BY <2>1, <2>2, <2>3, <2>4
<1> QED
  BY <1>1, CallInvariant, FreeOldInvariant, ExchangeInvariant,
    AllocTmpInvariant, ReadListInvariant, CopyListInvariant, FillInvariant,
    FilledInvariant, ReleaseInvariant DEF Next, CallStep

\* The invariant that explains, at every statement, who owns which block, and
\* what has gone wrong if raw_service_list does not point to one, holds for
\* lists of every size and any number of calls.
THEOREM Inductive == Spec => []IInv
<1> QED
  BY InitInvariant, NextInvariant, PTL DEF Spec

\* Every variable keeps its type: a block is below the next address, and the
\* pointers that were stored are no more than service_list has room for,
\* whatever byte the tuner sends as the number of services: the one too many
\* is the undefined behaviour "overrun".
THEOREM TypeCorrect == Spec => []TypeOK
<1>1. IInv => TypeOK
  BY DEF IInv
<1> QED
  BY <1>1, Inductive, PTL

\* No path through si468x_dab_get_service_list loses a block.
THEOREM NoLeakHolds == Spec => []NoLeak
<1>1. IInv => NoLeak
  BY DEF IInv, HeapOwned, NoLeak
<1> QED
  BY <1>1, Inductive, PTL

\* The pointers are cleared before what they point to is freed.
THEOREM NoStalePointerHolds == Spec => []NoStalePointer
<1>1. IInv => NoStalePointer
  BY DEF IInv, Progress, InCall, NoStalePointer
<1> QED
  BY <1>1, Inductive, PTL

\* Undefined behaviour has one of the three causes that nobody looks at, or
\* the tuner sent a list beyond the room that nobody compares it with.
THEOREM ErrorsAreCausedHolds == Spec => []ErrorsAreCaused
<1>1. IInv => ErrorsAreCaused
  BY DEF IInv
<1> QED
  BY <1>1, Inductive, PTL

\* A call that met no fault fills in the pointers of its list, all of them
\* inside the block, for lists of every shape.
THEOREM PointersIntoListHolds == Spec => []PointersIntoList
<1>1. ASSUME IInv PROVE PointersIntoList
  <2> SUFFICES ASSUME pc = "idle", ret = "ok", now = {}
               PROVE  /\ raw \in heap
                      /\ Len(filled) = Len(content.counts)
                      /\ Pointers
                      /\ SizeUpto(content.counts, Len(filled)) <= content.size
    BY DEF PointersIntoList, Pointers
  <2>1. Intact /\ Pointers /\ Len(filled) = Len(content.counts)
    BY <1>1 DEF IInv, Progress
  <2>2. content.size = SizeUpto(content.counts, Len(content.counts))
    BY <2>1 DEF Intact, Listing
  <2>3. content.size \in Nat
    <3>1. content \in Contents
      BY <1>1 DEF IInv, TypeOK, Contents
    <3> QED
      BY <3>1, ContentsType
  <2> QED
    BY <1>1, <2>1, <2>2, <2>3 DEF IInv, RawExplained
<1> QED
  BY <1>1, Inductive, PTL
=============================================================================
