---------------------------- MODULE TunerValues ----------------------------
(***************************************************************************)
(* The numbers between a user of dabon-cli and the registers of the tuner: *)
(* read from the command line by sscanf, checked or not, cast, packed into *)
(* the bytes of a command, unpacked from the bytes of a reply and printed. *)
(* Exchanges succeed here (Si468xLink has those that fail), but a tuner    *)
(* that rejects a command does so unnoticed: no command looks at the error *)
(* bit of the status, and what it decodes is then whatever the reply has.  *)
(***************************************************************************)
EXTENDS ByteOrder, SequencesExt

CONSTANTS
  DefaultList, \* the frequencies the tuner starts with, in kHz: a sequence
  BandIII,     \* bandIII_DAB_frequency_list: a sequence, of 1 to 255
  Service,     \* the IDs of the services of the ensemble
  Property,    \* the properties the tuner has
  Leftover,    \* what the reply to a rejected command may hold for a value
  Station,     \* where a seek can stop, in 10 kHz
  Numeral      \* what users type besides what was printed

\* The number of frequencies in a list is sent and kept in a byte.
ASSUME ListsAssumption ==
  /\ DefaultList \in Seq(Word32)
  /\ 1 <= Len(DefaultList) /\ Len(DefaultList) <= 256
  /\ BandIII \in Seq(Word32) /\ Len(BandIII) <= 255

\* The widths of an ID and of an FM frequency in the tuner.
ASSUME WidthsAssumption == Service \subseteq Word32 /\ Station \subseteq Word16

\* A value is decoded from two bytes, whatever they are.
ASSUME LeftoverAssumption == Leftover \subseteq Word16

ASSUME NumeralAssumption ==
  Numeral \subseteq
    [minus : BOOLEAN, prefix : BOOLEAN, digits : Seq(0 .. 15)]

-----------------------------------------------------------------------------
\* Numerals: a sign, perhaps 0x, and digits.
Value(base, digits) ==
  LET upto[k \in 0 .. Len(digits)] ==
        IF k = 0 THEN 0 ELSE (base * upto[k - 1]) + digits[k]
  IN upto[Len(digits)]
Signed(n, value) == IF n.minus THEN 0 - value ELSE value

\* sscanf with %d stops at the first character that is no decimal digit, and
\* fails if there is nothing before it; with %x it reads them all.
Decimals(n) ==
  LET i == SelectInSeq(n.digits, LAMBDA d : d > 9)
  IN CASE n.prefix -> <<0>>
       [] ~n.prefix /\ i = 0 -> n.digits
       [] OTHER -> SubSeq(n.digits, 1, i - 1)
scan_d(n) == Signed(n, Value(10, Decimals(n)))
scan_x(n) == Signed(n, Value(16, n.digits))

\* An ID as get_digital_service_list prints it, with 0x%08x.
Hex08(id) ==
  [minus |-> FALSE, prefix |-> TRUE,
   digits |-> [i \in 1 .. 8 |->
                 Field(BYTE_0(Bytes4(id)[4 - ((i - 1) \div 2)]),
                       IF i % 2 = 1 THEN 16 ELSE 1, 16)]]

\* What get_property and set_property take for the index of a property, with
\* 0xe800 as the last one: all of these are sent to the tuner.
Accepted(p) == 0 <= scan_x(p) /\ scan_x(p) <= 59392

-----------------------------------------------------------------------------
VARIABLES
  (* the tuner; numbers are there as the bytes they were sent as *)
  list,    \* of DAB frequencies
  index,   \* the one that is tuned
  freq,    \* its frequency
  fm,      \* the FM frequency
  up,      \* the latest seek went up
  prop,    \* the properties
  service, \* the service that was started
  (* the users *)
  asked,   \* what the latest command of each kind was meant to do
  printed  \* what the latest command printed

vars == <<list, index, freq, fm, up, prop, service, asked, printed>>

Shown(kind, value) == [of |-> kind, value |-> value]
Nothing == Shown("nothing", <<>>)

Packed(frequencies) == [i \in DOMAIN frequencies |-> Bytes4(frequencies[i])]

Init ==
  /\ list = Packed(DefaultList)
  /\ index = 0 /\ freq = list[1]
  /\ fm = Bytes2(8750) /\ up = TRUE
  /\ prop = [p \in Property |-> <<0, 0>>]
  /\ service = Bytes4(0)
  /\ asked = [freq |-> DefaultList[1], fm |-> 87500, up |-> TRUE,
              prop |-> [p \in Property |-> 0], service |-> 0]
  /\ printed = Nothing

\* The list as a user sees it.
Frequencies == [i \in DOMAIN list |-> Word4(list[i])]

\* The tuner takes as many frequencies as the second byte says.
SetFrequenciesList ==
  /\ list' = Packed(SubSeq(BandIII, 1, uint8(Len(BandIII))))
  /\ printed' = Nothing
  /\ UNCHANGED <<index, freq, fm, up, prop, service, asked>>

GetFrequenciesList ==
  /\ printed' = Shown("list", Frequencies)
  /\ UNCHANGED <<list, index, freq, fm, up, prop, service, asked>>

\* Mutated form: the list is counted from 1.
DabTune_from1(n) ==
  /\ Decimals(n) # <<>>
  /\ LET k == uint8(scan_d(n))
     IN IF k \in DOMAIN list
        THEN index' = k /\ freq' = list[k]
        ELSE UNCHANGED <<index, freq>>
  /\ asked' = [asked EXCEPT !.freq =
       IF scan_d(n) + 1 \in DOMAIN list THEN Frequencies[scan_d(n) + 1] ELSE 0]
  /\ printed' = Nothing
  /\ UNCHANGED <<list, fm, up, prop, service>>

\* The user means the number in the list; whatever %d reads is cast and sent.
DabTune(n) ==
  /\ Decimals(n) # <<>>
  /\ LET k == uint8(scan_d(n))
     IN IF k + 1 \in DOMAIN list
        THEN index' = k /\ freq' = list[k + 1]
        ELSE UNCHANGED <<index, freq>>
  /\ asked' = [asked EXCEPT !.freq =
       IF scan_d(n) + 1 \in DOMAIN list THEN Frequencies[scan_d(n) + 1] ELSE 0]
  /\ printed' = Nothing
  /\ UNCHANGED <<list, fm, up, prop, service>>

DigradStatus ==
  /\ printed' = Shown("digrad", [tune_index |-> index,
                                 tune_freq |-> Word4(freq)])
  /\ UNCHANGED <<list, index, freq, fm, up, prop, service, asked>>

\* A number out of the band is refused; the tuner counts in 10 kHz.
FmTune(n) ==
  /\ Decimals(n) # <<>> /\ 87500 <= scan_d(n) /\ scan_d(n) <= 108000
  /\ fm' = Bytes2(uint16(scan_d(n) \div 10))
  /\ asked' = [asked EXCEPT !.fm = scan_d(n)]
  /\ printed' = Nothing
  /\ UNCHANGED <<list, index, freq, up, prop, service>>

\* FM_SEEK_UP is bit 1 of a byte whose bit 0 is FM_SEEK_WRAP.  The seek ends
\* on a station.
FmSeek(n) ==
  /\ Decimals(n) # <<>> /\ scan_d(n) \in {0, 1}
  /\ LET arg == (IF scan_d(n) # 0 THEN 2 ELSE 0) + 1
     IN up' = (Field(arg, 2, 2) = 1)
  /\ \E s \in Station :
       /\ fm' = Bytes2(s)
       /\ asked' = [asked EXCEPT !.up = (scan_d(n) = 1), !.fm = 10 * s]
  /\ printed' = Nothing
  /\ UNCHANGED <<list, index, freq, prop, service>>

FmRsqStatus ==
  /\ printed' = Shown("rsq", Word2(fm) * 10)
  /\ UNCHANGED <<list, index, freq, fm, up, prop, service, asked>>

\* Both numbers are hexadecimal, with 0x or without it; a property that the
\* tuner does not have is rejected by the tuner only.
SetProperty(p, n) ==
  /\ Accepted(p)
  /\ LET q == Word2(Bytes2(scan_x(p)))
     IN IF q \in Property
        THEN /\ prop' = [prop EXCEPT ![q] = Bytes2(uint16(scan_x(n)))]
             /\ asked' = [asked EXCEPT !.prop[q] = scan_x(n)]
        ELSE UNCHANGED <<prop, asked>>
  /\ printed' = Nothing
  /\ UNCHANGED <<list, index, freq, fm, up, service>>

\* It may be asked for all the same, and what the reply to a rejected command
\* holds is printed as its value.
GetProperty(p) ==
  /\ Accepted(p)
  /\ LET q == Word2(Bytes2(scan_x(p)))
     IN \E value \in IF q \in Property THEN {Word2(prop[q])} ELSE Leftover :
          printed' = Shown("property", [index |-> scan_x(p), value |-> value])
  /\ UNCHANGED <<list, index, freq, fm, up, prop, service, asked>>

\* Mutated form: the ID is read with %x.
StartService_hex(n, id) ==
  /\ service' = Bytes4(scan_x(n))
  /\ asked' = [asked EXCEPT !.service = id]
  /\ printed' = Nothing
  /\ UNCHANGED <<list, index, freq, fm, up, prop>>

\* The user means the service with this ID, and types it as n.  The ID of the
\* component goes the same way.
StartService(n, id) ==
  /\ Decimals(n) # <<>>
  /\ service' = Bytes4(scan_d(n))
  /\ asked' = [asked EXCEPT !.service = id]
  /\ printed' = Nothing
  /\ UNCHANGED <<list, index, freq, fm, up, prop>>

\* A number that cannot be read or that its command refuses.
Refused ==
  /\ \E n \in Numeral :
       \/ Decimals(n) = <<>>
       \/ scan_d(n) < 87500 \/ 108000 < scan_d(n)
       \/ ~Accepted(n)
  /\ printed' = Shown("error", <<>>)
  /\ UNCHANGED <<list, index, freq, fm, up, prop, service, asked>>

Next ==
  \/ SetFrequenciesList \/ GetFrequenciesList \/ DigradStatus \/ FmRsqStatus
  \/ Refused
  \/ \E n \in Numeral :
       \/ DabTune(n) \/ FmTune(n) \/ FmSeek(n) \/ GetProperty(n)
       \/ \E p \in Numeral : SetProperty(p, n)
  \/ \E id \in Service :
       \/ StartService(Hex08(id), id)
       \/ \E n \in Numeral :
            ~n.prefix /\ scan_d(n) = id /\ StartService(n, id)

Spec == Init /\ [][Next]_vars

-----------------------------------------------------------------------------
\* Who takes a number from the frequency list and tunes to it hears the
\* frequency that the list showed next to it, and digrad_status says so:
\* index, list, cast and byte order agree.  Numbers beyond the list are not
\* refused: 286 is tuned to as 30.
TunedAsListed ==
  asked.freq # 0 =>
    /\ Word4(freq) = asked.freq
    /\ printed.of = "digrad" => printed.value.tune_freq = asked.freq

\* FM frequencies survive the way to the tuner and back but for the last
\* digit of their kHz, and a seek goes the way it was asked to go.  A property
\* is read back as it was set if it fits in 16 bits, and as what is left of it
\* if it does not.  The exception is a property the tuner does not have: it is
\* set and read without an error, and reads as whatever the reply held
\* (shell_cmds.c:280,303,323,397-409,424-436).
ReadBackAsSet ==
  /\ up = asked.up
  /\ printed.of = "rsq" => asked.fm - printed.value \in 0 .. 9
  /\ printed.of = "property" /\ printed.value.index \in Property =>
       asked.prop[printed.value.index] % 65536 = printed.value.value

\* The IDs in the service list are printed in hexadecimal and read in
\* decimal: the service that is started is the one that was meant, or, when
\* the ID was copied from the list, number 0.
StartedOrZero == Word4(service) \in {asked.service, 0}

-----------------------------------------------------------------------------
(***************************************************************************)
(* Why these hold: the inductive invariant, in parts.                      *)
(***************************************************************************)
Asked == [freq : Int, fm : Int, up : BOOLEAN, prop : [Property -> Int],
          service : Int]

\* No list has more frequencies than a byte can number.
TypeOK ==
  /\ list \in Seq(Octets4) /\ Len(list) <= 256
  /\ index \in Byte /\ up \in BOOLEAN /\ {freq, service} \subseteq Octets4
  /\ fm \in Octets2 /\ prop \in [Property -> Octets2] /\ asked \in Asked

\* The tuner has what was asked of it, but for the last digit of the kHz of
\* an FM frequency and for what a property has no bits for.
SetAsAsked ==
  /\ asked.fm - (10 * Word2(fm)) \in 0 .. 9
  /\ \A q \in Property : asked.prop[q] % 65536 = Word2(prop[q])

\* The conjunction that every step preserves.
IInv ==
  /\ TypeOK /\ SetAsAsked
  /\ TunedAsListed /\ ReadBackAsSet /\ StartedOrZero
=============================================================================
