----------------------------- MODULE ByteOrder -----------------------------
(***************************************************************************)
(* How libsi468x takes numbers apart into the bytes of a command and puts  *)
(* the bytes of a reply together again: least significant byte first.  The *)
(* masks and shifts of the macros are divisions and remainders here, which *)
(* is what they are for an unsigned word, and for a negative one in two's  *)
(* complement.                                                             *)
(***************************************************************************)
EXTENDS Integers

Byte == 0 .. 255

\* x >> 8, and the words of two and of four bytes.
Shift(x) == x \div 256
Word16 == {x \in Nat : Shift(x) \in Byte}
Word32 == {x \in Nat : Shift(Shift(Shift(x))) \in Byte}

BYTE_0(x) == x % 256
BYTE_1(x) == BYTE_0(Shift(x))
BYTE_2(x) == BYTE_0(Shift(Shift(x)))
BYTE_3(x) == BYTE_0(Shift(Shift(Shift(x))))

\* A property or an FM frequency in a command.
Bytes2(x) == <<BYTE_0(x), BYTE_1(x)>>

\* A frequency or an ID in a command.
Bytes4(x) == <<BYTE_0(x), BYTE_1(x), BYTE_2(x), BYTE_3(x)>>

Octets2 == Byte \X Byte
Octets4 == Byte \X Byte \X Byte \X Byte

\* The same in a reply.
Word2(b) == b[1] + (256 * b[2])
Word4(b) == b[1] + (256 * (b[2] + (256 * (b[3] + (256 * b[4])))))

\* Mutated form: the cast is to uint8_t.
uint16_narrow(x) == BYTE_0(x)

\* The casts to uint8_t and uint16_t.
uint8(x) == BYTE_0(x)
uint16(x) == Word2(Bytes2(x))

\* (x & BIT_MASK(low, high)) >> low, with unit = 2^low, range = 2^(high-low+1).
Field(x, unit, range) == (x \div unit) % range

\* The fields of the first two bytes of a service.
get_service1_SrvLinkingInfoFlag(x) == Field(x, 64, 2)
get_service1_Pty(x)                == Field(x, 2, 32)
get_service1_PD_flag(x)            == Field(x, 1, 2)
get_service2_LOCAL_flag(x)         == Field(x, 128, 2)
get_service2_CAId(x)               == Field(x, 16, 8)
get_service2_NUM_COMP(x)           == Field(x, 1, 16)
=============================================================================
