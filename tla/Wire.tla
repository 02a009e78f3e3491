-------------------------------- MODULE Wire --------------------------------
(***************************************************************************)
(* The TTLV format (ttlv/ttlv.go, ttlv/types.go): a header of tag, type    *)
(* and length, then the value, filled up to a multiple of eight bytes.     *)
(* All lengths are those of the code; a byte has ByteBits bits.            *)
(***************************************************************************)
EXTENDS Numerals

CONSTANT ByteBits  \* 8 in the code

ASSUME ByteAssumption == ByteBits \in Nat \ {0}

\* How many numbers there are of a byte, and of w bytes.
Base == 2 ^ ByteBits
Pow(w) == 2 ^ (ByteBits * w)

TypeStructure        == 1
TypeInteger          == 2
TypeLongInteger      == 3
TypeBigInteger       == 4
TypeEnumeration      == 5
TypeBoolean          == 6
TypeTextString       == 7
TypeByteString       == 8
TypeDateTime         == 9
TypeInterval         == 10
TypeDateTimeExtended == 11

lenTag     == 3
lenLen     == 4
lenInt     == 4
lenLongInt == 8
lenHeader  == 8

IntTypes  == {TypeInteger, TypeEnumeration, TypeInterval}
LongTypes == {TypeLongInteger, TypeBoolean, TypeDateTime, TypeDateTimeExtended}
TextTypes == {TypeTextString, TypeByteString}

\* binary.BigEndian.PutUint32 (k = 4) and PutUint64 (k = 8) of n converted to
\* an integer of k bytes: the two's complement if n is negative.
BigEndian(n, k) == DigitsOf(n, ByteBits, k)

\* binary.BigEndian.Uint32 and Uint64.
Unsigned(bs) == FromDigits(bs, ByteBits)

\* The bytes that fill up n bytes to a multiple of eight.
Padding(n) == IF n % 8 > 0 THEN 8 - (n % 8) ELSE 0

Zeros(n) == [i \in 1 .. n |-> 0]
=============================================================================
