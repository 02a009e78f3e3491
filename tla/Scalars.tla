------------------------------ MODULE Scalars -------------------------------
(***************************************************************************)
(* The way of a Go value other than a struct to bytes and back:            *)
(* Encoder.encode with the encode methods of encBuf (ttlv/encoder.go), the *)
(* Value methods of TTLV (ttlv/ttlv.go) and Decoder.unmarshal              *)
(* (ttlv/decoder.go).                                                      *)
(*                                                                         *)
(* Widths in bytes are those of the code, so that with small bytes every   *)
(* integer type has all its values.  Times and durations count             *)
(* nanoseconds from the epoch.                                             *)
(***************************************************************************)
EXTENDS Wire, FiniteSetsExt

CONSTANTS
  Kilo,      \* nanoseconds in a microsecond, 1000
  Mega,      \* microseconds in a second, 1000000
  ZeroTime,  \* time.Time{}
  Parsed,    \* Parsed[reg, m]: the strings ParseInt (m) or ParseEnum (~m) accepts,
             \* with their numbers
  Inputs     \* the values to encode, see Input

Second == Kilo * Mega

\* int64 and time.Duration share a reflect.Kind, but not the type.
SmallInts  == {"int8", "int16", "int32", "int"}
SmallUints == {"uint8", "uint16", "uint32", "uint"}
Kinds == SmallInts \cup SmallUints \cup
         {"int64", "uint64", "duration", "time", "bigint", "bool", "string", "bytes"}

Width(kind) ==
  CASE kind \in {"int8", "uint8"}   -> 1
    [] kind \in {"int16", "uint16"} -> 2
    [] kind \in {"int32", "uint32"} -> 4
    [] OTHER                        -> 8

\* A Go value: n is its number, s its bytes if it is a string or []byte.  The n of
\* a []byte is 0 if it is nil, and 1 if it is not.
GoValue == [kind : Kinds \cup {"nil", "float"}, n : Int, s : Seq(Nat)]

\* What encode looks at: the value, the flags of the struct field, what the
\* registry says of the tag, and whether there is a tag.
Input == [v      : GoValue,
          flags  : SUBSET {"omitempty", "enum", "bitmask", "datetimeextended"},
          reg    : {"none", "enum", "bitmask"},
          tagged : BOOLEAN]

VARIABLES
  in,    \* the value and its context
  pc,    \* "encode", "decode" or "done"
  leaf,  \* what encode did: it wrote a leaf or nothing, or returned an error
  dest,  \* the kind of the variable that is decoded into
  back   \* what unmarshal did: it stored a value, returned an error or panicked

vars == <<in, pc, leaf, dest, back>>

----------------------------------------------------------------------------
(***************************************************************************)
(* Integers of fixed width.                                                *)
(***************************************************************************)

\* The top bit of a byte.
TopBit(b) == b >= Base \div 2

\* The two's complement value.
Signed(bs) == Unsigned(bs) - (IF TopBit(bs[1]) THEN Pow(Len(bs)) ELSE 0)

Fits(n, w)  == -(Pow(w) \div 2) <= n /\ n < Pow(w) \div 2
UFits(n, w) == 0 <= n /\ n < Pow(w)

MaxInt32 == Pow(lenInt) \div 2 - 1

\* int64 and uint64 of an integer.
Int64(n)  == LET m == n % Pow(8) IN IF m < Pow(8) \div 2 THEN m ELSE m - Pow(8)
Uint64(n) == n % Pow(8)

\* Go's division of integers, towards zero.
Quotient(n, d) == IF n >= 0 THEN n \div d ELSE -((-n) \div d)

\* What the type of a Go value says of it.  The seconds of a time are an int64.
HasType(v) ==
  /\ v.kind \in SmallInts \cup {"int64", "duration"} => Fits(v.n, Width(v.kind))
  /\ v.kind \in SmallUints \cup {"uint64"} => UFits(v.n, Width(v.kind))
  /\ v.kind = "bool" => v.n \in {0, 1}
  /\ v.kind = "time" => Fits(v.n \div Second, 8)
  /\ v.kind = "string" => v.n = 0
  /\ v.kind = "bytes" => v.n = 1 \/ (v.n = 0 /\ v.s = <<>>)
  /\ v.kind \notin {"string", "bytes"} => v.s = <<>>

ASSUME ScalarsAssumption ==
  /\ Kilo \in Nat \ {0} /\ Mega \in Nat \ {0} /\ ZeroTime \in Int
  /\ \A i \in Inputs : i \in Input /\ HasType(i.v)

----------------------------------------------------------------------------
(***************************************************************************)
(* Big integers.                                                           *)
(***************************************************************************)

Ones(n) == [i \in 1 .. n |-> Base - 1]

\* big.Int: the bytes without leading zeros, and the length in bits.
ByteLen(n) == CHOOSE k \in 0 .. n : n < Pow(k) /\ \A j \in 0 .. k - 1 : Pow(j) <= n
BitLen(n)  == CHOOSE k \in 0 .. n : n < 2 ^ k /\ \A j \in 0 .. k - 1 : 2 ^ j <= n
Bytes(n)   == BigEndian(n, ByteLen(n))

\* The bytes of a positive number, with a zero in front if they would look
\* like a negative one.
Positive(n) == IF TopBit(Bytes(n)[1]) THEN <<0>> \o Bytes(n) ELSE Bytes(n)

\* The bytes of a negative number, without a superfluous one in front.
Negative(n) ==
  LET b == Bytes(n + Pow(BitLen(-n) \div ByteBits + 1))
  IN  IF Len(b) >= 2 /\ b[1] = Base - 1 /\ TopBit(b[2]) THEN Tail(b) ELSE b

\* Variant: the zero in front is not counted when the padding is computed.
PadsBytesOnly(n) ==
  IF n = 0 THEN Zeros(8)
  ELSE IF n > 0 THEN Zeros(Padding(Len(Bytes(n)))) \o Positive(n)
  ELSE Ones(Padding(Len(Negative(n)))) \o Negative(n)

\* encodeBigInt: the sign is extended to a multiple of eight bytes.
encodeBigInt(n) ==
  IF n = 0 THEN Zeros(8)
  ELSE IF n > 0 THEN Zeros(Padding(Len(Positive(n)))) \o Positive(n)
  ELSE Ones(Padding(Len(Negative(n)))) \o Negative(n)

\* A byte that repeats the sign of the next one.
IsPad(bs, i) == bs[i] = IF TopBit(bs[i + 1]) THEN Base - 1 ELSE 0

unpadBigInt(bs) ==
  IF bs = <<>> THEN bs
  ELSE SubSeq(bs, Min({i \in 1 .. Len(bs) : i = Len(bs) \/ ~IsPad(bs, i)}), Len(bs))

unmarshalBigInt(bs) == IF bs = <<>> THEN 0 ELSE Signed(bs)

----------------------------------------------------------------------------
(***************************************************************************)
(* Encoder.encode.                                                         *)
(***************************************************************************)

None        == [res |-> "skip", type |-> 0, raw |-> <<>>]
Err(cause)  == [res |-> cause, type |-> 0, raw |-> <<>>]
Wrote(t, b) == [res |-> "ok", type |-> t, raw |-> b]

\* The zero value of a kind.
Zero(kind) == [kind |-> kind, n |-> IF kind = "time" THEN ZeroTime ELSE 0, s |-> <<>>]

\* Variant: the epoch counts as the empty time.
EmptyAtEpoch(v) == v.n = 0 /\ v.s = <<>>

EmptyBytes(v) == v.kind = "bytes" /\ v.s = <<>>

isEmptyValue(v) == EmptyBytes(v) \/ v = Zero(v.kind)

\* indirect finds nothing.
IsNil(v) == v.kind = "nil" \/ v = Zero("bytes")

encodeInt(n)     == Wrote(TypeInteger, BigEndian(n, lenInt))
encodeEnum(n)    == Wrote(TypeEnumeration, BigEndian(n, lenInt))
encodeLongInt(n) == Wrote(TypeLongInteger, BigEndian(n, lenLongInt))
encodeBool(n)    == Wrote(TypeBoolean, BigEndian(n, lenLongInt))

\* The quotient is truncated to a uint32.
encodeInterval(d) == Wrote(TypeInterval, BigEndian(Quotient(d, Second), lenInt))

\* Time.Unix rounds down.
encodeDateTime(t) == Wrote(TypeDateTime, BigEndian(t \div Second, lenLongInt))

encodeDateTimeExtended(t) ==
  Wrote(TypeDateTimeExtended,
        BigEndian((t \div Second) * Mega + (t % Second) \div Kilo, lenLongInt))

\* Enumerations and bitmasks: the field's flags or the registry ask for one.
IsBitmask(i)  == "bitmask" \in i.flags \/ i.reg = "bitmask"
Flagged(i)    == i.flags \cap {"enum", "bitmask"} # {}
AsEnum(i)     == Flagged(i) \/ i.reg # "none"
IsNumber(v)   == v.kind \in SmallInts \cup SmallUints
Names(i)      == Parsed[i.reg, IsBitmask(i)]
Parses(i)     == i.v.kind = "string" /\ i.v.s \in DOMAIN Names(i)
EnumNumber(i) == IF IsNumber(i.v) THEN i.v.n ELSE Names(i)[i.v.s]

encodeEnumOrMask(i) ==
  IF IsBitmask(i) THEN encodeInt(EnumNumber(i)) ELSE encodeEnum(EnumNumber(i))

\* What cannot be parsed or is no enum type is an error if the field has the
\* flag that was tried.  A string is tried as a bitmask or as an enum.
EnumError(i) ==
  IF i.v.kind = "string"
    THEN (IF IsBitmask(i) THEN "bitmask" ELSE "enum") \in i.flags
    ELSE Flagged(i)

\* The special types.
SpecialTypes == {"time", "bigint", "duration"}

encodeSpecial(v, flags) ==
  CASE v.kind = "bigint"   -> Wrote(TypeBigInteger, encodeBigInt(v.n))
    [] v.kind = "duration" -> encodeInterval(v.n)
    [] v.kind = "time"     -> IF "datetimeextended" \in flags THEN encodeDateTimeExtended(v.n)
                                                              ELSE encodeDateTime(v.n)

\* The rest of the kinds, without structs; a []byte that is nil does not get here.
encodeKind(v) ==
  CASE v.kind = "string" -> Wrote(TypeTextString, v.s)
    [] v.kind = "bytes"  -> Wrote(TypeByteString, v.s)
    [] v.kind = "bool"   -> encodeBool(v.n)
    [] IsNumber(v)       -> IF v.n > MaxInt32 THEN Err("ErrIntOverflow") ELSE encodeInt(v.n)
    [] v.kind \in {"int64", "uint64"} -> encodeLongInt(v.n)

\* encode, of a value that is neither a Marshaler, a slice of values nor a
\* struct: the first condition that holds decides.
encode(i) ==
  IF IsNil(i.v) THEN None
  ELSE IF i.v.kind = "float" THEN Err("ErrUnsupportedTypeError")
  ELSE IF "omitempty" \in i.flags /\ isEmptyValue(i.v) THEN None
  ELSE IF ~i.tagged THEN Err("ErrNoTag")
  ELSE IF AsEnum(i) /\ (IsNumber(i.v) \/ Parses(i)) THEN encodeEnumOrMask(i)
  ELSE IF AsEnum(i) /\ EnumError(i) THEN Err("ErrEnum")
  ELSE IF i.v.kind \in SpecialTypes THEN encodeSpecial(i.v, i.flags)
  ELSE encodeKind(i.v)

----------------------------------------------------------------------------
(***************************************************************************)
(* Decoder.unmarshal.                                                      *)
(***************************************************************************)

\* The number of TTLV.Value, in the unit of the Go type.  ValueRaw is nil if there
\* are no bytes.
ValueNumber(l) ==
  CASE l.type \in {TypeInteger, TypeLongInteger} -> Signed(l.raw)
    [] l.type = TypeEnumeration      -> Unsigned(l.raw)
    [] l.type = TypeBigInteger       -> unmarshalBigInt(unpadBigInt(l.raw))
    [] l.type = TypeBoolean          -> IF l.raw[8] # 0 THEN 1 ELSE 0
    [] l.type = TypeInterval         -> Int64(Unsigned(l.raw) * Second)
    [] l.type = TypeDateTime         -> Signed(l.raw) * Second
    [] l.type = TypeDateTimeExtended -> Int64(Signed(l.raw) * Kilo)
    [] l.type = TypeTextString       -> 0
    [] l.type = TypeByteString       -> IF l.raw = <<>> THEN 0 ELSE 1

\* The Go type of TTLV.Value, that an interface{} gets: "enum" is EnumValue, and
\* "dateext" DateTimeExtended.
ValueKind(t) ==
  CASE t = TypeInteger     -> "int32"
    [] t = TypeLongInteger -> "int64"
    [] t = TypeEnumeration -> "enum"
    [] t = TypeBigInteger  -> "bigint"
    [] t = TypeBoolean     -> "bool"
    [] t = TypeInterval    -> "duration"
    [] t = TypeTextString  -> "string"
    [] t = TypeByteString  -> "bytes"
    [] t = TypeDateTime    -> "time"
    [] t = TypeDateTimeExtended -> "dateext"

\* The kinds that unmarshal stores a type in.
Accepted(t) ==
  CASE t \in {TypeInteger, TypeEnumeration} -> SmallInts \cup SmallUints
    [] t = TypeLongInteger -> {"int64", "duration", "uint64"}
    [] t = TypeInterval    -> {"int64", "duration"}
    [] t \in {TypeDateTime, TypeDateTimeExtended} -> {"time"}
    [] OTHER               -> {ValueKind(t)}

Value(l, kind, n) ==
  [kind |-> kind, n |-> n, s |-> IF l.type \in TextTypes THEN l.raw ELSE <<>>]

Stored(v)     == [res |-> "ok", v |-> v]
Failed(cause) == [res |-> cause, v |-> Zero("nil")]

\* Variant: the number is stored in the low bytes of the destination.
UncheckedNumber(l, kind) ==
  LET n == ValueNumber(l) % Pow(Width(kind))
  IN  Stored(Value(l, kind, IF kind \in SmallInts /\ ~Fits(n, Width(kind))
                              THEN n - Pow(Width(kind)) ELSE n))

\* OverflowInt and SetInt, or OverflowUint and SetUint after a conversion.
storeNumber(l, kind) ==
  LET n == ValueNumber(l)
  IN  IF kind \in SmallUints
        THEN IF UFits(Uint64(n), Width(kind)) THEN Stored(Value(l, kind, Uint64(n)))
                                              ELSE Failed("ErrIntOverflow")
        ELSE IF Fits(n, Width(kind)) THEN Stored(Value(l, kind, n))
                                     ELSE Failed("ErrIntOverflow")

\* Type.Elem panics for kinds without elements, all but []byte here.
Mismatch(l) ==
  Failed(IF l.type = TypeByteString THEN "panic" ELSE "ErrUnsupportedTypeError")

\* unmarshal, into a variable that is neither an Unmarshaler nor a slice of
\* values.
unmarshal(l, kind) ==
  IF kind = "any" THEN Stored(Value(l, ValueKind(l.type), ValueNumber(l)))
  ELSE IF kind \notin Accepted(l.type) THEN Mismatch(l)
  ELSE IF kind \in SmallInts \cup SmallUints THEN storeNumber(l, kind)
  ELSE Stored(Value(l, kind, IF kind = "uint64" THEN Uint64(ValueNumber(l)) ELSE ValueNumber(l)))

----------------------------------------------------------------------------
Init ==
  /\ in \in Inputs
  /\ pc = "encode"
  /\ leaf = None
  /\ dest = "any"
  /\ back = Failed("none")

Encode ==
  /\ pc = "encode"
  /\ leaf' = encode(in)
  /\ pc' = IF leaf'.res \in {"ok", "skip"} THEN "decode" ELSE "done"
  /\ UNCHANGED <<in, dest, back>>

\* A value that was skipped leaves the variable as it was, zero.
Decode ==
  /\ pc = "decode"
  /\ \E kind \in Kinds \cup {"any"} :
       /\ dest' = kind
       /\ back' = IF leaf.res = "skip" THEN Stored(Zero(kind)) ELSE unmarshal(leaf, kind)
  /\ pc' = "done"
  /\ UNCHANGED <<in, leaf>>

Next == Encode \/ Decode

Spec == Init /\ [][Next]_vars

----------------------------------------------------------------------------
Types == TypeInteger .. TypeDateTimeExtended
\* The value is in the range of the wire type it was written as.
InRange ==
  CASE leaf.type = TypeInteger          -> Fits(in.v.n, lenInt)
    [] leaf.type = TypeEnumeration      -> UFits(in.v.n, lenInt)
    [] leaf.type = TypeInterval         -> UFits(Quotient(in.v.n, Second), lenInt) /\ in.v.n >= 0
    [] leaf.type = TypeDateTimeExtended -> Fits(in.v.n - (in.v.n % Kilo), lenLongInt)
    [] OTHER                            -> TRUE

\* The value with the precision of its wire type: seconds, or microseconds.
Rounded ==
  CASE leaf.type = TypeDateTimeExtended -> in.v.n - (in.v.n % Kilo)
    [] leaf.type \in {TypeDateTime, TypeInterval} -> in.v.n - (in.v.n % Second)
    [] OTHER -> in.v.n

\* A value that Marshal accepts and that is in the range of its wire type
\* comes back from Unmarshal into a variable of its own type as it was, up to
\* the precision of the wire type.  This holds for a field that omitempty left
\* out too.  There are two exceptions: an empty []byte comes back as nil, and
\* nothing is said of a string that was written as an enumeration.
RoundTrip ==
  pc = "done" /\ dest = in.v.kind /\ leaf.res \in {"ok", "skip"} /\ InRange
    /\ ~(in.v.kind = "string" /\ leaf.type \in {TypeInteger, TypeEnumeration})
  => back = Stored(IF EmptyBytes(in.v) THEN Zero("bytes") ELSE [in.v EXCEPT !.n = Rounded])

\* An integer that is in the range of its wire type is never changed on its
\* way to a variable of another integer type: unmarshal stores the same number
\* or returns an error.  The exception is a negative Integer and a uint, whose
\* OverflowUint cannot see that the conversion to uint64 wrapped.
NumbersNotChanged ==
  pc = "done" /\ leaf.res = "ok" /\ back.res = "ok" /\ IsNumber(in.v) /\ InRange
    /\ dest \in SmallInts \cup SmallUints /\ ~(dest = "uint" /\ in.v.n < 0)
  => back.v.n = in.v.n

\* encode writes values of the lengths that ValidHeader demands, and that the
\* encoder's buffer needs to stay aligned (LeavesAssumption of Encoding).
ValidLengths ==
  leaf.res = "ok" =>
    /\ leaf.type \in IntTypes => Len(leaf.raw) = lenInt
    /\ leaf.type \in LongTypes => Len(leaf.raw) = lenLongInt
    /\ leaf.type = TypeBigInteger => Len(leaf.raw) % 8 = 0

\* Unmarshal's rule for destinations: a type that the value cannot be stored
\* in is refused with ErrUnsupportedTypeError.
MismatchRefused ==
  pc = "done" /\ leaf.res = "ok" /\ dest # "any" /\ dest \notin Accepted(leaf.type)
  => back.res = "ErrUnsupportedTypeError"
=============================================================================
