------------------------------ MODULE Registry ------------------------------
(***************************************************************************)
(* Enum and Registry (ttlv/registry.go), and the spellings of their values *)
(* (ttlv/formatting.go, internal/kmiputil/hex_values.go).                  *)
(*                                                                         *)
(* A spelling is a sequence of parts, which "|" or a space separate in a   *)
(* mask: a name, the bytes of a hex string, a hex string that is malformed *)
(* or has a sign, or a decimal number.                                     *)
(***************************************************************************)
EXTENDS Wire, Names

NamePart(s)  == [k |-> "name", name |-> s]
HexPart(bs)  == [k |-> "hex", bytes |-> bs]
DecPart(n)   == [k |-> "dec", n |-> n]
BadHex       == [k |-> "bad"]
SignedHex    == [k |-> "signed"]

\* fmt.Sprintf with "%#02x", "%#06x" or "%#08x": w bytes.
Hex(n, w) == HexPart(BigEndian(n, w))

----------------------------------------------------------------------------
(***************************************************************************)
(* Enum.                                                                   *)
(***************************************************************************)

Put(f, x, y) == [z \in DOMAIN f \cup {x} |-> IF z = x THEN y ELSE f[z]]

\* NewEnum and NewBitmask.  A nil EnumMap answers like an empty one.
NewEnum(mask) ==
  [valuesToName |-> <<>>, nameToValue |-> <<>>,
   valuesToCanonicalName |-> <<>>, canonicalNamesToValue |-> <<>>, bitMask |-> mask]

\* What was known of v or of the name before stays in the reverse maps.
RegisterValue(e, v, name) ==
  [e EXCEPT !.valuesToName = Put(@, v, NormalizeName(name)),
            !.nameToValue = Put(@, NormalizeName(name), v),
            !.valuesToCanonicalName = Put(@, v, name),
            !.canonicalNamesToValue = Put(@, name, v)]

HasName(e, v) == v \in DOMAIN e.valuesToName

\* Value: the normalized names are tried first.
HasValue(e, s) == s \in DOMAIN e.nameToValue \/ s \in DOMAIN e.canonicalNamesToValue
Value(e, s) == IF s \in DOMAIN e.nameToValue THEN e.nameToValue[s] ELSE e.canonicalNamesToValue[s]

Values(e) == DOMAIN e.valuesToName

----------------------------------------------------------------------------
(***************************************************************************)
(* Formatting.                                                             *)
(***************************************************************************)

\* FormatType (w = 1), FormatTag (3) and FormatEnum (4).
FormatName(v, e, w) == IF HasName(e, v) THEN NamePart(e.valuesToName[v]) ELSE Hex(v, w)

FormatTagCanonical(v, e) ==
  IF v \in DOMAIN e.valuesToCanonicalName THEN NamePart(e.valuesToCanonicalName[v]) ELSE Hex(v, lenTag)

\* The bits of an unsigned number, and back.
Bits(n)    == {i \in 0 .. ByteBits * lenInt - 1 : (n \div 2 ^ i) % 2 = 1}
Number(bs) == LET n == ByteBits * lenInt IN FromDigits([i \in 1 .. n |-> IF n - i \in bs THEN 1 ELSE 0], 1)

Int32(n)  == LET m == n % Pow(lenInt) IN IF m < Pow(lenInt) \div 2 THEN m ELSE m - Pow(lenInt)
Uint32(n) == n % Pow(lenInt)

\* One round of the loop in FormatInt, with the rest of the mask in a.v.
FormatFlag(a, v1, e) ==
  LET hit == Bits(v1) \subseteq Bits(a.v)
      v   == IF hit THEN a.v - v1 ELSE a.v
  IN  [v |-> v, stop |-> v = 0, out |-> IF hit THEN Append(a.out, NamePart(e.valuesToName[v1])) ELSE a.out]

\* The loop, over the sorted values.
FormatFlags(i, e) ==
  MapThenFoldSet(LAMBDA v1, a : IF a.stop THEN a ELSE FormatFlag(a, v1, e),
                 [v |-> Uint32(i), stop |-> FALSE, out |-> <<>>], LAMBDA v1 : v1, Max, Values(e))

\* Variant: bits without a name are dropped.
FormatIntDropsRest(i, e) ==
  IF Values(e) = {} THEN <<IF i < 0 THEN SignedHex ELSE Hex(i, lenInt)>> ELSE FormatFlags(i, e).out

\* FormatInt: the names of the flags that are set, and the rest as hex.
FormatInt(i, e) ==
  IF Values(e) = {} THEN <<IF i < 0 THEN SignedHex ELSE Hex(i, lenInt)>>
  ELSE LET a == FormatFlags(i, e)
       IN  IF a.v = 0 THEN a.out ELSE Append(a.out, Hex(a.v, lenInt))

----------------------------------------------------------------------------
(***************************************************************************)
(* Parsing.                                                                *)
(***************************************************************************)

Found(n) == [res |-> "ok", v |-> n]
NotFound == [res |-> "error", v |-> 0]
Panics   == [res |-> "panic", v |-> 0]

\* The bytes that ParseHexValue compares with its limit.
Significant(bs) == Len(bs) + 1 - Min({i \in 1 .. Len(bs) + 1 : i \in DOMAIN bs => bs[i] # 0})

\* ParseHexValue accepts all the bytes if those after the leading zeros are no
\* more than max.
ParsesHex(p, max) == p.k = "hex" /\ Significant(p.bytes) <= max

\* Variant: the padding comes last.
DecodePadsRight(bs) == Unsigned(SubSeq(bs \o Zeros(lenInt), 1, lenInt))

\* The first four bytes, after padding to four.
DecodeUint32(bs) ==
  Unsigned(IF Len(bs) < lenInt THEN Zeros(lenInt - Len(bs)) \o bs ELSE SubSeq(bs, 1, lenInt))

parseHexOrName(p, max, e) ==
  IF ParsesHex(p, max) THEN Found(DecodeUint32(p.bytes))
  ELSE IF p.k = "name" /\ HasValue(e, p.name) THEN Found(Value(e, p.name))
  ELSE NotFound

ParseEnum(p, e) ==
  IF p.k = "dec" /\ p.n \in 0 .. Pow(lenInt) - 1 THEN Found(p.n) ELSE parseHexOrName(p, lenInt, e)

ParseTag(p, e) == parseHexOrName(p, lenTag, e)

\* The first of the bytes is the type.
ParseType(p, e) ==
  IF ParsesHex(p, 1) THEN IF p.bytes = <<>> THEN Panics ELSE Found(p.bytes[1])
  ELSE parseHexOrName(p, 0, e)

\* The parts that ParseInt splits s into: a space separates too.
SplitName(n) == LET ws == SelectSeq(Words(n), LAMBDA w : w # <<>>) IN [i \in DOMAIN ws |-> NamePart(ws[i])]
Flags(s) == Joined([i \in DOMAIN s |-> IF s[i].k = "name" THEN SplitName(s[i].name) ELSE <<s[i]>>])

\* ParseInt: one number, or flags that are combined.
ParseInt(s, e) ==
  LET fs      == Flags(s)
      flag(i) == parseHexOrName(fs[i], lenInt, e)
  IN  IF Len(s) = 1 /\ s[1].k = "dec" /\ s[1].n = Int32(s[1].n) THEN Found(s[1].n)
      ELSE IF s = <<>> \/ \E i \in DOMAIN fs : flag(i).res # "ok" THEN NotFound
      ELSE Found(Int32(Number(UNION {Bits(flag(i).v) : i \in DOMAIN fs})))

----------------------------------------------------------------------------
(***************************************************************************)
(* Registry.                                                               *)
(***************************************************************************)

\* What the map of enums holds for a tag: an Enum, or a pointer to the Enum of
\* the tags or the types of the registry itself.
Own(e)   == [of |-> "own", enum |-> e]
TagsRef  == [of |-> "tags"]
TypesRef == [of |-> "types"]

EmptyRegistry == [tags |-> NewEnum(FALSE), types |-> NewEnum(FALSE), enums |-> <<>>]

\* Variant: the first Enum of a tag stays.
RegisterFirstEnum(r, t, def) == [r EXCEPT !.enums = IF t \in DOMAIN @ THEN @ ELSE Put(@, t, def)]

RegisterType(r, t, name) == [r EXCEPT !.types = RegisterValue(@, t, name)]
RegisterTag(r, t, name)  == [r EXCEPT !.tags = RegisterValue(@, t, name)]
RegisterEnum(r, t, def)  == [r EXCEPT !.enums = Put(@, t, def)]

EnumForTag(r, t) ==
  IF t \notin DOMAIN r.enums THEN NewEnum(FALSE)
  ELSE IF r.enums[t].of = "tags" THEN r.tags
  ELSE IF r.enums[t].of = "types" THEN r.types
  ELSE r.enums[t].enum

IsBitmask(r, t) == t \in DOMAIN r.enums /\ EnumForTag(r, t).bitMask
IsEnum(r, t)    == t \in DOMAIN r.enums /\ ~EnumForTag(r, t).bitMask
=============================================================================
