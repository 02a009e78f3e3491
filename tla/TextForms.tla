----------------------------- MODULE TextForms ------------------------------
(***************************************************************************)
(* The XML and JSON forms of a TTLV (ttlv/ttlv.go).                        *)
(*                                                                         *)
(* A TTLV has a tag, a type, and a number (n), bytes, text or kids.  In    *)
(* XML and JSON it is an element or object: a tag, a type, which a         *)
(* Structure does not have, and a value.                                   *)
(***************************************************************************)
EXTENDS Registry, SequencesExt

CONSTANTS
  R,                  \* DefaultRegistry
  tagAttributeName,
  tagAttributeValue,
  maxJSONInt,
  Micro, Second,      \* nanoseconds of a microsecond and of a second
  FirstYear,          \* the seconds of the years 0 to 9999, from the epoch
  LastYear,
  ZeroTime            \* the second of time.Time{}

TagNone == 0

MarkedTypes == {TypeDateTime, TypeDateTimeExtended}
NamedTypes  == {TypeInteger, TypeEnumeration}

\* Values: true or false, a number, spelled words, hex digits, text, a date,
\* the parts of a Structure.  XML has strings only: Num is then written in
\* decimal.
Bool(b)    == [bool |-> b]
Num(n)     == [num |-> n]
Spelled(s) == [words |-> s]
Digits(bs) == [digits |-> bs]
Quoted(s)  == [chars |-> s]
Date(ns)   == [date |-> ns]
Parts(ds)  == [parts |-> ds]

Is(v, form) == form \in DOMAIN v

\* An element or object; NoName is an absent type or attribute.
NoName == [k |-> "absent"]
Object(tag, tp, v)       == [tag |-> tag, type |-> tp, value |-> v]
Element(name, tag, tp, v) == [name |-> name, tag |-> tag, type |-> tp, value |-> v]

Read(t)  == [ok |-> TRUE, t |-> t]
Refused  == [ok |-> FALSE]

Leaf(tag, tp, n)      == [tag |-> tag, tp |-> tp, n |-> n]
BytesLeaf(tag, tp, b) == [tag |-> tag, tp |-> tp, bytes |-> b]
TextLeaf(tag, s)      == [tag |-> tag, tp |-> TypeTextString, text |-> s]
Structure(tag, kids)  == [tag |-> tag, tp |-> TypeStructure, kids |-> kids]

----------------------------------------------------------------------------
(***************************************************************************)
(* Numbers and dates.                                                      *)
(***************************************************************************)

Int64(n) ==
  LET m == n % Pow(lenLongInt) IN IF m < Pow(lenLongInt) \div 2 THEN m ELSE m - Pow(lenLongInt)

\* Variant: the padding comes last.
Decode64PadsRight(bs) == Unsigned(SubSeq(bs \o Zeros(lenLongInt), 1, lenLongInt))

\* DecodeUint64: the first eight bytes, after padding to eight.
DecodeUint64(bs) ==
  Unsigned(IF Len(bs) < lenLongInt THEN Zeros(lenLongInt - Len(bs)) \o bs ELSE SubSeq(bs, 1, lenLongInt))

\* unmarshalBigInt.
BigInt(bs) ==
  IF bs # <<>> /\ bs[1] >= Base \div 2 THEN Unsigned(bs) - Pow(Len(bs)) ELSE Unsigned(bs)

\* unpadBigInt: without the bytes that only repeat the sign.
unpadBigInt(bs) ==
  LET pads(i) == \/ bs[i] = Base - 1 /\ bs[i + 1] >= Base \div 2
                 \/ bs[i] = 0 /\ bs[i + 1] < Base \div 2
      kept == {i \in DOMAIN bs : \A j \in 1 .. i - 1 : pads(j)}
  IN  IF bs = <<>> THEN bs ELSE SubSeq(bs, Max(kept), Len(bs))

\* encodeBigInt: the fewest bytes, a multiple of eight.
BigBytes(n) ==
  LET fits(k) == n \in -(Pow(8 * k) \div 2) .. Pow(8 * k) \div 2 - 1
  IN  IF fits(1) THEN BigEndian(n, 8) ELSE BigEndian(n, 16)

\* A JSON number is read as a float64, which has one bit more than maxJSONInt.
Abs(n) == IF n < 0 THEN -n ELSE n
Float64(n) ==
  LET unit == IF Abs(n) <= 2 * maxJSONInt THEN 1 ELSE IF Abs(n) <= 4 * maxJSONInt THEN 2 ELSE 4
  IN  IF n < 0 THEN -((-n) \div unit) * unit ELSE (n \div unit) * unit

\* ValueDateTime, in nanoseconds from the epoch.
ValueDateTime(t) == IF t.tp = TypeDateTimeExtended THEN Int64(t.n * Micro) ELSE t.n * Second

\* Dates outside the years 0 to 9999 have no JSON form and cannot be parsed.
HasYear(ns) == ns \div Second \in FirstYear .. LastYear

\* encodeDateTime and encodeDateTimeExtended.
DateLeaf(tag, tp, ns) ==
  Leaf(tag, tp, IF tp = TypeDateTime THEN ns \div Second
                ELSE Int64((ns \div Second) * (Second \div Micro) + (ns % Second) \div Micro))

ValueBoolean(t) == t.n % Base # 0

\* What encoding/json and encoding/xml write for text: a character that is not
\* valid becomes U+FFFD.
Sanitized(s, invalid) == [i \in DOMAIN s |-> IF s[i] \in invalid THEN "fffd" ELSE s[i]]
NotUTF8 == {"bad"}
NotXML  == {"bad", "control"}

----------------------------------------------------------------------------
(***************************************************************************)
(* Tags.                                                                   *)
(***************************************************************************)

String(tag)      == FormatName(tag, R.tags, lenTag)
TypeString(tp)   == FormatName(tp, R.types, 1)
Registered(tag)  == tag \in DOMAIN R.enums

\* The tag that an AttributeName stands for.
TagNamed(s) ==
  LET p == ParseTag(NamePart(NormalizeName(s)), R.tags) IN IF p.res = "ok" THEN p.v ELSE TagNone

\* attrTag after these kids of a structure: the last AttributeName counts.
AttrTag(kids) ==
  LET names == {j \in DOMAIN kids : kids[j].tag = tagAttributeName}
  IN  IF names = {} THEN TagNone ELSE TagNamed(kids[Max(names)].text)

\* Variant: the attribute's name is not looked at.
OwnTag(tag, attr) == tag

\* enumTag.
EnumTagFor(tag, attr) == IF tag = tagAttributeValue /\ attr # TagNone THEN attr ELSE tag

\* The parts of a structure that depend on the AttributeName before them.
ByAttribute(kid) == kid.tag = tagAttributeValue /\ kid.tp \in NamedTypes

----------------------------------------------------------------------------
(***************************************************************************)
(* JSON.                                                                   *)
(***************************************************************************)

HexString(bs) == Spelled(<<HexPart(bs)>>)

\* FormatEnum, and FormatInt if the tag has an enum.
NamedValue(tp, n, tag) ==
  IF tp = TypeEnumeration THEN Spelled(<<FormatName(n, EnumForTag(R, tag), lenInt)>>)
  ELSE IF Registered(tag) THEN Spelled(FormatInt(n, EnumForTag(R, tag)))
  ELSE Num(n)

\* Variant: a number of any size.
JSONNumberOfAnySize(n, bs) == Num(n)

\* A number beyond maxJSONInt is written in hex.
JSONNumber(n, bs) == IF Abs(n) < maxJSONInt THEN Num(n) ELSE HexString(bs)

JSONValue(t) ==
  CASE t.tp = TypeBoolean     -> Bool(ValueBoolean(t))
    [] t.tp \in NamedTypes    -> NamedValue(t.tp, t.n, t.tag)
    [] t.tp = TypeLongInteger -> JSONNumber(t.n, BigEndian(t.n, lenLongInt))
    [] t.tp = TypeBigInteger  -> JSONNumber(BigInt(t.bytes), t.bytes)
    [] t.tp = TypeTextString  -> Quoted(Sanitized(t.text, NotUTF8))
    [] t.tp = TypeByteString  -> Digits(t.bytes)
    [] t.tp \in MarkedTypes   -> Date(ValueDateTime(t))
    [] t.tp = TypeInterval    -> Num(t.n)

\* The error of time.Time.MarshalJSON ends MarshalJSON.
RECURSIVE MarshalJSONFails(_)
MarshalJSONFails(t) ==
  \/ t.tp \in MarkedTypes /\ ~HasYear(ValueDateTime(t))
  \/ t.tp = TypeStructure /\ \E i \in DOMAIN t.kids : MarshalJSONFails(t.kids[i])

RECURSIVE MarshalJSON(_)
MarshalJSON(t) ==
  LET part(i) ==
        LET kid == t.kids[i] IN
        IF ByAttribute(kid)
        THEN Object(String(kid.tag), TypeString(kid.tp),
                    NamedValue(kid.tp, kid.n, AttrTag(SubSeq(t.kids, 1, i - 1))))
        ELSE MarshalJSON(kid)
  IN  IF t.tp = TypeStructure
      THEN Object(String(t.tag), NoName, Parts([i \in DOMAIN t.kids |-> part(i)]))
      ELSE Object(String(t.tag), TypeString(t.tp), JSONValue(t))

\* A string that is one hex value of at most max bytes.
IsHexValue(v, max) == Is(v, "words") /\ Len(v.words) = 1 /\ ParsesHex(v.words[1], max)

\* The words of a string.
WordsOf(v) == IF Is(v, "words") THEN v.words ELSE <<NamePart(v.chars)>>
IsString(v) == Is(v, "words") \/ Is(v, "chars")

Numeric(tag, tp, p) == IF p.res = "ok" THEN Read(Leaf(tag, tp, p.v)) ELSE Refused

\* ParseInt and ParseEnum.
ReadNamed(tag, tp, ws, attr) ==
  LET enum == EnumForTag(R, EnumTagFor(tag, attr))
  IN  Numeric(tag, tp, IF tp = TypeInteger THEN ParseInt(ws, enum)
                       ELSE IF Len(ws) = 1 THEN ParseEnum(ws[1], enum) ELSE NotFound)

\* The second or microsecond of a hex date; microseconds count from time.Time{}.
HexDate(tp, bs) ==
  IF tp = TypeDateTime THEN Int64(DecodeUint64(bs)) * Second
  ELSE ZeroTime * Second + Int64(DecodeUint64(bs) * Micro)

JSONBooleans == {HexString(BigEndian(0, lenLongInt)), HexString(BigEndian(1, lenLongInt))}

\* unmarshalJSON of a value that is not a Structure.
ReadJSONValue(tag, tp, v, attr) ==
  CASE tp = TypeBoolean ->
         IF Is(v, "bool") THEN Read(Leaf(tag, tp, IF v.bool THEN 1 ELSE 0))
         ELSE IF v \in JSONBooleans THEN Read(Leaf(tag, tp, Unsigned(v.words[1].bytes))) ELSE Refused
    [] tp = TypeTextString -> IF Is(v, "chars") THEN Read(TextLeaf(tag, v.chars)) ELSE Refused
    [] tp = TypeByteString -> IF Is(v, "digits") THEN Read(BytesLeaf(tag, tp, v.digits)) ELSE Refused
    [] tp = TypeInterval ->
         IF Is(v, "num") THEN Read(Leaf(tag, tp, Uint32(Float64(v.num))))
         ELSE IF IsHexValue(v, lenInt) THEN Read(Leaf(tag, tp, DecodeUint32(v.words[1].bytes))) ELSE Refused
    [] tp \in MarkedTypes ->
         IF Is(v, "date") /\ HasYear(v.date) THEN Read(DateLeaf(tag, tp, v.date))
         ELSE IF IsHexValue(v, lenLongInt) THEN Read(DateLeaf(tag, tp, HexDate(tp, v.words[1].bytes))) ELSE Refused
    [] tp = TypeInteger \/ tp = TypeEnumeration ->
         IF Is(v, "num") THEN Read(Leaf(tag, tp, Float64(v.num)))
         ELSE IF IsString(v) THEN ReadNamed(tag, tp, WordsOf(v), attr) ELSE Refused
    [] tp = TypeLongInteger ->
         IF Is(v, "num") THEN Read(Leaf(tag, tp, Int64(Float64(v.num))))
         ELSE IF IsHexValue(v, lenLongInt) THEN Read(Leaf(tag, tp, Int64(DecodeUint64(v.words[1].bytes)))) ELSE Refused
    [] tp = TypeBigInteger ->
         IF Is(v, "num") THEN Read(BytesLeaf(tag, tp, BigBytes(Float64(v.num))))
         ELSE IF Is(v, "words") /\ v.words[1].k = "hex" /\ Len(v.words[1].bytes) % 8 = 0
         THEN Read(BytesLeaf(tag, tp, BigBytes(BigInt(unpadBigInt(v.words[1].bytes))))) ELSE Refused

\* The parts of a structure, each read knowing the AttributeName before it.
NextKid(a, r) == IF r.ok THEN [a EXCEPT !.kids = Append(@, r.t)] ELSE [a EXCEPT !.ok = FALSE]
Kids(parts, read(_, _)) ==
  FoldLeft(LAMBDA a, d : IF a.ok THEN NextKid(a, read(d, AttrTag(a.kids))) ELSE a,
           [ok |-> TRUE, kids |-> <<>>], parts)

RECURSIVE unmarshalJSON(_, _)
unmarshalJSON(d, attr) ==
  LET tag == ParseTag(d.tag, R.tags)
      tp  == IF d.type = NoName THEN Found(TypeStructure) ELSE ParseType(d.type, R.types)
  IN  IF tag.res # "ok" \/ tp.res # "ok" THEN Refused
      ELSE IF tp.v # TypeStructure THEN ReadJSONValue(tag.v, tp.v, d.value, attr)
      ELSE IF ~Is(d.value, "parts") THEN Refused
      ELSE LET a == Kids(d.value.parts, unmarshalJSON)
           IN  IF a.ok THEN Read(Structure(tag.v, a.kids)) ELSE Refused

----------------------------------------------------------------------------
(***************************************************************************)
(* XML.                                                                    *)
(***************************************************************************)

XMLValue(t) ==
  CASE t.tp = TypeBoolean     -> Bool(ValueBoolean(t))
    [] t.tp \in NamedTypes    -> NamedValue(t.tp, t.n, t.tag)
    [] t.tp \in {TypeLongInteger, TypeInterval} -> Num(t.n)
    [] t.tp \in {TypeBigInteger, TypeByteString} -> Digits(t.bytes)
    [] t.tp = TypeTextString  -> Quoted(Sanitized(t.text, NotXML))
    [] t.tp \in MarkedTypes   -> Date(ValueDateTime(t))

\* An AttributeValue: an Integer is always written with FormatInt.
XMLAttributeValue(kid, attr) ==
  IF kid.tp = TypeEnumeration THEN NamedValue(kid.tp, kid.n, attr)
  ELSE Spelled(FormatInt(kid.n, EnumForTag(R, attr)))

\* A tag without a name is an attribute of the element TTLV, unless it is that of
\* a Structure.
RECURSIVE MarshalXML(_)
MarshalXML(t) ==
  LET named == HasName(R.tags, t.tag)
      name  == IF named THEN String(t.tag) ELSE NamePart(<<"TTLV">>)
      part(i) ==
        LET kid == t.kids[i] IN
        IF ByAttribute(kid)
        THEN Element(String(kid.tag), NoName, TypeString(kid.tp),
                     XMLAttributeValue(kid, AttrTag(SubSeq(t.kids, 1, i - 1))))
        ELSE MarshalXML(kid)
  IN  IF t.tp = TypeStructure
      THEN Element(name, NoName, NoName, Parts([i \in DOMAIN t.kids |-> part(i)]))
      ELSE Element(name, IF named THEN NoName ELSE String(t.tag), TypeString(t.tp), XMLValue(t))

\* unmarshalXMLTval of a value that is not a Structure.
ReadXMLValue(tag, tp, v, attr) ==
  CASE tp = TypeBoolean -> IF Is(v, "bool") THEN Read(Leaf(tag, tp, IF v.bool THEN 1 ELSE 0)) ELSE Refused
    [] tp = TypeTextString -> IF Is(v, "chars") THEN Read(TextLeaf(tag, v.chars)) ELSE Refused
    [] tp = TypeByteString -> IF Is(v, "digits") THEN Read(BytesLeaf(tag, tp, v.digits)) ELSE Refused
    [] tp = TypeBigInteger -> IF Is(v, "digits") /\ Len(v.digits) % 8 = 0
                              THEN Read(BytesLeaf(tag, tp, BigBytes(BigInt(v.digits)))) ELSE Refused
    [] tp = TypeInterval -> IF Is(v, "num") /\ v.num >= 0 THEN Read(Leaf(tag, tp, Uint32(v.num))) ELSE Refused
    [] tp = TypeLongInteger -> IF Is(v, "num") /\ v.num = Int64(v.num) THEN Read(Leaf(tag, tp, v.num)) ELSE Refused
    [] tp \in MarkedTypes -> IF Is(v, "date") /\ HasYear(v.date) THEN Read(DateLeaf(tag, tp, v.date)) ELSE Refused
    [] tp \in NamedTypes ->
         IF Is(v, "num") THEN ReadNamed(tag, tp, <<DecPart(v.num)>>, attr)
         ELSE IF IsString(v) THEN ReadNamed(tag, tp, WordsOf(v), attr) ELSE Refused

RECURSIVE unmarshalXMLTval(_, _)
unmarshalXMLTval(d, attr) ==
  LET tag == ParseTag(IF d.tag = NoName THEN d.name ELSE d.tag, R.tags)
      tp  == IF d.type = NoName THEN Found(TypeStructure) ELSE ParseType(d.type, R.types)
  IN  IF tag.res # "ok" \/ tp.res # "ok" THEN Refused
      ELSE IF tp.v # TypeStructure THEN ReadXMLValue(tag.v, tp.v, d.value, attr)
      ELSE LET a == Kids(IF Is(d.value, "parts") THEN d.value.parts ELSE <<>>, unmarshalXMLTval)
           IN  IF a.ok THEN Read(Structure(tag.v, a.kids)) ELSE Refused
=============================================================================
