----------------------------- MODULE TTLVReader -----------------------------
(***************************************************************************)
(* The methods of ttlv.TTLV that walk over encoded values                  *)
(* (ttlv/ttlv.go).  A TTLV is a sequence of bytes that starts with a value.*)
(***************************************************************************)
EXTENDS Wire, SequencesExt

CONSTANT TagPrefixes  \* the first bytes of a valid tag, 0x42 and 0x54

Tag(t)   == IF Len(t) < lenTag THEN 0 ELSE Unsigned(SubSeq(t, 1, lenTag))
Type(t)  == IF Len(t) < lenTag + 1 THEN 0 ELSE t[lenTag + 1]
LenOf(t) == IF Len(t) < lenHeader THEN 0 ELSE Unsigned(SubSeq(t, lenTag + 2, lenHeader))

\* Variant: padding is forgotten.
FullLenUnpadded(t) == IF Type(t) \in IntTypes \cup LongTypes THEN lenHeader + 8 ELSE LenOf(t) + lenHeader

\* FullLen, for a type that ValidHeader has accepted.
FullLen(t) ==
  LET l == LenOf(t) + lenHeader
  IN  CASE Type(t) \in IntTypes \cup LongTypes -> lenHeader + 8
        [] Type(t) \in TextTypes               -> l + Padding(l)
        [] OTHER                               -> l

\* ValueRaw and ValueStructure.
ValueRaw(t) == SubSeq(t, lenHeader + 1, IF Len(t) < lenHeader + LenOf(t) THEN Len(t) ELSE lenHeader + LenOf(t))

ValidHeader(t) ==
  /\ Len(t) >= lenHeader
  /\ t[1] \in TagPrefixes
  /\ Type(t) \in TypeStructure .. TypeDateTimeExtended
  /\ Type(t) \in IntTypes => LenOf(t) = lenInt
  /\ Type(t) \in LongTypes => LenOf(t) = lenLongInt
  /\ Type(t) = TypeBigInteger => LenOf(t) % 8 = 0

RECURSIVE Valid(_), AllValid(_)

\* Valid returns nil.
Valid(t) ==
  /\ ValidHeader(t)
  /\ Len(t) >= FullLen(t)
  /\ Type(t) = TypeStructure => AllValid(ValueRaw(t))

\* The loop of Valid over the values in a structure; the remainder is what
\* Next returns.
AllValid(t) == t = <<>> \/ (Valid(t) /\ AllValid(SubSeq(t, FullLen(t) + 1, Len(t))))

\* Next; nil is the empty sequence.
NextValue(t) == IF Valid(t) THEN SubSeq(t, FullLen(t) + 1, Len(t)) ELSE <<>>

RECURSIVE Values(_)

\* The tree that a caller gets who walks over t with Next and enters every
\* structure with ValueStructure.
Values(t) ==
  IF t = <<>> THEN <<>>
  ELSE <<[tag  |-> Tag(t),
          type |-> Type(t),
          raw  |-> IF Type(t) = TypeStructure THEN <<>> ELSE ValueRaw(t),
          kids |-> IF Type(t) = TypeStructure THEN Values(ValueRaw(t)) ELSE <<>>]>>
       \o Values(NextValue(t))
=============================================================================
