----------------------------- MODULE MCScalars ------------------------------
(***************************************************************************)
(* Scalars with bytes of two bits, so that an int32 has 8 bits and an      *)
(* int64 has 16.  The numbers are the ones around every power of two, and  *)
(* around every limit of an integer type.  A nanosecond, microsecond and   *)
(* second are a factor of 2 and 6 apart, and the zero time is farther from *)
(* the epoch than an int64 can count nanoseconds, as it is in Go.          *)
(***************************************************************************)
EXTENDS Scalars

MCZeroTime == -60000

\* The numbers around the powers of two up to 2^k, positive and negative.
Near(k) == {s * 2 ^ e + d : s \in {-1, 1}, e \in 0 .. k, d \in -2 .. 2}

Numbers(kind) ==
  CASE kind \in SmallInts \cup {"int64", "duration"}  -> {n \in Near(15) : Fits(n, Width(kind))}
    [] kind \in SmallUints \cup {"uint64"} -> {n \in Near(16) : UFits(n, Width(kind))}
    [] kind = "time"   -> Near(17) \cup {MCZeroTime}
    [] kind = "bigint" -> Near(17)
    [] kind \in {"bool", "bytes"} -> {0, 1}
    [] OTHER           -> {0}

\* A string that is no number, the name of a value, a negative number.
Word     == <<3, 3>>
Known    == <<1>>
MinusOne == <<2, 1>>

Texts(kind) ==
  CASE kind = "string" -> {<<>>, Word, Known, MinusOne}
    [] kind = "bytes"  -> {<<>>, Word}
    [] OTHER           -> {<<>>}

\* Names are only known if the tag is registered, and only ParseInt accepts a sign.
MCParsed ==
  [reg \in {"none", "enum", "bitmask"}, m \in BOOLEAN |->
     [s \in (IF reg = "none" THEN {} ELSE {Known}) \cup (IF m THEN {MinusOne} ELSE {})
        |-> IF s = Known THEN 3 ELSE -1]]

MCScalarValues ==
  {v \in UNION {[kind : {k}, n : Numbers(k), s : Texts(k)] : k \in Kinds \cup {"nil", "float"}} : HasType(v)}

\* The flags that a kind can be told apart by.
FlagSets(kind) ==
  IF kind = "time" THEN {{}, {"omitempty"}, {"datetimeextended"}, {"omitempty", "datetimeextended"}}
  ELSE {{}, {"omitempty"}, {"enum"}, {"bitmask"}, {"omitempty", "enum"}}

MCInputs ==
  {i \in [v : MCScalarValues, flags : SUBSET {"omitempty", "enum", "bitmask", "datetimeextended"},
          reg : {"none", "enum", "bitmask"}, tagged : BOOLEAN] :
     /\ i.flags \in FlagSets(i.v.kind)
     /\ ~i.tagged => i.reg = "none" /\ i.v.n \in {0, 1}
     /\ i.v.kind \in {"bigint", "time", "int64", "uint64", "duration"}
        /\ i.v.n \notin -8 .. 8 => i.reg = "none"}
=============================================================================
