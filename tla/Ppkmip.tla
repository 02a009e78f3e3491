------------------------------- MODULE Ppkmip -------------------------------
(***************************************************************************)
(* ppkmip (cmd/ppkmip/main.go): reads KMIP in hex, JSON or XML and prints  *)
(* it in one of the output formats.  What one invocation prints is the     *)
(* input of the next, as in ppkmip -o xml | ppkmip -o json.                *)
(*                                                                         *)
(* The input is a sequence of pieces, each printed by one printTTLV: an    *)
(* object, an element, or TTLVs in hex.                                    *)
(***************************************************************************)
EXTENDS TextForms

CONSTANTS
  Inputs(_),  \* what the first invocation may be given
  LineLimit,  \* bytes or characters that fit into a line of bufio.Scanner
  MaxRuns     \* invocations in a row

ASSUME RunsAssumption == MaxRuns \in Nat /\ LineLimit \in Nat

VARIABLES
  input,    \* the pieces on standard input, in the argument or in the file
  format,   \* the format they are read in
  out,      \* -o
  left,     \* pieces or, in hex, TTLVs that are still to be read
  seen,     \* the TTLVs that printTTLV was called with, and
  printed,  \* what it printed
  exit,     \* "idle" before, "running" during, and the end of an invocation
  run,      \* the number of this invocation
  source    \* seen of the first invocation

ppVars == <<input, format, out, left, seen, printed, exit, run, source>>

\* The bytes of a TTLV, and those in the longest line of PrintPrettyHex, which
\* begins a line for every value.
RECURSIVE Size(_), PrettyLine(_)
Size(t) ==
  lenHeader + CASE t.tp = TypeStructure -> FoldLeft(LAMBDA n, kid : n + Size(kid), 0, t.kids)
                [] t.tp \in {TypeByteString, TypeBigInteger} -> Len(t.bytes) + Padding(Len(t.bytes))
                [] t.tp = TypeTextString -> Len(t.text) + Padding(Len(t.text))
                [] OTHER -> lenLongInt
PrettyLine(t) ==
  IF t.tp = TypeStructure THEN Max({lenHeader} \cup {PrettyLine(t.kids[i]) : i \in DOMAIN t.kids}) ELSE Size(t)

\* The longest line of an object or element: bytes and text are the long values.
RECURSIVE LongestValue(_)
LongestValue(v) ==
  CASE Is(v, "digits") -> Len(v.digits)
    [] Is(v, "chars")  -> Len(v.chars)
    [] Is(v, "parts")  -> Max({1} \cup {LongestValue(v.parts[i].value) : i \in DOMAIN v.parts})
    [] OTHER           -> 1

JSONPiece(d)   == [kind |-> "json", object |-> d, line |-> LongestValue(d.value)]
XMLPiece(d)    == [kind |-> "xml", element |-> d, line |-> LongestValue(d.value)]
HexPiece(ts)   == [kind |-> "hex", ttlvs |-> ts, line |-> FoldLeft(LAMBDA n, t : n + Size(t), 0, ts)]
PrettyPiece(t) == [kind |-> "hex", ttlvs |-> <<t>>, line |-> PrettyLine(t)]
TextPiece      == [kind |-> "text"]

OutFormats == {"text", "json", "xml", "hex", "prettyhex", "hexpretty"}

\* Text is the one format that cannot be read.
Readable(ps) == \A i \in DOMAIN ps : ps[i].kind # "text"

\* Auto detection, by the first character.
Detected == input[1].kind

\* Hex2bytes drops what is not a hex digit, and so the line breaks and spacers.
Hex2bytes(ps) == FlattenSeq([i \in DOMAIN ps |-> ps[i].ttlvs])

\* main up to the loops: the input is read from standard input, whose lines are
\* limited, from the argument, or from a file, which may be missing; -i is absent,
\* right, or not known.
Begin ==
  /\ exit = "idle"
  /\ out' \in OutFormats
  /\ \E from \in {"stdin", "argument", "file", "missing file"}, i \in {"", "given", "unknown"} :
       LET tooLong == from = "stdin" /\ \E p \in DOMAIN input : input[p].line > LineLimit
           known   == IF input = <<>> THEN "hex" ELSE Detected
       IN  /\ exit' = IF tooLong \/ from = "missing file" THEN "1"
                      ELSE IF i = "" /\ input = <<>> THEN "panic"
                      ELSE IF i = "unknown" THEN "1" ELSE "running"
           /\ format' = IF exit' = "running" THEN known ELSE "none"
           /\ left' = IF exit' # "running" THEN <<>> ELSE IF known = "hex" THEN Hex2bytes(input) ELSE input
  /\ UNCHANGED <<input, seen, printed, run, source>>

\* Variant: prettyhex prints what comes after the TTLV, too.
PrintAllHex(raw) ==
  CASE out = "text" -> <<TextPiece>>
    [] out = "json" -> <<JSONPiece(MarshalJSON(raw[1]))>>
    [] out = "xml" -> <<XMLPiece(MarshalXML(raw[1]))>>
    [] out \in {"hex", "prettyhex"} -> <<HexPiece(raw)>>
    [] OTHER -> <<>>

\* printTTLV of raw, a TTLV and what comes after it: hex prints all of it, and an
\* unknown format nothing.
printTTLV(raw) ==
  CASE out = "text" -> <<TextPiece>>
    [] out = "json" -> <<JSONPiece(MarshalJSON(raw[1]))>>
    [] out = "xml" -> <<XMLPiece(MarshalXML(raw[1]))>>
    [] out = "hex" -> <<HexPiece(raw)>>
    [] out = "prettyhex" -> <<PrettyPiece(raw[1])>>
    [] OTHER -> <<>>

Show(raw) ==
  IF out = "json" /\ MarshalJSONFails(raw[1])
  THEN exit' = "1" /\ UNCHANGED <<left, seen, printed>>
  ELSE /\ seen' = Append(seen, raw[1])
       /\ printed' = printed \o printTTLV(raw)
       /\ left' = Tail(left)
       /\ UNCHANGED exit

\* One round of the loop over the input.
PrintNext ==
  /\ exit = "running" /\ left # <<>>
  /\ IF format = "hex" THEN Show(left)
     ELSE LET r == IF format = "json" THEN unmarshalJSON(left[1].object, TagNone)
                   ELSE unmarshalXMLTval(left[1].element, TagNone)
          IN  IF r.ok THEN Show(<<r.t>>) ELSE exit' = "1" /\ UNCHANGED <<left, seen, printed>>
  /\ UNCHANGED <<input, format, out, run, source>>

EndOfInput ==
  /\ exit = "running" /\ left = <<>>
  /\ exit' = "0"
  /\ UNCHANGED <<input, format, out, left, seen, printed, run, source>>

\* The next invocation reads what this one printed.
Pipe ==
  /\ exit = "0" /\ run < MaxRuns /\ Readable(printed)
  /\ input' = printed /\ run' = run + 1
  /\ source' = IF run = 1 THEN seen ELSE source
  /\ exit' = "idle" /\ left' = <<>> /\ seen' = <<>> /\ printed' = <<>>
  /\ UNCHANGED <<format, out>>

PpInit ==
  /\ input \in Inputs(0)
  /\ format = "none" /\ out = "none" /\ exit = "idle" /\ run = 1
  /\ left = <<>> /\ seen = <<>> /\ printed = <<>> /\ source = <<>>

PpNext == Begin \/ PrintNext \/ EndOfInput \/ Pipe

PpSpec == PpInit /\ [][PpNext]_ppVars

----------------------------------------------------------------------------
(***************************************************************************)
(* Properties.  Before an invocation, format and out are those of the      *)
(* previous one.                                                           *)
(***************************************************************************)

\* A DateTimeExtended that is too far away to be counted in nanoseconds.
TooFar(t) == t.tp = TypeDateTimeExtended /\ t.n * Micro # Int64(t.n * Micro)

\* The same tag, type and value; text with characters that JSON or XML do not
\* have and dates that are too far away are changed.
RECURSIVE SameValue(_, _)
SameValue(t, u) ==
  /\ t.tag = u.tag /\ t.tp = u.tp
  /\ CASE t.tp = TypeStructure  -> /\ DOMAIN t.kids = DOMAIN u.kids
                                   /\ \A i \in DOMAIN t.kids : SameValue(t.kids[i], u.kids[i])
       [] t.tp = TypeBigInteger -> BigInt(t.bytes) = BigInt(u.bytes)
       [] t.tp = TypeByteString -> t.bytes = u.bytes
       [] t.tp = TypeTextString -> t.text = u.text \/ ToSet(t.text) \cap NotXML # {}
       [] t.tp = TypeBoolean    -> ValueBoolean(t) = ValueBoolean(u)
       [] OTHER                 -> t.n = u.n \/ TooFar(t)

\* printTTLV writes a form that is read back as the same TTLV, one for one, in
\* JSON, in XML, and in hex of a single TTLV: "The json and xml input/output
\* formats are compliant with the KMIP spec" (cmd/ppkmip/main.go, usage).  In
\* particular MarshalXML and MarshalJSON spell an AttributeValue by the
\* AttributeName before it, and the readers must find the same AttributeName.
ReadBackSame ==
  run > 1 /\ (\A i \in DOMAIN input : input[i].kind = "hex" => Len(input[i].ttlvs) = 1) =>
    \A i \in DOMAIN seen : SameValue(source[i], seen[i])

\* Why a form that was printed is not read: a mask without flags is written as an
\* empty string; XML loses the tag of a Structure if it has no name, a negative
\* AttributeValue without names has a sign before its hex digits, and dates may
\* have years of five digits.
NoFlags(n, tag) == n = 0 /\ Registered(tag) /\ FormatInt(0, EnumForTag(R, tag)) = <<>>

RECURSIVE Unreadable(_, _)
Unreadable(t, kind) ==
  \/ t.tp = TypeInteger /\ NoFlags(t.n, t.tag)
  \/ kind = "xml" /\ t.tp \in MarkedTypes /\ ~HasYear(ValueDateTime(t))
  \/ kind = "xml" /\ t.tp = TypeStructure /\ ~HasName(R.tags, t.tag)
  \/ /\ t.tp = TypeStructure
     /\ \E i \in DOMAIN t.kids :
          LET kid  == t.kids[i]
              attr == AttrTag(SubSeq(t.kids, 1, i - 1))
          IN  IF ByAttribute(kid)
              THEN kid.tp = TypeInteger
                   /\ (NoFlags(kid.n, attr) \/ (kind = "xml" /\ kid.n < 0 /\ ~Registered(attr)))
              ELSE Unreadable(kid, kind)

\* An invocation that could read its input and knows its format ends well but in
\* these cases: it is to print a date in JSON that has no JSON form, or it was given
\* what ppkmip printed in JSON or XML of a TTLV that is Unreadable.  These
\* unmarshalJSON and unmarshalXMLTval always refuse.  The auto detection panics
\* only if the previous invocation printed nothing.
RefusedExactlyFor ==
  /\ run > 1 /\ format \in {"json", "xml"} =>
       /\ \A i \in DOMAIN seen : ~Unreadable(source[i], format)
       /\ exit = "1" => \E t \in {source[Len(seen) + 1]} :
                          Unreadable(t, format) \/ (out = "json" /\ MarshalJSONFails(t))
  /\ format = "hex" /\ exit = "1" => out = "json" /\ MarshalJSONFails(left[1])
  /\ exit = "panic" => input = <<>>

\* "'hexpretty' output is still valid 'hex' input" (usage): what prettyhex prints
\* of a stream is read as that stream.  What the hex format prints is read as the
\* stream, too, but more may follow.
HexIsInput ==
  exit = "idle" /\ run = 2 =>
    /\ out = "prettyhex" => Hex2bytes(input) = source
    /\ out = "hex" => IsPrefix(source, Hex2bytes(input))

\* A hex string in JSON that is not empty stands for the number with these bytes
\* (unmarshalJSON), if there are no more than the type has.  Nothing is said of a
\* DateTimeExtended.
HexMeansItsBytes ==
  run = 1 /\ format = "json" =>
    \A i \in {j \in DOMAIN seen : IsHexValue(input[j].object.value, 16)} :
      LET bs == input[i].object.value.words[1].bytes
          n  == Unsigned(bs)
          t  == seen[i]
      IN  Len(bs) \in 1 .. (IF t.tp \in IntTypes THEN lenInt ELSE lenLongInt) =>
            CASE t.tp \in {TypeEnumeration, TypeInterval, TypeBoolean} -> t.n = n
              [] t.tp = TypeInteger -> t.n = Int32(n)
              [] t.tp \in {TypeLongInteger, TypeDateTime} -> t.n = Int64(n)
              [] t.tp = TypeBigInteger -> BigInt(t.bytes) = BigInt(bs)
              [] OTHER -> TRUE
=============================================================================
