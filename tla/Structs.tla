------------------------------ MODULE Structs -------------------------------
(***************************************************************************)
(* The way of a Go struct to a Structure and back: how the tag of a field  *)
(* is found (getFieldInfo, getFieldsInfo, tagForMarshal), how the fields   *)
(* are written (Encoder.encode) and how the values of a Structure find     *)
(* their fields (Decoder.unmarshal, unmarshalStructure).  Fields that are  *)
(* no structs go through Scalars.                                          *)
(*                                                                         *)
(* A Go type is a sequence: <<"int">>, <<"ptr", "time">>,                  *)
(* <<"slice", "struct", "Name">>; the last is a slice of structs.  A       *)
(* pointer that is not nil is what it points to.  A TTLV is a tree.        *)
(***************************************************************************)
EXTENDS Scalars, SequencesExt

CONSTANTS
  Decl,      \* the struct types: Decl[<<name, ...>>] is a sequence of fields
  TagNames,  \* the names of tags
  TagEnums,  \* TagEnums[tag] is "enum" or "bitmask" for the tags that are one
  Cases(_),  \* Cases(name): structs of the type to marshal, with their type and tag
  Stranger   \* a tag that no struct has

TagNone == ""

Field == [name  : STRING,
          type  : Seq(STRING),
          ttlv  : STRING,        \* the tag in the "ttlv" struct tag
          flags : SUBSET {"omitempty", "enum", "bitmask", "datetimeextended", "any", "hidden"}]

VARIABLES
  case,    \* the value and its type
  phase,   \* "marshal", "wire", "read", "again" or "off"
  wire,    \* what Marshal did: an error, or the values
  change,  \* what the sender did differently from Marshal
  strict,  \* DisallowExtraValues
  got,     \* what Unmarshal did: an error, and what is in the struct
  again    \* what Marshal did with it

svars == <<case, phase, wire, change, strict, got, again>>

----------------------------------------------------------------------------
(***************************************************************************)
(* The types of structs.                                                   *)
(***************************************************************************)

ParseTag(s) == IF s \in TagNames THEN s ELSE TagNone

NoField == [err |-> "", name |-> "", explicit |-> TagNone, tag |-> TagNone, flags |-> {}, type |-> <<>>]
NoInfo  == [err |-> "", tagField |-> NoField, fields |-> <<>>]

RECURSIVE getTypeInfo(_)

\* The tag of a struct type comes before the one in the field's struct tag, and
\* that before the field's name.
TagOfField(intrinsic, explicit, name) ==
  IF intrinsic # TagNone THEN intrinsic
  ELSE IF explicit # TagNone THEN explicit
  ELSE ParseTag(name)

getFieldInfo(f) ==
  LET explicit  == ParseTag(f.ttlv)
      ti        == getTypeInfo(f.type)
      intrinsic == ti.tagField.explicit
  IN  [err      |-> IF f.ttlv = "-" \/ "hidden" \in f.flags THEN "skip"
                    ELSE IF f.ttlv # "" /\ explicit = TagNone THEN "ErrInvalidTag"
                    ELSE IF "any" \in f.flags /\ explicit # TagNone THEN "ErrTagConflict"
                    ELSE IF ti.err # "" THEN ti.err
                    ELSE IF intrinsic # TagNone /\ explicit \notin {TagNone, intrinsic} THEN "ErrTagConflict"
                    ELSE "",
       name     |-> f.name,
       explicit |-> explicit,
       tag      |-> TagOfField(intrinsic, explicit, f.name),
       flags    |-> f.flags,
       type     |-> f.type]


\* Two fields with the same tag.
SameTag(fields) ==
  \E i, j \in DOMAIN fields :
    /\ i < j /\ "any" \notin fields[i].flags \cup fields[j].flags
    /\ fields[i].tag = fields[j].tag /\ fields[i].tag # TagNone

\* getTypeInfo and getFieldsInfo.
getTypeInfo(type) ==
  IF type[1] # "struct" THEN NoInfo
  ELSE LET decl      == Decl[Tail(type)]
           infos     == SelectSeq([i \in DOMAIN decl |-> getFieldInfo(decl[i])], LAMBDA fi : fi.err # "skip")
           errors    == SelectSeq(infos, LAMBDA fi : fi.err # "")
           tagFields == SelectSeq(infos, LAMBDA fi : fi.name = "TTLVTag")
           fields    == SelectSeq(infos, LAMBDA fi : fi.name # "TTLVTag")
       IN  IF errors # <<>> THEN [NoInfo EXCEPT !.err = errors[1].err]
           ELSE IF SameTag(fields) THEN [NoInfo EXCEPT !.err = "ErrTagConflict"]
           ELSE [err |-> "", tagField |-> IF tagFields = <<>> THEN NoField ELSE Last(tagFields), fields |-> fields]

\* All of them.
TypeInfo == [name \in DOMAIN Decl |-> getTypeInfo(<<"struct">> \o name)]

InfoOf(v) == IF v.kind = "struct" THEN TypeInfo[v.type] ELSE NoInfo

----------------------------------------------------------------------------
(***************************************************************************)
(* Values.                                                                 *)
(***************************************************************************)

Nil == Zero("nil")

RECURSIVE ZeroOf(_)
ZeroOf(type) ==
  CASE type[1] = "struct" ->
         LET decl == Decl[Tail(type)]
             At(n) == CHOOSE i \in DOMAIN decl : decl[i].name = n
         IN  [kind |-> "struct", type |-> Tail(type),
              f |-> [n \in {decl[i].name : i \in DOMAIN decl} |-> ZeroOf(decl[At(n)].type)]]
    [] type[1] \in {"ptr", "iface"} -> Nil
    [] type[1] \in {"slice", "Values"} -> [kind |-> type[1], e |-> <<>>]
    [] type[1] = "Value"   -> [kind |-> "Value", tag |-> TagNone, v |-> Nil]
    [] type[1] = "tag"     -> [kind |-> "tag", tag |-> TagNone]
    [] type[1] = "uid"     -> [kind |-> "uid", text |-> <<>>, enum |-> 0, index |-> 0]
    [] type[1] = "dateext" -> [kind |-> "dateext", n |-> ZeroTime, s |-> <<>>]
    [] OTHER -> Zero(type[1])

\* TTLV.
Leaf(tag, w)         == [tag |-> tag, type |-> w.type, raw |-> w.raw]
Structure(tag, vals) == [tag |-> tag, type |-> TypeStructure, vals |-> vals]

----------------------------------------------------------------------------
(***************************************************************************)
(* Encoder.encode.                                                         *)
(***************************************************************************)

Ok(vals) == [err |-> "", vals |-> vals]
Bad(err) == [err |-> err, vals |-> <<>>]

\* One after the other, up to the first error.
InTurn(results) ==
  LET rs     == SelectSeq(results, LAMBDA r : TRUE)
      errors == SelectSeq(rs, LAMBDA r : r.err # "")
  IN  IF errors # <<>> THEN Bad(errors[1].err) ELSE Ok(FlattenSeq([i \in DOMAIN rs |-> rs[i].vals]))

\* In a Structure.
Inside(tag, r) == IF r.err # "" THEN r ELSE Ok(<<Structure(tag, r.vals)>>)

\* The tag that the value carries, that of its field, or that of its type.
tagForMarshal(v, fi) ==
  LET tagField == InfoOf(v).tagField
  IN  IF tagField.explicit # TagNone THEN tagField.explicit
      ELSE IF tagField.type = <<"tag">> /\ v.f["TTLVTag"].tag # TagNone THEN v.f["TTLVTag"].tag
      ELSE IF fi # NoField THEN fi.tag
      ELSE IF v.kind = "struct" THEN ParseTag(v.type[1])
      ELSE TagNone

\* The flags and the registry, for Scalars.
InputOf(tag, v, fi) ==
  [v |-> v, flags |-> fi.flags \ {"any", "hidden"}, tagged |-> tag # TagNone,
   reg |-> IF tag \in DOMAIN TagEnums THEN TagEnums[tag] ELSE "none"]

\* The types of the repository that implement Marshaler: the enumerations, with
\* EnumValue, and masks, DateTimeExtended, UniqueIdentifierValue and Value.
Marshalers == {"enum", "mask", "dateext", "uid", "Value"}

RECURSIVE Encoded(_, _, _)

MarshalTTLV(v, tag) ==
  CASE v.kind = "enum"    -> Ok(<<Leaf(tag, encodeEnum(v.n))>>)
    [] v.kind = "mask"    -> Ok(<<Leaf(tag, encodeInt(v.n))>>)
    [] v.kind = "dateext" -> Ok(<<Leaf(tag, encodeDateTimeExtended(v.n))>>)
    [] v.kind = "uid"     -> IF v.text # <<>> THEN Ok(<<Leaf(tag, Wrote(TypeTextString, v.text))>>)
                             ELSE IF v.enum # 0 THEN Ok(<<Leaf(tag, encodeEnum(v.enum))>>)
                             ELSE IF v.index # 0 THEN Ok(<<Leaf(tag, encodeInt(v.index))>>)
                             ELSE Ok(<<>>)
    [] v.kind = "Value"   -> LET t == IF v.tag # TagNone THEN v.tag ELSE tag
                             IN  IF v.v.kind = "Values"
                                   THEN Inside(t, InTurn([i \in DOMAIN v.v.e |-> Encoded(TagNone, v.v.e[i], NoField)]))
                                   ELSE Encoded(t, v.v, NoField)

\* encode.  The elements of a slice get the tag of the slice.
Encoded(given, v, fi) ==
  LET tag  == IF given # TagNone THEN given ELSE tagForMarshal(v, fi)
      scalar == encode(InputOf(tag, v, fi))
  IN  IF v.kind = "nil" THEN Ok(<<>>)
      ELSE IF v.kind = "ttlv" THEN Ok(<<v.t>>)
      ELSE IF InfoOf(v).err # "" THEN Bad(InfoOf(v).err)
      ELSE IF v.kind \in Marshalers
        THEN IF "omitempty" \in fi.flags /\ v.kind \in {"enum", "mask"} /\ isEmptyValue(v) THEN Ok(<<>>)
             ELSE MarshalTTLV(v, tag)
      ELSE IF v.kind \in {"slice", "Values"}
        THEN InTurn([i \in DOMAIN v.e |-> Encoded(tag, v.e[i], [fi EXCEPT !.flags = @ \ {"omitempty"}])])
      ELSE IF v.kind = "struct"
        THEN IF tag = TagNone THEN Bad("ErrNoTag")
             ELSE IF fi.flags \cap {"enum", "bitmask"} # {} THEN Bad("ErrEnum")
             ELSE LET fields == InfoOf(v).fields
                  IN  Inside(tag, InTurn([i \in DOMAIN fields |-> Encoded(TagNone, v.f[fields[i].name], fields[i])]))
      ELSE IF scalar.res = "ok" THEN Ok(<<Leaf(tag, scalar)>>)
      ELSE IF scalar.res = "skip" THEN Ok(<<>>)
      ELSE Bad(scalar.res)

----------------------------------------------------------------------------
(***************************************************************************)
(* Decoder.unmarshal.                                                      *)
(***************************************************************************)

Set(v)         == [err |-> "", v |-> v]
Fails(err, v)  == [err |-> err, v |-> v]

\* TTLV.String: the tag, the type and the length go in front of the text.
Printed(t) == <<Base - 1>> \o t.raw

\* UniqueIdentifierValue.UnmarshalTTLV.
UnmarshalUID(v, t) ==
  CASE t.type = TypeTextString  -> Set([v EXCEPT !.text = Printed(t)])
    [] t.type = TypeEnumeration -> Set([v EXCEPT !.enum = ValueNumber(t)])
    [] t.type = TypeInteger     -> Set([v EXCEPT !.index = ValueNumber(t)])
    [] OTHER -> Fails("invalid type", v)

\* The field of a value: the first with its tag, or else the first "any" field.
FieldFor(fields, tag) ==
  LET matches == {i \in DOMAIN fields : "any" \notin fields[i].flags /\ fields[i].tag = tag}
      anys    == {i \in DOMAIN fields : "any" \in fields[i].flags}
  IN  IF matches # {} THEN Min(matches) ELSE IF anys # {} THEN Min(anys) ELSE 0

RECURSIVE Decoded(_, _, _)

\* Variant: the element that could not be read stays.
AppendDecodedKeeps(type, v, t) ==
  LET r == Decoded(type, ZeroOf(type), t)
  IN  [err |-> r.err, v |-> [v EXCEPT !.e = Append(@, r.v)]]

\* Variant: the value replaces what was there.
AppendDecodedReplaces(type, v, t) ==
  LET r == Decoded(type, ZeroOf(type), t)
  IN  IF r.err # "" THEN Fails(r.err, v) ELSE Set([v EXCEPT !.e = <<r.v>>])

\* A slice grows by the value, or keeps its length.
AppendDecoded(type, v, t) ==
  LET r == Decoded(type, ZeroOf(type), t)
  IN  IF r.err # "" THEN Fails(r.err, v) ELSE Set([v EXCEPT !.e = Append(@, r.v)])

\* Value.UnmarshalTTLV.
UnmarshalValue(v, t) ==
  LET vals == FoldLeft(LAMBDA r, n : IF r.err # "" THEN r ELSE AppendDecoded(<<"Value">>, r.v, n),
                       Set(ZeroOf(<<"Values">>)), t.vals)
      w    == [v EXCEPT !.tag = t.tag]
  IN  IF t.type # TypeStructure THEN Set([w EXCEPT !.v = unmarshal(t, "any").v])
      ELSE IF vals.err # "" THEN Fails(vals.err, w)
      ELSE Set([w EXCEPT !.v = vals.v])

\* Variant: values are expected in the order of the fields.
StoreInFieldOrder(fields, r, n) ==
  LET i == FieldFor(fields, n.tag)
      d == Decoded(fields[i].type, r.v.f[fields[i].name], n)
  IN  IF r.err # "" THEN r
      ELSE IF \E k \in DOMAIN fields : k > i /\ r.v.f[fields[k].name] # ZeroOf(fields[k].type) THEN r
      ELSE IF i > 0 THEN [err |-> d.err, v |-> [r.v EXCEPT !.f[fields[i].name] = d.v]]
      ELSE r

\* Variant: DisallowExtraValues is forgotten.
StoreIgnoresStrict(fields, r, n) ==
  LET i == FieldFor(fields, n.tag)
      d == Decoded(fields[i].type, r.v.f[fields[i].name], n)
  IN  IF r.err # "" \/ i = 0 THEN r
      ELSE [err |-> d.err, v |-> [r.v EXCEPT !.f[fields[i].name] = d.v]]

\* One turn of the loop of unmarshalStructure.
StoreValue(fields, r, n) ==
  LET i == FieldFor(fields, n.tag)
      d == Decoded(fields[i].type, r.v.f[fields[i].name], n)
  IN  IF r.err # "" THEN r
      ELSE IF i > 0 THEN [err |-> d.err, v |-> [r.v EXCEPT !.f[fields[i].name] = d.v]]
      ELSE IF strict THEN Fails("ErrUnexpectedValue", r.v)
      ELSE r

unmarshalStructure(v, t) ==
  LET ti == InfoOf(v)
      w  == IF ti.tagField.type = <<"tag">> THEN [v EXCEPT !.f["TTLVTag"].tag = t.tag] ELSE v
  IN  IF ti.err # "" THEN Fails(ti.err, v)
      ELSE FoldLeft(LAMBDA r, n : StoreValue(ti.fields, r, n), Set(w), t.vals)

\* time.Time and big.Int are structs without fields for the decoder.
NoFields(v, t) == IF strict /\ t.vals # <<>> THEN Fails("ErrUnexpectedValue", v) ELSE Set(v)

\* Enumerations and masks are stored as a uint32.
StoreScalar(type, v, t) ==
  LET r == unmarshal(t, IF type[1] \in {"enum", "mask"} THEN "uint32" ELSE type[1])
  IN  IF r.res = "ok" THEN Set([r.v EXCEPT !.kind = type[1]]) ELSE Fails(r.res, v)

\* unmarshal, of a value into a variable of the type that holds v.
Decoded(type, v, t) ==
  CASE type[1] = "ptr"     -> Decoded(Tail(type), IF v.kind = "nil" THEN ZeroOf(Tail(type)) ELSE v, t)
    [] type[1] = "uid"     -> UnmarshalUID(v, t)
    [] type[1] = "Value"   -> UnmarshalValue(v, t)
    [] type[1] = "slice"   -> AppendDecoded(Tail(type), v, t)
    [] type[1] = "Values"  -> AppendDecoded(<<"Value">>, v, t)
    [] type[1] = "iface"   -> Set(IF t.type = TypeStructure THEN [kind |-> "ttlv", t |-> t]
                                                            ELSE unmarshal(t, "any").v)
    [] type[1] = "dateext" -> LET r == Decoded(<<"time">>, [v EXCEPT !.kind = "time"], t)
                              IN  IF r.err # "" THEN Fails(r.err, v) ELSE Set([v EXCEPT !.n = r.v.n])
    [] t.type = TypeStructure /\ type[1] = "struct"           -> unmarshalStructure(v, t)
    [] t.type = TypeStructure /\ type[1] \in {"time", "bigint"} -> NoFields(v, t)
    [] OTHER -> IF t.type = TypeStructure THEN Fails("ErrUnsupportedTypeError", v)
                ELSE StoreScalar(type, v, t)

----------------------------------------------------------------------------
(***************************************************************************)
(* A struct is marshaled, sent, unmarshaled and marshaled again.  The      *)
(* sender may be another implementation, and do something differently.     *)
(***************************************************************************)

NoCase == [type |-> <<"nil">>, val |-> Nil, tag |-> TagNone]

Off ==
  /\ case = NoCase /\ phase = "off"
  /\ wire = Ok(<<>>) /\ again = Ok(<<>>) /\ change = <<"none">> /\ strict = FALSE /\ got = Set(Nil)

StructInit ==
  /\ \E name \in DOMAIN Decl : case \in Cases(name)
  /\ phase = "marshal" /\ strict \in BOOLEAN
  /\ wire = Ok(<<>>) /\ again = Ok(<<>>) /\ change = <<"none">> /\ got = Set(Nil)

\* Marshal of a pointer to the struct, or EncodeValue if there is a tag.
MarshalStruct ==
  /\ phase = "marshal"
  /\ wire' = Encoded(case.tag, case.val, NoField)
  /\ phase' = IF wire'.err = "" THEN "wire" ELSE "refused"
  /\ UNCHANGED <<case, change, strict, got, again>>

Message == wire.vals[1]

Sends(c, vals) ==
  /\ change' = c
  /\ wire' = Ok(<<[Message EXCEPT !.vals = vals]>>)
  /\ UNCHANGED <<case, phase, strict, got, again>>

SendSwapped ==
  /\ phase = "wire" /\ change = <<"none">>
  /\ \E i \in 1 .. Len(Message.vals) - 1 :
       Sends(<<"swap", i>>, [Message.vals EXCEPT ![i] = Message.vals[i + 1], ![i + 1] = Message.vals[i]])

SendRepeated ==
  /\ phase = "wire" /\ change = <<"none">>
  /\ \E i \in DOMAIN Message.vals : Sends(<<"repeat", i>>, Append(Message.vals, Message.vals[i]))

\* A value more, in the structure (0) or in one that is in it.
SendStranger ==
  /\ phase = "wire" /\ change = <<"none">>
  /\ LET extra == Leaf(Stranger, encodeBool(1))
     IN  \/ Sends(<<"stranger", 0>>, Append(Message.vals, extra))
         \/ \E i \in {k \in DOMAIN Message.vals : Message.vals[k].type = TypeStructure} :
              Sends(<<"stranger", i>>, [Message.vals EXCEPT ![i].vals = Append(@, extra)])

\* A value has another type.
SendMistyped ==
  /\ phase = "wire" /\ change = <<"none">>
  /\ \E i \in DOMAIN Message.vals :
       LET n == Message.vals[i]
       IN  Sends(<<"mistype", i>>,
                 [Message.vals EXCEPT ![i] = IF n.type = TypeStructure THEN Leaf(n.tag, encodeBool(1))
                                                                       ELSE Structure(n.tag, <<>>)])

\* Unmarshal into a new struct.
UnmarshalStruct ==
  /\ phase = "wire"
  /\ got' = Decoded(case.type, ZeroOf(case.type), Message)
  /\ phase' = "read"
  /\ UNCHANGED <<case, wire, change, strict, again>>

MarshalAgain ==
  /\ phase = "read" /\ got.err = ""
  /\ again' = Encoded(case.tag, got.v, NoField)
  /\ phase' = "again"
  /\ UNCHANGED <<case, wire, change, strict, got>>

StructNext ==
  \/ MarshalStruct \/ SendSwapped \/ SendRepeated \/ SendStranger \/ SendMistyped
  \/ UnmarshalStruct \/ MarshalAgain

----------------------------------------------------------------------------
\* The values that Marshal wrote, and what Unmarshal makes of a message with other
\* values.
SentVals    == Encoded(case.tag, case.val, NoField).vals[1].vals
Fresh(vals) == Decoded(case.type, ZeroOf(case.type), [Message EXCEPT !.vals = vals])

\* The field that a value is for.
FieldAt(vals, i) == FieldFor(InfoOf(case.val).fields, vals[i].tag)
NameAt(vals, i)  == InfoOf(case.val).fields[FieldAt(vals, i)].name
TypeAt(vals, i)  == InfoOf(case.val).fields[FieldAt(vals, i)].type

\* The values of a field that can be told from what is on the wire: they have
\* the tag of the field, text is written as text, a []byte that is empty is nil,
\* there is one value for an interface{}, and time.Time can count microseconds from
\* the epoch.
RECURSIVE Plain(_, _)
Plain(v, fi) ==
  LET out == Encoded(TagNone, v, fi).vals
  IN  /\ \A i \in DOMAIN out : out[i].tag = fi.tag
      /\ fi.flags \cap {"any"} # {} => out = <<>>
      /\ fi.type = <<"iface">> => Len(out) <= 1
      /\ v.kind = "uid" => v.text = <<>>
      /\ v.kind = "bytes" => v.s # <<>> \/ IsNil(v)
      /\ v.kind = "string" => \A i \in DOMAIN out : out[i].type = TypeTextString
      /\ v.kind \in {"time", "dateext"} /\ out # <<>> /\ out[1].type = TypeDateTimeExtended
         => Fits(v.n, lenLongInt)
      /\ v.kind = "slice" => \A i \in DOMAIN v.e : Plain(v.e[i], fi)
      /\ v.kind = "struct" /\ fi.type # <<"iface">> =>
           \A i \in DOMAIN InfoOf(v).fields : Plain(v.f[InfoOf(v).fields[i].name], InfoOf(v).fields[i])

AllPlain ==
  \A i \in DOMAIN InfoOf(case.val).fields :
    Plain(case.val.f[InfoOf(case.val).fields[i].name], InfoOf(case.val).fields[i])


\* Values of different fields may come in any order.
OrderUnseen ==
  phase = "read" /\ change[1] = "swap" =>
    \A vals \in {SentVals} : \A plain \in {Fresh(vals)} :
      FieldAt(vals, change[2]) # FieldAt(vals, change[2] + 1) /\ plain.err = "" => got = plain

\* A value that no field is for is an error with DisallowExtraValues, wherever it
\* is, and is ignored without.  "any" fields, interface{}, Value and Values take it.
ExtraValues ==
  phase = "read" /\ change[1] = "stranger" =>
    \A vals \in {SentVals} : \A plain \in {Fresh(vals)} :
      LET i    == change[2]
          anys == \E k \in DOMAIN InfoOf(case.val).fields : "any" \in InfoOf(case.val).fields[k].flags
          deep == IF i = 0 \/ FieldAt(vals, i) = 0 THEN <<>> ELSE TypeAt(vals, i)
      IN  plain.err = "" /\ ~anys /\ SelectSeq(deep, LAMBDA t : t \in {"iface", "Value", "Values"}) = <<>>
          => IF strict THEN got.err = "ErrUnexpectedValue" ELSE got = plain

\* A value that is sent twice makes a slice longer by that value, is the one that
\* counts for a field that is neither a slice nor a struct, and changes no others.
RepeatStaysInField ==
  phase = "read" /\ change[1] = "repeat" =>
    \A vals \in {SentVals} : \A once \in {Fresh(vals)} :
      once.err = "" /\ FieldAt(vals, change[2]) > 0 =>
        \A field \in {NameAt(vals, change[2])}, type \in {TypeAt(vals, change[2])} :
          LET repeated == vals[change[2]]
          IN  /\ \A n \in DOMAIN got.v.f \ {field} : got.v.f[n] = once.v.f[n]
              /\ type[1] = "slice" =>
                   got.v.f[field].e =
                     Append(once.v.f[field].e, Decoded(Tail(type), ZeroOf(Tail(type)), repeated).v)
              /\ "struct" \notin {type[k] : k \in DOMAIN type} /\ type[1] \notin {"slice", "Values"}
                 => got.v.f[field] = Fresh(<<repeated>>).v.f[field]

\* A value that its field cannot hold leaves what the values before it have put
\* there, and nothing of the ones after it.  A slice does not grow, and a nil
\* pointer may become one to an empty value.
ErrorsLeavePrefix ==
  phase = "read" /\ change[1] = "mistype" =>
    LET i      == change[2]
        vals   == Message.vals
        before == Fresh(SubSeq(vals, 1, i - 1))
        field  == NameAt(vals, i)
        type   == TypeAt(vals, i)
    IN  before.err = "" /\ FieldAt(vals, i) > 0 /\ Fresh(SubSeq(vals, 1, i)).err # "" =>
          /\ got.err # ""
          /\ \/ got.v = before.v
             \/ /\ type[1] = "ptr" /\ before.v.f[field].kind = "nil"
                /\ got.v = [before.v EXCEPT !.f[field] = ZeroOf(Tail(type))]
=============================================================================
