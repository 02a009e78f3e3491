------------------------------- MODULE MCText -------------------------------
(***************************************************************************)
(* Either Definitions (MCDefinitions) or Ppkmip, both with bytes of one    *)
(* bit: an int32 has the values -8 to 7, an int64 -128 to 127.  There are  *)
(* 3 ns in a microsecond and 12 in a second.                               *)
(***************************************************************************)
EXTENDS MCDefinitions, Ppkmip

\* Tags: two with a mask, one of them with a name for no flags, an enum, the
\* tags of the attribute itself, one of a structure; 7 has no name.
TagList == <<<<1, <<"A", "a">>>>, <<2, <<"a", "a", "a">>>>, <<3, <<"A", " ", "a">>>>, <<4, <<"a">>>>,
             <<5, <<"1", " ", "a", "a">>>>, <<6, <<"A", "-", "1">>>>>>

WithTags   == FoldLeft(LAMBDA r, d : RegisterTag(r, d[1], d[2]), EmptyRegistry, TagList)
TypeName(tp) == [i \in 1 .. tp |-> "A"]
WithTypes  == FoldLeft(LAMBDA r, tp : RegisterType(r, tp, TypeName(tp)), WithTags, [i \in 1 .. 11 |-> i])

EnumOf(vs, mask) == FoldLeft(LAMBDA e, d : RegisterValue(e, d[1], d[2]), NewEnum(mask), vs)

MCR ==
  LET mask     == EnumOf(<<<<1, <<"a">>>>, <<6, <<"a", "a">>>>>>, TRUE)
      zeroMask == EnumOf(<<<<0, <<"a">>>>, <<2, <<"A", " ", "a">>>>>>, TRUE)
      enum     == EnumOf(<<<<1, <<"A", "a">>>>, <<9, <<"a">>>>>>, FALSE)
  IN  RegisterEnum(RegisterEnum(RegisterEnum(WithTypes, 3, Own(mask)), 4, Own(zeroMask)), 5, Own(enum))

MCFirstYear == -50
MCZeroTime  == -9

Numbers(tp) ==
  CASE tp = TypeInteger -> -8 .. 7
    [] tp \in {TypeEnumeration, TypeInterval} -> 0 .. 15
    [] tp = TypeBoolean -> {0, 1, 2, 3}
    [] tp = TypeDateTime -> {-128, -51, -50, -1, 0, 1, 80, 81, 127}
    [] OTHER -> {-128, -127, -65, -43, -42, -33, -32, -31, -17, -16, -15, -1, 0, 1, 15, 16, 17, 31, 32, 33, 42, 43, 127}

\* The spelling of a tag, another one, a word that is no tag, other characters.
Spellings == {<<>>, <<"A", " ", "a">>, <<"A", "A">>, <<"a">>, <<"1", " ", "a", "a">>, <<"A", "A", "A">>,
              <<"A", "control">>, <<"A", "bad">>}

Bytes(n) == UNION {[1 .. k -> {0, 1}] : k \in 0 .. n}
BigBytesSet == {<<>>} \cup {BigEndian(n, 8) : n \in Numbers(TypeLongInteger)}
               \cup {BigEndian(n, 16) : n \in {-32768, -129, -128, -17, -1, 0, 16, 128, 32767}}

LeavesOf(tag) ==
  UNION {{Leaf(tag, tp, n) : n \in Numbers(tp)} : tp \in IntTypes \cup LongTypes}
  \cup {TextLeaf(tag, s) : s \in Spellings}
  \cup {BytesLeaf(tag, TypeByteString, bs) : bs \in Bytes(2)}
  \cup {BytesLeaf(tag, TypeBigInteger, bs) : bs \in BigBytesSet}

\* Values that are longer than a line may be.
Long == {BytesLeaf(5, TypeByteString, [i \in 1 .. LineLimit + 1 |-> 1]),
         TextLeaf(5, [i \in 1 .. LineLimit + 1 |-> "a"])}

\* AttributeName is only a TextString.
Trees == UNION {LeavesOf(tag) : tag \in {2, 3, 4, 5, 7}} \cup {TextLeaf(1, s) : s \in Spellings} \cup Long

Names3 == {TextLeaf(1, s) : s \in Spellings}
Vals   == {Leaf(2, tp, n) : tp \in NamedTypes, n \in {0, 1, 3, 7}} \cup {Leaf(2, TypeInteger, -1), TextLeaf(2, <<"a">>)}

Attribute == {Structure(6, <<a, v>>) : a \in Names3, v \in Vals}
Structures ==
  Attribute
  \cup {Structure(tag, <<>>) : tag \in {6, 7}}
  \cup {Structure(6, <<v>>) : v \in Vals}
  \cup {Structure(6, <<v, a, v>>) : a \in Names3, v \in Vals}
  \cup {Structure(6, <<TextLeaf(1, <<"a">>), a, v>>) : a \in Names3, v \in Vals}
  \cup {Structure(3, <<TextLeaf(1, <<"a">>), s, v>>) : s \in {x \in Attribute : x.kids[1].text = <<"A", " ", "a">>}, v \in Vals}
  \cup {Structure(6, <<Structure(7, <<Leaf(7, TypeDateTime, n)>>)>>) : n \in {-51, 0}}

\* Objects of other programs: hex strings, and values of another kind.
HexStrings == Bytes(4) \cup {BigEndian(n, 8) : n \in Numbers(TypeDateTimeExtended) \cup {2, 3}}
              \cup {BigEndian(1, 6), BigEndian(1, 10)}
OtherObjects ==
  {Object(String(tag), TypeString(tp), HexString(bs)) :
     tag \in {3, 5}, tp \in 2 .. 11 \ {TypeTextString, TypeByteString}, bs \in {b \in HexStrings : Len(b) <= 8}}
  \cup {Object(String(tag), TypeString(tp), v) :
          tag \in {3, 5}, tp \in 2 .. 11, v \in {Bool(TRUE), Parts(<<>>)}}
  \cup {Object(String(3), TypeString(tp), Spelled(<<BadHex>>)) : tp \in 2 .. 11 \ {TypeTextString, TypeByteString}}
  \cup {Object(NamePart(<<"1">>), NoName, Parts(<<>>)), Object(String(3), NamePart(<<"1">>), Num(1)),
        Object(Hex(7, 3), Hex(3, 1), Num(1)), Object(String(6), NoName, Num(1))}

\* Streams, in which a date may have no JSON form.
One(d) == Structure(6, <<Leaf(3, TypeInteger, d)>>)
Streams == {<<One(1), One(2)>>, <<One(1), Leaf(5, TypeDateTime, 127), One(3)>>, <<One(1), One(0), One(3)>>}

MCInputs(x) ==
  {<<>>} \cup {<<HexPiece(<<t>>)>> : t \in Trees \cup Structures}
  \cup {<<HexPiece(s)>> : s \in Streams}
  \cup {<<JSONPiece(d)>> : d \in OtherObjects}
  \cup {<<JSONPiece(MarshalJSON(One(1))), JSONPiece(MarshalJSON(s[2]))>> : s \in Streams}

----------------------------------------------------------------------------
NoDefinitions ==
  /\ spec = Plain /\ shared = "ObjectType" /\ file = Old /\ pc = "exit2"
  /\ reg = EmptyRegistry /\ tagsLeft = {} /\ enumsLeft = {} /\ use = Unused

NoPpkmip ==
  /\ input = <<>> /\ format = "none" /\ out = "none" /\ exit = "0" /\ run = MaxRuns
  /\ left = <<>> /\ seen = <<>> /\ printed = <<>> /\ source = <<>>

MCInit == (Init /\ NoPpkmip) \/ (PpInit /\ NoDefinitions)

\* After "exit2" there are no steps of Definitions.
MCNext == (pc # "exit2" /\ Next /\ UNCHANGED ppVars) \/ (PpNext /\ UNCHANGED vars)

MCSpec == MCInit /\ [][MCNext]_<<vars, ppVars>>
=============================================================================
