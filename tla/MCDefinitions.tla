--------------------------- MODULE MCDefinitions ----------------------------
(***************************************************************************)
(* Definitions with bytes of one bit: a uint32 has the values 0 to 15 and  *)
(* a tag 0 to 7.                                                           *)
(***************************************************************************)
EXTENDS Definitions, Tables

MCTagOf ==
  [n \in DOMAIN Table14 \cup {"ExtensionType", "AttributeReference"} |->
     CASE n = "ExtensionType" -> 2 [] n = "AttributeReference" -> 3 [] OTHER -> 1]

MCFullName ==
  [n \in DOMAIN MCTagOf |->
     CASE n = "ExtensionType" -> <<"A", "a", " ", "A", "a">>
       [] n = "AttributeReference" -> <<"A", "-", "A">>
       [] OTHER -> <<"A", "a">>]

\* Two tags, and a mask for one of them with flags that overlap and a bit that
\* is free.
OneEnum(name, values, tags, mask) == [name |-> name, values |-> values, tags |-> tags, mask |-> mask]

Hex4(n)  == Hex(n, 4)
Tags2(p, q) == (<<"a">> :> p) @@ (<<"A", " ", "1">> :> q)
Flags3(p, q, r) == (<<"a">> :> p) @@ (<<"a", "a">> :> q) @@ (<<"A", "1">> :> r)

Mask(tag) == OneEnum(<<"A">>, Flags3(Hex4(1), Hex4(6), NumPart(12)), <<tag>>, TRUE)
ZeroMask(tag) == OneEnum(<<"A">>, Flags3(Hex4(0), Hex4(2), DecPart(3)), <<tag>>, TRUE)
List(tags) == OneEnum(<<"a", " ", "A">>, Flags3(Hex4(1), HexPart(<<0, 0, 1, 0, 0>>), DecPart(9)), tags, FALSE)

File(tags, enums) == [tags |-> tags, enums |-> enums]
Plain == File(Tags2(Hex4(5), NumPart(6)), <<Mask(<<"a">>)>>)

Files ==
  { Plain,
    File(Tags2(Hex4(5), NumPart(6)), <<ZeroMask(<<"a">>), List(<<<<"A", " ", "1">>, <<"A", "-", "A">>>>)>>),
    \* a tag that is known, one that is not
    File(Tags2(DecPart(4), DecPart(7)), <<Mask(<<"A", "a">>), List(<<<<"a", "a", "a">>>>)>>),
    \* enums in the place of those of the packages, two of them for one tag under
    \* its two names
    File(Tags2(Hex4(5), NumPart(6)) @@ (<<"A", "A">> :> Hex4(2)),
         <<List(<<<<"A", "A">>, <<"A", "a">>>>), ZeroMask(<<"A", "a", " ", "A", "a">>)>>),
    \* one value or one name twice, one of them hidden by the spelling
    File(Tags2(Hex4(5), DecPart(5)), <<>>),
    File((<<"a">> :> Hex4(5)) @@ (<<"A">> :> Hex4(6)), <<>>),
    File(Tags2(Hex4(5), Hex4(6)), <<Mask(<<"a">>), List(<<<<"A">>>>)>>),
    File(Tags2(Hex4(5), Hex4(6)), <<Mask(<<"a">>), Mask(<<"A", "1">>)>>),
    \* values that are no numbers, too long or out of range, and an empty name
    File(Tags2(BadHex, Hex4(6)), <<>>),
    File(Tags2(DecPart(16), Hex4(6)), <<OneEnum(<<>>, <<>>, <<>>, FALSE)>>),
    File(Tags2(Hex4(5), Hex4(6)), <<Mask(<<"a">>), OneEnum(<<>>, Flags3(BadHex, BadHex, BadHex), <<>>, FALSE)>>),
    File(Tags2(Hex4(5), NumPart(-1)), <<>>),
    \* the name of a tag of kmip14 again, and a name that starts with a number
    File(Tags2(Hex4(5), Hex4(6)) @@ (<<"A", "A">> :> Hex4(2)) @@ (<<"A", "a">> :> Hex4(7)), <<>>),
    File((<<"1", " ", "a", "a">> :> Hex4(5)) @@ (<<"1", "a">> :> Hex4(6)), <<>>),
    \* a name that another one is normalized to
    File((<<"1", " ", "A">> :> Hex4(5)) @@ (<<"1", "A">> :> Hex4(6)), <<>>) }

\* Enum is the result of the loop, in the order in which FoldSet takes the names.
ASSUME EnumIsLoop ==
  \A f \in Files : \A i \in DOMAIN f.enums : \A vals \in Parsed(f.enums[i].values), mask \in BOOLEAN :
    OneToOne(vals) =>
      Enum(vals, mask) = FoldSet(LAMBDA n, e : RegisterValue(e, vals[n], n), NewEnum(mask), DOMAIN vals)

MCCases == (Files \X {"ObjectType"}) \cup ({Plain} \X DOMAIN Table14)

\* Hex strings of up to six bytes, a malformed one, decimals, names.
MCTexts ==
  {HexPart(bs) : bs \in UNION {[1 .. n -> {0, 1}] : n \in 0 .. 6}}
    \cup {BadHex, DecPart(3), DecPart(-1), DecPart(16)}
    \cup {NamePart(<<"a">>), NamePart(<<"A">>), NamePart(<<"a", "a">>), NamePart(<<"a", " ", "A">>)}
=============================================================================
