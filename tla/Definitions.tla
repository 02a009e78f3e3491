---------------------------- MODULE Definitions -----------------------------
(***************************************************************************)
(* The life of a set of definitions: a specification file goes through     *)
(* kmipgen (cmd/kmipgen/main.go), the Go file it writes is compiled into a *)
(* program, and when that program starts its packages register their       *)
(* tables in DefaultRegistry: ttlv, kmip14, kmip20 (kmip_1_4.go,           *)
(* kmip_2_0_additions.go) and the generated package.  The program then     *)
(* formats and parses values.                                              *)
(*                                                                         *)
(* A generated file is what its tables say.  kmipgen iterates over Go maps *)
(* and so does the code it generates: the order is arbitrary.              *)
(***************************************************************************)
EXTENDS Registry

CONSTANTS
  Cases,     \* pairs of a specification file and a tag that 1.4 and 2.0 both have
  Texts,     \* what users write for a value
  TagOf,     \* the number of a tag of kmip14 and kmip20, by its name in Go
  FullName,  \* the canonical names of those tags
  Table14,   \* for each tag that both packages have, the names of its values in kmip14,
  Table20    \* and in kmip20

VARIABLES
  spec,      \* the input of kmipgen
  shared,    \* the tag of both packages that is looked at
  file,      \* the output file
  pc,        \* where kmipgen and then the program are
  reg,       \* DefaultRegistry
  tagsLeft,  \* names of the generated tags that are not registered yet
  enumsLeft, \* <<index, tag name>> of the enums that are not registered yet
  use        \* the value that was formatted or parsed last, and the result

vars == <<spec, shared, file, pc, reg, tagsLeft, enumsLeft, use>>

ASSUME DefinitionsAssumption == \A s \in Texts : s.k = "hex" => s.bytes \in Seq(0 .. Base - 1)

\* The tags of the two packages have different numbers and names.
ASSUME CasesAssumption ==
  \A c \in Cases :
    /\ c[2] \in DOMAIN Table14 \ {"ExtensionType", "AttributeReference"}
    /\ \A m, o \in {c[2], "ExtensionType", "AttributeReference"} :
         m # o => TagOf[m] # TagOf[o] /\ NormalizeName(FullName[m]) # NormalizeName(FullName[o])

Uint32s == 0 .. Pow(lenInt) - 1

\* The number of a definition is a JSON string (hex or decimal), a JSON number
\* or something else.  An enum has a name, values and the tags that use it.
NumPart(n) == [k |-> "num", n |-> n]

----------------------------------------------------------------------------
(***************************************************************************)
(* kmipgen.                                                                *)
(***************************************************************************)

\* The numbers that parseUint32 may return, none if it returns an error.  What
\* the conversion of a float64 out of range gives depends on the platform.
parseUint32(p) ==
  CASE p.k = "hex" -> IF ParsesHex(p, lenInt) THEN {DecodeUint32(p.bytes)} ELSE {}
    [] p.k = "dec" -> {p.n} \cap Uint32s
    [] p.k = "num" -> IF p.n \in Uint32s THEN {p.n} ELSE Uint32s
    [] OTHER       -> {}

\* The values a table may get.
Parsed(m) == {f \in [DOMAIN m -> Uint32s] : \A n \in DOMAIN m : f[n] \in parseUint32(m[n])}

\* toEnumVal returns an error, or panics when it takes the first letter of a
\* name that is empty.
Unnamed(d) == NormalizeName(d.name) = <<>>
Faulty(d)  == Unnamed(d) \/ Parsed(d.values) = {}

\* prepareInput: the first fault decides.
PrepareFails(s) == Parsed(s.tags) = {} \/ \E i \in DOMAIN s.enums : Faulty(s.enums[i])
PreparePanics(s) ==
  /\ Parsed(s.tags) # {}
  /\ \E i \in DOMAIN s.enums : Unnamed(s.enums[i]) /\ \A j \in 1 .. i - 1 : ~Faulty(s.enums[j])

\* The generated source.
Source(s, tags, vals) ==
  [tags  |-> tags,
   enums |-> [i \in DOMAIN s.enums |->
                [type |-> NormalizeName(s.enums[i].name), vals |-> vals[i], mask |-> s.enums[i].mask,
                 tags |-> [k \in DOMAIN s.enums[i].tags |-> NormalizeName(s.enums[i].tags[k])]]]]

Old     == [text |-> "old"]
Empty   == [text |-> "empty"]
Part    == [text |-> "part"]
Code(c) == [text |-> "code", code |-> c]

\* run up to the creation of the output file.  The input may be missing, it may
\* not be JSON, and os.Create may fail; it truncates the old file.
ReadSpec ==
  /\ pc = "kmipgen"
  /\ \/ pc' = "exit1" /\ UNCHANGED file
     \/ pc' = "generate" /\ file' = Empty
  /\ UNCHANGED <<spec, shared, reg, tagsLeft, enumsLeft, use>>

\* The values of all the enums.
AllParsed(enums) ==
  {v \in [DOMAIN enums -> UNION {Parsed(enums[i].values) : i \in DOMAIN enums}] :
     \A i \in DOMAIN enums : v[i] \in Parsed(enums[i].values)}

\* genCode and the rest of run.  An error of genCode is only printed, and the
\* empty string written.  The write may stop anywhere.
Generate ==
  /\ pc = "generate"
  /\ \/ /\ PrepareFails(spec)
        /\ pc' = IF PreparePanics(spec) THEN "exit2" ELSE "exit0"
        /\ UNCHANGED file
     \/ /\ ~PrepareFails(spec)
        /\ \E tags \in Parsed(spec.tags), vals \in AllParsed(spec.enums) :
             \/ file' = Code(Source(spec, tags, vals)) /\ pc' = "exit0"
             \/ file' = Part /\ pc' = "exit1"
  /\ UNCHANGED <<spec, shared, reg, tagsLeft, enumsLeft, use>>

----------------------------------------------------------------------------
(***************************************************************************)
(* The compiler and the start of the program.                              *)
(***************************************************************************)

\* Different names stay different, and have different values.
OneToOne(m) == \A n, o \in DOMAIN m : n # o => NormalizeName(n) # NormalizeName(o) /\ m[n] # m[o]

\* The places of the tags of the enums.
EnumTags(c) == UNION {{<<i, k>> : k \in DOMAIN c.enums[i].tags} : i \in DOMAIN c.enums}
EnumTag(c, l) == c.enums[l[1]].tags[l[2]]

\* What the Go compiler asks of the constants and map literals in the file: a
\* constant is declared once and a key occurs once.  A file that is cut off
\* lacks the function that Register calls.
Compiles(f) ==
  /\ f.text = "code"
  /\ OneToOne(f.code.tags)
  /\ \A i \in DOMAIN f.code.enums :
       /\ OneToOne(f.code.enums[i].vals)
       /\ \A j \in DOMAIN f.code.enums : f.code.enums[i].type = f.code.enums[j].type => i = j
  /\ \A l, m \in EnumTags(f.code) : EnumTag(f.code, l) = EnumTag(f.code, m) => l = m

\* The New...Enum functions: what the loop of RegisterValue over the table
\* leaves, which names and values that are OneToOne make independent of the order.
Enum(vals, mask) ==
  LET values  == {vals[n] : n \in DOMAIN vals}
      name(v) == CHOOSE n \in DOMAIN vals : vals[n] = v
  IN  [valuesToName          |-> [v \in values |-> NormalizeName(name(v))],
       nameToValue           |-> [s \in {NormalizeName(n) : n \in DOMAIN vals} |->
                                    vals[CHOOSE n \in DOMAIN vals : NormalizeName(n) = s]],
       valuesToCanonicalName |-> [v \in values |-> name(v)],
       canonicalNamesToValue |-> vals,
       bitMask               |-> mask]

\* The same for a table t of kmip14 or kmip20, from values to names.  These names
\* are not spelled out: normalizing them makes others, and different ones.
TableEnum(t) ==
  LET full(v)  == <<t[v]>>
      short(v) == <<t[v], "normalized">>
  IN  [valuesToName          |-> [v \in DOMAIN t |-> short(v)],
       nameToValue           |-> [s \in {short(v) : v \in DOMAIN t} |-> CHOOSE v \in DOMAIN t : short(v) = s],
       valuesToCanonicalName |-> [v \in DOMAIN t |-> full(v)],
       canonicalNamesToValue |-> [s \in {full(v) : v \in DOMAIN t} |-> CHOOSE v \in DOMAIN t : full(v) = s],
       bitMask               |-> FALSE]

\* The generated files of the two packages: some of their tags, and one enum.
Generated(tags, t, table) ==
  [tags  |-> [n \in {FullName[m] : m \in tags} |-> TagOf[CHOOSE m \in tags : FullName[m] = n]],
   enums |-> <<[type |-> NormalizeName(FullName[t]), vals |-> table[t], mask |-> FALSE,
                tags |-> <<NormalizeName(FullName[t])>>]>>]

CodeOf(p) ==
  CASE p = "kmip14" -> Generated({shared, "ExtensionType"}, shared, Table14)
    [] p = "kmip20" -> Generated({"AttributeReference"}, shared, Table20)
    [] OTHER        -> file.code

\* The call of RegisterGeneratedDefinitions of package p, and its end.
Enter(p) ==
  /\ pc' = p
  /\ tagsLeft' = DOMAIN CodeOf(p).tags
  /\ enumsLeft' = EnumTags(CodeOf(p))
  /\ UNCHANGED <<spec, shared, file, use>>

Leaves(p) == pc = p /\ tagsLeft = {} /\ enumsLeft = {}

\* The build of a program with the file.  When it starts, ttlv registers the
\* types (RegisterTypes) and kmip14 the definitions of 1.4.
Start ==
  /\ pc \in {"exit0", "exit1"}
  /\ Compiles(file)
  /\ reg' = RegisterType(EmptyRegistry, TypeInteger, <<"A", "a">>)
  /\ Enter("kmip14")

\* The enumeration of the tag "Attribute Reference": Registry.Tags.
AllTags(r) == TagsRef

\* kmip20.Register: two enumerations, then those of 2.0, which replace tables
\* of kmip14.
Register20 ==
  /\ Leaves("kmip14")
  /\ reg' = RegisterEnum(RegisterEnum(reg, TagOf["AttributeReference"], AllTags(reg)),
                         TagOf["ExtensionType"], TypesRef)
  /\ Enter("kmip20")

RegisterCustom == Leaves("kmip20") /\ Enter("custom") /\ UNCHANGED reg

\* RegisterGeneratedDefinitions: all the tags, in any order, then the enums, in
\* any order.
RegisterOneTag ==
  /\ \E n \in tagsLeft :
       /\ reg' = RegisterTag(reg, CodeOf(pc).tags[n], n)
       /\ tagsLeft' = tagsLeft \ {n}
  /\ UNCHANGED <<spec, shared, file, pc, enumsLeft, use>>

\* Variant: the enums do not wait for the tags.
NoOrder == TRUE

\* The loop over the tags comes before the one over the enums.
TagsFirst == tagsLeft = {}

\* The name of the tag is looked up in DefaultRegistry, and one that is not
\* there is a panic.
RegisterOneEnum ==
  /\ TagsFirst
  /\ \E l \in enumsLeft :
       LET d   == CodeOf(pc).enums[l[1]]
           tag == ParseTag(NamePart(d.tags[l[2]]), reg.tags)
       IN  \/ /\ tag.res = "ok"
              /\ reg' = RegisterEnum(reg, tag.v,
                          Own(IF pc = "custom" THEN Enum(d.vals, d.mask) ELSE TableEnum(d.vals)))
              /\ enumsLeft' = enumsLeft \ {l}
              /\ UNCHANGED <<pc, tagsLeft>>
           \/ /\ tag.res # "ok"
              /\ pc' = "panic" /\ tagsLeft' = {} /\ enumsLeft' = {}
              /\ UNCHANGED reg
  /\ UNCHANGED <<spec, shared, file, use>>

----------------------------------------------------------------------------
(***************************************************************************)
(* The use of the registry.                                                *)
(***************************************************************************)

Used(what, tag, v, text, back) ==
  /\ Leaves("custom") /\ pc' = "used"
  /\ use' = [what |-> what, tag |-> tag, v |-> v, text |-> text, back |-> back]
  /\ UNCHANGED <<spec, shared, file, reg, tagsLeft, enumsLeft>>

Tags == 0 .. Pow(lenTag) - 1

\* A value is written and read again.
UseEnum == \E t \in Tags, v \in Uint32s :
  LET s == FormatName(v, EnumForTag(reg, t), lenInt)
  IN  Used("enum", t, v, <<s>>, ParseEnum(s, EnumForTag(reg, t)))

UseInt == \E t \in Tags, v \in Uint32s :
  LET s == FormatInt(Int32(v), EnumForTag(reg, t))
  IN  Used("int", t, Int32(v), s, ParseInt(s, EnumForTag(reg, t)))

UseTag == \E t \in Tags : \E s \in {FormatName(t, reg.tags, lenTag), FormatTagCanonical(t, reg.tags)} :
  Used("tag", t, t, <<s>>, ParseTag(s, reg.tags))

\* unmarshalXMLTval and unmarshalJSON look up the text of an AttributeName,
\* which may be either name, after normalizing it.
UseAttributeName == \E t \in Tags : \E s \in {FormatName(t, reg.tags, lenTag), FormatTagCanonical(t, reg.tags)} :
  LET n == IF s.k = "name" THEN NamePart(NormalizeName(s.name)) ELSE s
  IN  Used("attribute", t, t, <<n>>, ParseTag(n, reg.tags))

\* A text is read.
UseText == \E t \in Tags, s \in Texts :
  \/ Used("text", t, 0, <<s>>, ParseEnum(s, EnumForTag(reg, t)))
  \/ Used("text", t, 0, <<s>>, ParseInt(<<s>>, EnumForTag(reg, t)))
  \/ Used("type", t, 0, <<s>>, ParseType(s, reg.types))

Unused == [what |-> "none", tag |-> 0, v |-> 0, text |-> <<>>, back |-> NotFound]

Init ==
  /\ \E c \in Cases : spec = c[1] /\ shared = c[2]
  /\ file = Old
  /\ pc = "kmipgen"
  /\ reg = EmptyRegistry
  /\ tagsLeft = {} /\ enumsLeft = {}
  /\ use = Unused

Next ==
  \/ ReadSpec \/ Generate
  \/ Start \/ Register20 \/ RegisterCustom \/ RegisterOneTag \/ RegisterOneEnum
  \/ UseEnum \/ UseInt \/ UseTag \/ UseAttributeName \/ UseText

Spec == Init /\ [][Next]_vars

----------------------------------------------------------------------------
(***************************************************************************)
(* Properties.                                                             *)
(***************************************************************************)

\* e has the value v with the name n, and has v under both spellings of n, unless
\* the canonical one is what another name is normalized to.
Known(e, v, n) ==
  /\ HasName(e, v) /\ e.valuesToName[v] = NormalizeName(n)
  /\ \A s \in {n, NormalizeName(n)} : HasValue(e, s)
  /\ Value(e, NormalizeName(n)) = v
  /\ Value(e, n) = v \/ \E m \in DOMAIN e.canonicalNamesToValue \ {n} : NormalizeName(m) = n

\* The tag for which the specification has the enum at l.
TagNumber(l) == Value(reg.tags, NormalizeName(EnumTag(spec, l)))

\* e is what the specification says in d.
EnumKnown(e, d) ==
  /\ e.bitMask = d.mask
  /\ \A n \in DOMAIN d.values : \E v \in parseUint32(d.values[n]) : Known(e, v, n)

\* Whatever went wrong in kmipgen and in whatever order the tables were
\* registered, a program that has started knows every definition of the
\* specification, tags, enumerations and masks, each value by its number and under
\* both of its names: none is missing, and none hides another.  There are two
\* exceptions: a canonical name that is what another name is normalized to stands
\* for that one, and of enums for one and the same tag number, one is known.
AllDefinitionsKnown ==
  pc \in {"custom", "used"} /\ tagsLeft = {} /\ enumsLeft = {} =>
    /\ \A n \in DOMAIN spec.tags : \E v \in parseUint32(spec.tags[n]) : Known(reg.tags, v, n)
    /\ \A l \in EnumTags(spec) : \E m \in EnumTags(spec) :
         /\ TagNumber(m) = TagNumber(l)
         /\ EnumKnown(EnumForTag(reg, TagNumber(m)), spec.enums[m[1]])

\* The tables that kmip20 registers in place of those of kmip14 lose none of
\* the values that had a name, and change no name.
KeepsNames ==
  [][pc = "kmip14" \/ pc = "kmip20" =>
       LET old == EnumForTag(reg, TagOf[shared])
           new == EnumForTag(reg, TagOf[shared])'
       IN  \A v \in DOMAIN old.valuesToName :
             /\ HasName(new, v) /\ new.valuesToName[v] = old.valuesToName[v]
             /\ new.valuesToCanonicalName[v] = old.valuesToCanonicalName[v]]_vars

\* The start of a program fails only over an enum for a tag that none of the
\* packages has defined.
PanicsForUnknownTag ==
  pc = "panic" =>
    \E l \in EnumTags(file.code) :
      EnumTag(file.code, l) \notin
        {NormalizeName(n) : n \in DOMAIN file.code.tags
                                  \cup {FullName[m] : m \in {shared, "ExtensionType", "AttributeReference"}}}

\* A name of a tag stands for another one: it was registered again, or it is
\* what the name of the other one is normalized to.
HidesName ==
  \E v \in DOMAIN reg.tags.valuesToName :
    v # Value(reg.tags, reg.tags.valuesToName[v]) \/ v # Value(reg.tags, reg.tags.valuesToCanonicalName[v])

\* What FormatEnum, FormatInt, FormatTag and FormatTagCanonical write, ParseEnum,
\* ParseInt and ParseTag read as the same value, named, partly named or not.
\* There are three exceptions: the empty mask in an enum that has no name for
\* it, a negative integer without an enum, and tags of which one hides another.
FormatsAreParsed ==
  use.what \in {"enum", "int", "tag"} =>
    \/ use.back = Found(use.v)
    \/ use.back = NotFound /\ use.text \in {<<>>, <<SignedHex>>}
    \/ HidesName /\ (use.what = "tag" \/ EnumForTag(reg, use.tag) = reg.tags)

\* An attribute is found under the normalized and the canonical name of its tag,
\* normalized again, unless the name of the tag begins with a digit, or a name of
\* a tag stands for another one.
AttributeNamesFound ==
  use.what = "attribute" =>
    \/ use.back = Found(use.tag)
    \/ /\ use.back = NotFound
       /\ HasName(reg.tags, use.tag) /\ LeadingDigits(reg.tags.valuesToCanonicalName[use.tag]) > 0
    \/ HidesName

\* A hex string of one to four bytes is the number that it spells, and one with
\* more than four bytes after its leading zeros is refused.  Nothing is said of
\* the empty string, which the code takes for 0, nor of a longer one that begins
\* with zeros, of which it takes the first four bytes.
HexIsExact ==
  use.what = "text" /\ use.text[1].k = "hex" =>
    LET bs == use.text[1].bytes
    IN  /\ Len(bs) \in 1 .. lenInt => use.back.res = "ok" /\ Uint32(use.back.v) = Unsigned(bs)
        /\ Significant(bs) > lenInt => use.back.res = "error"
=============================================================================
