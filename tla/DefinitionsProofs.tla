------------------------- MODULE DefinitionsProofs --------------------------
(***************************************************************************)
(* Proofs about Definitions, for specification files of any size and any   *)
(* names in them: a program that starts knows every definition, and one    *)
(* that does not start lacks a tag.  A hex string is the number it spells, *)
(* and the tables of kmip20 keep the names that kmip14 gave to its values. *)
(***************************************************************************)
EXTENDS Definitions, Arithmetic, TLAPS

\* The provers have a minute for every leaf that asks for no other.
USE SMTT(60), ZenonT(60)

----------------------------------------------------------------------------
(***************************************************************************)
(* The maps of an Enum and of a Registry.                                  *)
(***************************************************************************)

\* An Enum has its five fields, and the names of nameToValue are those of
\* canonicalNamesToValue after normalizing.
IsTable(e) ==
  /\ e = [valuesToName |-> e.valuesToName, nameToValue |-> e.nameToValue,
          valuesToCanonicalName |-> e.valuesToCanonicalName,
          canonicalNamesToValue |-> e.canonicalNamesToValue, bitMask |-> e.bitMask]
  /\ DOMAIN e.nameToValue = {NormalizeName(m) : m \in DOMAIN e.canonicalNamesToValue}

IsRegistry(r) == r = [tags |-> r.tags, types |-> r.types, enums |-> r.enums] /\ IsTable(r.tags)

\* A value is known by its number and under both of its names.
Knows(e, v, n) ==
  /\ v \in DOMAIN e.valuesToName /\ e.valuesToName[v] = NormalizeName(n)
  /\ NormalizeName(n) \in DOMAIN e.nameToValue /\ e.nameToValue[NormalizeName(n)] = v
  /\ n \in DOMAIN e.canonicalNamesToValue /\ e.canonicalNamesToValue[n] = v

\* An assignment to a map of Go: the key that is assigned to.
LEMMA PutAt ==
  ASSUME NEW f, NEW x, NEW y
  PROVE  x \in DOMAIN Put(f, x, y) /\ Put(f, x, y)[x] = y
BY ZenonT(60) DEF Put

\* An assignment to a map of Go: any other key.
LEMMA PutOther ==
  ASSUME NEW f, NEW x, NEW y, NEW z, z # x
  PROVE  /\ z \in DOMAIN Put(f, x, y) <=> z \in DOMAIN f
         /\ z \in DOMAIN f => Put(f, x, y)[z] = f[z]
BY ZenonT(60) DEF Put

\* NewEnum makes an Enum without names.
LEMMA NewEnumIs ==
  ASSUME NEW mask
  PROVE  IsTable(NewEnum(mask)) /\ DOMAIN NewEnum(mask).canonicalNamesToValue = {}
<1> DEFINE e == NewEnum(mask)
<1>1. e = [valuesToName |-> e.valuesToName, nameToValue |-> e.nameToValue,
           valuesToCanonicalName |-> e.valuesToCanonicalName,
           canonicalNamesToValue |-> e.canonicalNamesToValue, bitMask |-> e.bitMask]
  BY SMTT(60) DEF NewEnum
<1>2. DOMAIN e.nameToValue = {} /\ DOMAIN e.canonicalNamesToValue = {}
  BY SMTT(60) DEF NewEnum
<1> HIDE DEF e
<1>3. DOMAIN e.nameToValue = {NormalizeName(m) : m \in DOMAIN e.canonicalNamesToValue}
  BY <1>2
<1> QED
  BY <1>1, <1>2, <1>3, ZenonT(60) DEF IsTable, e

\* RegisterValue makes a value known.  What was known stays known, if it has
\* another number and other names.
LEMMA RegisterValueIs ==
  ASSUME NEW e, IsTable(e), NEW v, NEW n
  PROVE  LET f == RegisterValue(e, v, n)
         IN  /\ IsTable(f) /\ Knows(f, v, n)
             /\ f.nameToValue = Put(e.nameToValue, NormalizeName(n), v)
             /\ DOMAIN f.canonicalNamesToValue = DOMAIN e.canonicalNamesToValue \cup {n}
             /\ \A w, m : Knows(e, w, m) /\ w # v /\ NormalizeName(m) # NormalizeName(n) => Knows(f, w, m)
<1> DEFINE a == Put(e.valuesToName, v, NormalizeName(n))
           b == Put(e.nameToValue, NormalizeName(n), v)
           c == Put(e.valuesToCanonicalName, v, n)
           d == Put(e.canonicalNamesToValue, n, v)
           f == RegisterValue(e, v, n)
<1>1. e = [valuesToName |-> e.valuesToName, nameToValue |-> e.nameToValue,
           valuesToCanonicalName |-> e.valuesToCanonicalName,
           canonicalNamesToValue |-> e.canonicalNamesToValue, bitMask |-> e.bitMask]
  BY ZenonT(60) DEF IsTable
<1>2. f = [e EXCEPT !.valuesToName = a, !.nameToValue = b, !.valuesToCanonicalName = c, !.canonicalNamesToValue = d]
  BY ZenonT(60) DEF RegisterValue
<1> HIDE DEF a, b, c, d, f
<1>3. f = [valuesToName |-> a, nameToValue |-> b, valuesToCanonicalName |-> c, canonicalNamesToValue |-> d,
           bitMask |-> e.bitMask]
  <2> DEFINE R(w, x, y, z) ==
        [valuesToName |-> w, nameToValue |-> x, valuesToCanonicalName |-> y, canonicalNamesToValue |-> z,
         bitMask |-> e.bitMask]
             A(q) == [q EXCEPT !.valuesToName = a]
             B(q) == [q EXCEPT !.nameToValue = b]
             C(q) == [q EXCEPT !.valuesToCanonicalName = c]
             D(q) == [q EXCEPT !.canonicalNamesToValue = d]
  <2>1. \A w, x, y, z : A(R(w, x, y, z)) = R(a, x, y, z)
    BY SMTT(60)
  <2>2. \A w, x, y, z : B(R(w, x, y, z)) = R(w, b, y, z)
    BY SMTT(60)
  <2>3. \A w, x, y, z : C(R(w, x, y, z)) = R(w, x, c, z)
    BY SMTT(60)
  <2>4. \A w, x, y, z : D(R(w, x, y, z)) = R(w, x, y, d)
    BY SMTT(60)
  <2>5. e = R(e.valuesToName, e.nameToValue, e.valuesToCanonicalName, e.canonicalNamesToValue)
    BY <1>1, ZenonT(60)
  <2>6. f = D(C(B(A(e))))
    BY <1>2, ZenonT(60)
  <2> HIDE DEF R, A, B, C, D
  <2>7. PICK w, x, y, z : e = R(w, x, y, z)
    BY <2>5, ZenonT(60)
  <2>8. A(e) = R(a, x, y, z)
    BY <2>1, <2>7, SMTT(60)
  <2>9. B(A(e)) = R(a, b, y, z)
    BY <2>2, <2>8, SMTT(60)
  <2>10. C(B(A(e))) = R(a, b, c, z)
    BY <2>3, <2>9, ZenonT(60)
  <2>11. f = R(a, b, c, d)
    BY <2>4, <2>6, <2>10, ZenonT(60)
  <2> QED
    BY <2>11, ZenonT(60) DEF R
<1>4. /\ f.valuesToName = a /\ f.nameToValue = b /\ f.valuesToCanonicalName = c /\ f.canonicalNamesToValue = d
      /\ f.bitMask = e.bitMask
  BY <1>3, SMTT(60)
<1>5. /\ DOMAIN a = DOMAIN e.valuesToName \cup {v} /\ a[v] = NormalizeName(n)
      /\ \A z \in DOMAIN e.valuesToName : z # v => a[z] = e.valuesToName[z]
  BY ZenonT(60) DEF a, Put
<1>6. /\ DOMAIN b = DOMAIN e.nameToValue \cup {NormalizeName(n)} /\ b[NormalizeName(n)] = v
      /\ \A z \in DOMAIN e.nameToValue : z # NormalizeName(n) => b[z] = e.nameToValue[z]
  BY ZenonT(60) DEF b, Put
<1>7. /\ DOMAIN d = DOMAIN e.canonicalNamesToValue \cup {n} /\ d[n] = v
      /\ \A z \in DOMAIN e.canonicalNamesToValue : z # n => d[z] = e.canonicalNamesToValue[z]
  BY ZenonT(60) DEF d, Put
<1>8. IsTable(f)
  <2>1. DOMAIN b = {NormalizeName(m) : m \in DOMAIN d}
    <3>1. DOMAIN e.nameToValue = {NormalizeName(m) : m \in DOMAIN e.canonicalNamesToValue}
      BY ZenonT(60) DEF IsTable
    <3> QED
      BY <1>6, <1>7, <3>1, ZenonT(60)
  <2> QED
    BY <1>3, <1>4, <2>1, ZenonT(60) DEF IsTable
<1>9. Knows(f, v, n)
  BY <1>4, <1>5, <1>6, <1>7, ZenonT(60) DEF Knows
<1>10. ASSUME NEW w, NEW m, Knows(e, w, m), w # v, NormalizeName(m) # NormalizeName(n) PROVE Knows(f, w, m)
  <2>1. m # n
    BY <1>10, ZenonT(60)
  <2> QED
    BY <1>4, <1>5, <1>6, <1>7, <1>10, <2>1, ZenonT(60) DEF Knows
<1> QED
  BY <1>4, <1>7, <1>8, <1>9, <1>10, ZenonT(60) DEF f, b

\* The assignments of the registry leave its other maps alone.
LEMMA RegisterIs ==
  ASSUME NEW r, IsRegistry(r), NEW t, NEW x
  PROVE  /\ IsRegistry(RegisterType(r, t, x)) /\ RegisterType(r, t, x).tags = r.tags
         /\ RegisterType(r, t, x).enums = r.enums
         /\ IsRegistry(RegisterEnum(r, t, x)) /\ RegisterEnum(r, t, x).tags = r.tags
         /\ RegisterEnum(r, t, x).enums = Put(r.enums, t, x)
<1>1. r = [tags |-> r.tags, types |-> r.types, enums |-> r.enums] /\ IsTable(r.tags)
  BY ZenonT(60) DEF IsRegistry
<1> DEFINE a == RegisterValue(r.types, t, x)
           c == Put(r.enums, t, x)
           ra == RegisterType(r, t, x)
           rc == RegisterEnum(r, t, x)
<1>2. ra = [r EXCEPT !.types = a] /\ rc = [r EXCEPT !.enums = c]
  BY ZenonT(60) DEF RegisterType, RegisterEnum
<1> HIDE DEF a, c, ra, rc
<1>3. /\ ra = [tags |-> r.tags, types |-> a, enums |-> r.enums]
      /\ rc = [tags |-> r.tags, types |-> r.types, enums |-> c]
  BY <1>1, <1>2, SMTT(60)
<1>4. /\ ra.tags = r.tags /\ ra.types = a /\ ra.enums = r.enums
      /\ rc.tags = r.tags /\ rc.types = r.types /\ rc.enums = c
  BY <1>3, SMTT(60)
<1> QED
  BY <1>1, <1>3, <1>4, ZenonT(60) DEF IsRegistry, ra, rc, c

\* RegisterTag is RegisterValue for the tags.
LEMMA RegisterTagIs ==
  ASSUME NEW r, IsRegistry(r), NEW t, NEW x, NEW q, q = RegisterTag(r, t, x)
  PROVE  IsRegistry(q) /\ q.tags = RegisterValue(r.tags, t, x) /\ q.enums = r.enums
<1> DEFINE b == RegisterValue(r.tags, t, x)
<1>1. r = [tags |-> r.tags, types |-> r.types, enums |-> r.enums] /\ IsTable(r.tags)
  BY ZenonT(60) DEF IsRegistry
<1>2. q = [r EXCEPT !.tags = b]
  BY ZenonT(60) DEF RegisterTag
<1>3. IsTable(b)
  BY <1>1, RegisterValueIs, ZenonT(60)
<1> HIDE DEF b
<1>4. q = [tags |-> b, types |-> r.types, enums |-> r.enums]
  BY <1>1, <1>2, SMTT(60)
<1>5. q.tags = b /\ q.types = r.types /\ q.enums = r.enums
  BY <1>4, SMTT(60)
<1> QED
  BY <1>3, <1>4, <1>5, ZenonT(60) DEF IsRegistry, b

\* The registry of a program that has not started.
LEMMA EmptyRegistryIs ==
  /\ IsRegistry(EmptyRegistry) /\ DOMAIN EmptyRegistry.enums = {}
  /\ DOMAIN EmptyRegistry.tags.canonicalNamesToValue = {}
<1>1. EmptyRegistry.tags = NewEnum(FALSE) /\ DOMAIN EmptyRegistry.enums = {}
      /\ EmptyRegistry = [tags |-> EmptyRegistry.tags, types |-> EmptyRegistry.types, enums |-> EmptyRegistry.enums]
  BY SMTT(60) DEF EmptyRegistry
<1> QED
  BY <1>1, NewEnumIs, ZenonT(60) DEF IsRegistry

\* A name that was registered is found, and stands for its value.
LEMMA NameFound ==
  ASSUME NEW e, IsTable(e), NEW n
  PROVE  /\ ParseTag(NamePart(n), e).res # "ok" => \A m \in DOMAIN e.canonicalNamesToValue : NormalizeName(m) # n
         /\ ParseTag(NamePart(n), e).res = "ok" => ParseTag(NamePart(n), e).v = Value(e, n)
<1> DEFINE p == NamePart(n)
<1>1. p.k = "name" /\ p.name = n /\ p.k # "hex"
  BY SMTT(60) DEF NamePart
<1>2. (\A x : Found(x).res = "ok" /\ Found(x).v = x) /\ NotFound.res # "ok"
  BY SMTT(60) DEF Found, NotFound
<1> HIDE DEF p
<1>3. ~ParsesHex(p, lenTag)
  BY <1>1, ZenonT(60) DEF ParsesHex
<1>4. /\ HasValue(e, n) => ParseTag(p, e) = Found(Value(e, n))
      /\ ~HasValue(e, n) => ParseTag(p, e) = NotFound
  BY <1>1, <1>3, ZenonT(60) DEF ParseTag, parseHexOrName
<1>5. HasValue(e, n) => ParseTag(p, e).res = "ok"
  BY <1>2, <1>4, ZenonT(60)
<1>6. ASSUME NEW m \in DOMAIN e.canonicalNamesToValue, NormalizeName(m) = n PROVE HasValue(e, n)
  BY <1>6, ZenonT(60) DEF HasValue, IsTable
<1>7. ParseTag(p, e).res = "ok" => ParseTag(p, e).v = Value(e, n)
  BY <1>2, <1>4, ZenonT(60)
<1> QED
  BY <1>5, <1>6, <1>7, ZenonT(60) DEF p

\* What an Enum knows is known in the sense of the property.
LEMMA KnowsIsKnown ==
  ASSUME NEW e, IsTable(e), NEW v, NEW n, Knows(e, v, n)
  PROVE  Known(e, v, n)
<1>1. HasName(e, v) /\ e.valuesToName[v] = NormalizeName(n)
  BY ZenonT(60) DEF Knows, HasName
<1>2. \A s \in {n, NormalizeName(n)} : HasValue(e, s)
  BY ZenonT(60) DEF Knows, HasValue
<1>3. Value(e, NormalizeName(n)) = v
  BY ZenonT(60) DEF Knows, Value
<1>4. \/ Value(e, n) = v
      \/ \E m \in DOMAIN e.canonicalNamesToValue \ {n} : NormalizeName(m) = n
  <2>1. CASE n \notin DOMAIN e.nameToValue
    <3>1. Value(e, n) = e.canonicalNamesToValue[n]
      BY <2>1, ZenonT(60) DEF Value
    <3> QED
      BY <3>1, ZenonT(60) DEF Knows
  <2>2. CASE n \in DOMAIN e.nameToValue
    <3>1. PICK m \in DOMAIN e.canonicalNamesToValue : NormalizeName(m) = n
      BY <2>2, ZenonT(60) DEF IsTable
    <3>2. CASE m = n
      BY <1>3, <3>1, <3>2, ZenonT(60)
    <3> QED
      BY <3>1, <3>2, ZenonT(60)
  <2> QED
    BY <2>1, <2>2, ZenonT(60)
<1> QED
  BY <1>1, <1>2, <1>3, <1>4, ZenonT(60) DEF Known

\* The Enum of a table that compiles knows all its values.
LEMMA EnumIs ==
  ASSUME NEW vals, NEW mask, OneToOne(vals), NEW e, e = Enum(vals, mask)
  PROVE  IsTable(e) /\ e.bitMask = mask /\ \A n \in DOMAIN vals : Knows(e, vals[n], n)
<1> DEFINE values == {vals[n] : n \in DOMAIN vals}
           short == {NormalizeName(n) : n \in DOMAIN vals}
           name(v) == CHOOSE n \in DOMAIN vals : vals[n] = v
           full(t) == CHOOSE n \in DOMAIN vals : NormalizeName(n) = t
           a == [v \in values |-> NormalizeName(name(v))]
           b == [t \in short |-> vals[full(t)]]
           c == [v \in values |-> name(v)]
<1>1. e = [valuesToName |-> a, nameToValue |-> b, valuesToCanonicalName |-> c, canonicalNamesToValue |-> vals,
           bitMask |-> mask]
  BY ZenonT(60) DEF Enum
<1>2. ASSUME NEW n \in DOMAIN vals PROVE name(vals[n]) = n /\ full(NormalizeName(n)) = n
  <2>1. name(vals[n]) \in DOMAIN vals /\ vals[name(vals[n])] = vals[n]
    BY ZenonT(60)
  <2>2. full(NormalizeName(n)) \in DOMAIN vals /\ NormalizeName(full(NormalizeName(n))) = NormalizeName(n)
    BY ZenonT(60)
  <2> HIDE DEF name, full
  <2> QED
    BY <2>1, <2>2, ZenonT(60) DEF OneToOne
<1> HIDE DEF name, full
<1>3. ASSUME NEW n \in DOMAIN vals
      PROVE  /\ vals[n] \in DOMAIN a /\ a[vals[n]] = NormalizeName(n)
             /\ NormalizeName(n) \in DOMAIN b /\ b[NormalizeName(n)] = vals[n]
  BY <1>2, ZenonT(60)
<1>4. DOMAIN b = {NormalizeName(n) : n \in DOMAIN vals}
  BY ZenonT(60)
<1> HIDE DEF a, b, c
<1>5. /\ e.valuesToName = a /\ e.nameToValue = b /\ e.valuesToCanonicalName = c /\ e.canonicalNamesToValue = vals
      /\ e.bitMask = mask
  BY <1>1, SMTT(60)
<1>6. IsTable(e)
  BY <1>1, <1>4, <1>5, ZenonT(60) DEF IsTable
<1>7. \A n \in DOMAIN vals : Knows(e, vals[n], n)
  BY <1>3, <1>5, ZenonT(60) DEF Knows
<1> QED
  BY <1>5, <1>6, <1>7, ZenonT(60)

\* EnumForTag of a tag with an enum of its own, and of one without.
LEMMA EnumForTagIs ==
  ASSUME NEW r, NEW t
  PROVE  /\ t \notin DOMAIN r.enums => EnumForTag(r, t) = NewEnum(FALSE)
         /\ \A e : t \in DOMAIN r.enums /\ r.enums[t] = Own(e) => EnumForTag(r, t) = e
<1>1. \A e : Own(e).of = "own" /\ Own(e).enum = e
  BY SMTT(60) DEF Own
<1>2. ASSUME NEW e, t \in DOMAIN r.enums, r.enums[t] = Own(e) PROVE EnumForTag(r, t) = e
  <2>1. r.enums[t].of = "own" /\ r.enums[t].enum = e
    BY <1>1, <1>2, ZenonT(60)
  <2>2. r.enums[t].of # "tags" /\ r.enums[t].of # "types"
    BY <2>1, ZenonT(60)
  <2> QED
    BY <1>2, <2>1, <2>2, ZenonT(60) DEF EnumForTag
<1> QED
  BY <1>2, ZenonT(60) DEF EnumForTag

----------------------------------------------------------------------------
(***************************************************************************)
(* The start of a program.                                                 *)
(***************************************************************************)

\* The packages, and the canonical names that are registered.
Packages == {"kmip14", "kmip20", "custom"}
Canonical == DOMAIN reg.tags.canonicalNamesToValue

\* The code c has the tags and the enums of the specification s.
Built(c, s) ==
  /\ c.tags \in Parsed(s.tags)
  /\ DOMAIN c.enums = DOMAIN s.enums
  /\ \A i \in DOMAIN s.enums :
       /\ c.enums[i].vals \in Parsed(s.enums[i].values) /\ c.enums[i].mask = s.enums[i].mask
       /\ DOMAIN c.enums[i].tags = DOMAIN s.enums[i].tags
       /\ \A k \in DOMAIN s.enums[i].tags : c.enums[i].tags[k] = NormalizeName(s.enums[i].tags[k])

\* The file is what kmipgen made of the specification, and a program that was
\* started compiled with it.
FileIsBuilt ==
  /\ file.text = "code" => Built(file.code, spec)
  /\ pc \in Packages \cup {"used", "panic"} => Compiles(file)

\* A package is through with the tags that are not left.
PackageProgress ==
  /\ pc \in Packages => /\ tagsLeft \subseteq DOMAIN CodeOf(pc).tags /\ enumsLeft \subseteq EnumTags(CodeOf(pc))
                        /\ DOMAIN CodeOf(pc).tags \ tagsLeft \subseteq Canonical
  /\ pc \notin Packages => tagsLeft = {} /\ enumsLeft = {}

\* What earlier packages registered is still there.
EarlierPackages ==
  /\ pc \in {"kmip20", "custom", "used"} => FullName[shared] \in Canonical /\ FullName["ExtensionType"] \in Canonical
  /\ pc \in {"custom", "used"} => FullName["AttributeReference"] \in Canonical

\* The definitions of the file that are registered are known.
CustomKnown ==
  pc \in {"custom", "used"} =>
    \A n \in DOMAIN file.code.tags \ tagsLeft : Knows(reg.tags, file.code.tags[n], n)

\* The inductive invariant.
DInv ==
  /\ IsRegistry(reg) /\ FileIsBuilt /\ PackageProgress /\ EarlierPackages
  /\ CustomKnown /\ PanicsForUnknownTag

\* The code of a package.
LEMMA CodeOfIs ==
  /\ CodeOf("kmip14") = Generated({shared, "ExtensionType"}, shared, Table14)
  /\ CodeOf("kmip20") = Generated({"AttributeReference"}, shared, Table20)
  /\ CodeOf("custom") = file.code
BY SMTT(60) DEF CodeOf

\* The code of kmip14 and kmip20 has the tags it was given, and its enum is for
\* the tag it was given.
LEMMA GeneratedIs ==
  ASSUME NEW tags, NEW t, NEW table, NEW g, g = Generated(tags, t, table)
  PROVE  /\ DOMAIN g.tags = {FullName[m] : m \in tags}
         /\ \A l \in EnumTags(g) : EnumTag(g, l) = NormalizeName(FullName[t]) /\ g.enums[l[1]].vals = table[t]
<1> DEFINE x == NormalizeName(FullName[t])
           T == [n \in {FullName[m] : m \in tags} |-> TagOf[CHOOSE m \in tags : FullName[m] = n]]
           E == <<[type |-> x, vals |-> table[t], mask |-> FALSE, tags |-> <<x>>]>>
<1>1. DOMAIN T = {FullName[m] : m \in tags} /\ g = [tags |-> T, enums |-> E]
  BY ZenonT(60) DEF Generated
<1> HIDE DEF x, T, E
<1>2. g.tags = T /\ g.enums = E
  BY <1>1, SMTT(60)
<1>3. DOMAIN g.enums = {1} /\ g.enums[1].tags = <<x>> /\ g.enums[1].vals = table[t]
  BY <1>2, SMTT(60) DEF E
<1>4. DOMAIN g.enums[1].tags = {1} /\ g.enums[1].tags[1] = x
  BY <1>3, SMTT(60)
<1>5. ASSUME NEW l \in EnumTags(g) PROVE EnumTag(g, l) = x /\ g.enums[l[1]].vals = table[t]
  <2>1. PICK i \in DOMAIN g.enums : \E k \in DOMAIN g.enums[i].tags : l = <<i, k>>
    BY <1>5, ZenonT(60) DEF EnumTags
  <2>2. i = 1
    BY <1>3, ZenonT(60)
  <2>3. PICK k \in DOMAIN g.enums[i].tags : l = <<i, k>>
    BY <2>1, ZenonT(60)
  <2>4. k = 1
    BY <1>4, <2>2, ZenonT(60)
  <2>5. l[1] = 1 /\ l[2] = 1
    BY <2>2, <2>3, <2>4, SMTT(60)
  <2> QED
    BY <1>3, <1>4, <2>5, ZenonT(60) DEF EnumTag
<1> QED
  BY <1>1, <1>2, <1>5, ZenonT(60) DEF x

\* The tables of the two packages.
TableOf(p) == IF p = "kmip14" THEN Table14 ELSE Table20

\* The enums of kmip14 and kmip20 are for the tag that both have.
LEMMA PackageEnums ==
  \A p \in {"kmip14", "kmip20"} : \A l \in EnumTags(CodeOf(p)) :
    EnumTag(CodeOf(p), l) = NormalizeName(FullName[shared]) /\ CodeOf(p).enums[l[1]].vals = TableOf(p)[shared]
<1>1. ASSUME NEW tags, NEW t, NEW table, NEW g, g = Generated(tags, t, table), NEW l \in EnumTags(g)
      PROVE  EnumTag(g, l) = NormalizeName(FullName[t]) /\ g.enums[l[1]].vals = table[t]
  BY <1>1, GeneratedIs, SMTT(60)
<1>2. PICK t : t = shared
  BY ZenonT(60)
<1>3. PICK S, T : S = {shared, "ExtensionType"} /\ T = {"AttributeReference"}
  BY ZenonT(60)
<1>4. PICK g, h : g = CodeOf("kmip14") /\ h = CodeOf("kmip20")
  BY ZenonT(60)
<1>5. g = Generated(S, t, Table14) /\ h = Generated(T, t, Table20)
  BY <1>2, <1>3, <1>4, CodeOfIs, ZenonT(60)
<1>6. /\ \A l \in EnumTags(g) : EnumTag(g, l) = NormalizeName(FullName[t]) /\ g.enums[l[1]].vals = Table14[t]
      /\ \A l \in EnumTags(h) : EnumTag(h, l) = NormalizeName(FullName[t]) /\ h.enums[l[1]].vals = Table20[t]
  BY <1>1, <1>5, SMTT(60)
<1>7. TableOf("kmip14") = Table14 /\ TableOf("kmip20") = Table20
  BY ZenonT(60) DEF TableOf
<1> QED
  BY <1>2, <1>4, <1>6, <1>7, ZenonT(60)

\* What kmipgen leaves is a file with code or without.
LEMMA FileTexts ==
  /\ Old.text # "code" /\ Empty.text # "code" /\ Part.text # "code"
  /\ \A c : Code(c).code = c
BY SMTT(60) DEF Old, Empty, Part, Code

\* kmipgen writes the tags and the enums it has parsed.
LEMMA SourceIs ==
  ASSUME NEW s, NEW tags \in Parsed(s.tags), NEW vals \in AllParsed(s.enums)
  PROVE  Built(Source(s, tags, vals), s)
<1> DEFINE T(i) == [k \in DOMAIN s.enums[i].tags |-> NormalizeName(s.enums[i].tags[k])]
           R(i) == [type |-> NormalizeName(s.enums[i].name), vals |-> vals[i], mask |-> s.enums[i].mask, tags |-> T(i)]
           E == [i \in DOMAIN s.enums |-> R(i)]
<1>1. PICK c : c = Source(s, tags, vals)
  BY ZenonT(60)
<1>2. c = [tags |-> tags, enums |-> E]
  BY <1>1, ZenonT(60) DEF Source
<1>3. \A i : DOMAIN T(i) = DOMAIN s.enums[i].tags /\ \A k \in DOMAIN s.enums[i].tags : T(i)[k] = NormalizeName(s.enums[i].tags[k])
  BY ZenonT(60)
<1> HIDE DEF T
<1>4. \A i : R(i).vals = vals[i] /\ R(i).mask = s.enums[i].mask /\ R(i).tags = T(i)
  BY SMTT(60)
<1> HIDE DEF R
<1>5. DOMAIN E = DOMAIN s.enums /\ \A i \in DOMAIN s.enums : E[i] = R(i)
  BY ZenonT(60)
<1> HIDE DEF E
<1>6. c.tags = tags /\ c.enums = E
  BY <1>2, SMTT(60)
<1>7. \A i \in DOMAIN s.enums : vals[i] \in Parsed(s.enums[i].values)
  BY ZenonT(60) DEF AllParsed
<1>8. Built(c, s)
  BY <1>3, <1>4, <1>5, <1>6, <1>7, ZenonT(60) DEF Built
<1> QED
  BY <1>1, <1>8, ZenonT(60)

\* The code has its enums for the tags of the specification.
LEMMA BuiltTags ==
  ASSUME NEW c, NEW s, Built(c, s)
  PROVE  /\ EnumTags(c) = EnumTags(s)
         /\ \A l \in EnumTags(s) : l[1] \in DOMAIN s.enums /\ EnumTag(c, l) = NormalizeName(EnumTag(s, l))
<1>1. EnumTags(c) = EnumTags(s)
  <2>1. ASSUME NEW l PROVE l \in EnumTags(c) <=> l \in EnumTags(s)
    <3>1. \A d : l \in EnumTags(d) <=> \E i \in DOMAIN d.enums : \E k \in DOMAIN d.enums[i].tags : l = <<i, k>>
      <4> TAKE d
      <4> DEFINE F(i) == {<<i, k>> : k \in DOMAIN d.enums[i].tags}
      <4>1. l \in EnumTags(d) <=> \E i \in DOMAIN d.enums : l \in F(i)
        BY SMTT(60) DEF EnumTags
      <4> QED
        BY <4>1, ZenonT(60)
    <3>2. DOMAIN c.enums = DOMAIN s.enums /\ \A i \in DOMAIN s.enums : DOMAIN c.enums[i].tags = DOMAIN s.enums[i].tags
      BY ZenonT(60) DEF Built
    <3> QED
      BY <3>1, <3>2, ZenonT(60)
  <2> QED
    BY <2>1, ZenonT(60)
<1>2. ASSUME NEW l \in EnumTags(s) PROVE l[1] \in DOMAIN s.enums /\ EnumTag(c, l) = NormalizeName(EnumTag(s, l))
  <2>1. PICK i \in DOMAIN s.enums : \E k \in DOMAIN s.enums[i].tags : l = <<i, k>>
    BY <1>2, ZenonT(60) DEF EnumTags
  <2>2. PICK k \in DOMAIN s.enums[i].tags : l = <<i, k>>
    BY <2>1, ZenonT(60)
  <2>3. l[1] = i /\ l[2] = k
    BY <2>2, SMTT(60)
  <2>4. c.enums[i].tags[k] = NormalizeName(s.enums[i].tags[k])
    BY ZenonT(60) DEF Built
  <2> QED
    BY <2>3, <2>4, ZenonT(60) DEF EnumTag
<1> QED
  BY <1>1, <1>2, ZenonT(60)

\* Before a program runs.
LEMMA DInvInit == Init => DInv
<1> SUFFICES ASSUME Init PROVE DInv
  OBVIOUS
<1>1. file.text # "code" /\ pc = "kmipgen" /\ tagsLeft = {} /\ enumsLeft = {} /\ IsRegistry(reg)
  BY FileTexts, EmptyRegistryIs, ZenonT(60) DEF Init
<1>2. pc \notin Packages \cup {"used", "panic"} /\ pc \notin Packages
  BY <1>1, ZenonT(60) DEF Packages
<1>3. FileIsBuilt /\ PackageProgress /\ CustomKnown
  BY <1>1, <1>2, ZenonT(60) DEF FileIsBuilt, PackageProgress, CustomKnown
<1>4. EarlierPackages /\ PanicsForUnknownTag
  BY <1>1, ZenonT(60) DEF EarlierPackages, PanicsForUnknownTag
<1> QED
  BY <1>1, <1>3, <1>4, ZenonT(60) DEF DInv

\* The steps of kmipgen.
LEMMA DInvKmipgen == DInv /\ (ReadSpec \/ Generate) => DInv'
<1> SUFFICES ASSUME DInv, ReadSpec \/ Generate PROVE DInv'
  OBVIOUS
<1>1. /\ UNCHANGED <<spec, reg, tagsLeft, enumsLeft>>
      /\ pc \notin Packages /\ pc' \notin Packages \cup {"used", "panic"}
  <2>1. pc \in {"kmipgen", "generate"} /\ pc' \in {"exit0", "exit1", "exit2", "generate"}
    BY DEF ReadSpec, Generate
  <2> QED
    BY <2>1 DEF ReadSpec, Generate, Packages
<1>2. IsRegistry(reg')
  BY <1>1, ZenonT(60) DEF DInv
<1>3. (file.text = "code" => Built(file.code, spec))'
  <2>1. CASE ReadSpec
    <3>1. file' = file \/ file' = Empty
      BY <2>1, ZenonT(60) DEF ReadSpec
    <3> QED
      BY <1>1, <3>1, FileTexts, ZenonT(60) DEF DInv, FileIsBuilt
  <2>2. CASE Generate
    <3>1. file' = file \/ file' = Part \/ \E tags \in Parsed(spec.tags), vals \in AllParsed(spec.enums) :
                                              file' = Code(Source(spec, tags, vals))
      BY <2>2, ZenonT(60) DEF Generate
    <3>2. ASSUME NEW tags \in Parsed(spec.tags), NEW vals \in AllParsed(spec.enums), file' = Code(Source(spec, tags, vals))
          PROVE  Built(file'.code, spec)
      <4>1. file'.code = Source(spec, tags, vals)
        BY <3>2, FileTexts, ZenonT(60)
      <4>2. Built(Source(spec, tags, vals), spec)
        BY SourceIs, ZenonT(60)
      <4> QED
        BY <4>1, <4>2, ZenonT(60)
    <3> QED
      BY <1>1, <3>1, <3>2, FileTexts, ZenonT(60) DEF DInv, FileIsBuilt
  <2> QED
    BY <2>1, <2>2, ZenonT(60)
<1>4. FileIsBuilt'
  BY <1>1, <1>3, ZenonT(60) DEF FileIsBuilt
<1>5. PackageProgress'
  BY <1>1, ZenonT(60) DEF DInv, PackageProgress
<1>6. CustomKnown' /\ EarlierPackages' /\ PanicsForUnknownTag'
  BY <1>1, ZenonT(60) DEF CustomKnown, EarlierPackages, PanicsForUnknownTag, Packages
<1> QED
  BY <1>2, <1>4, <1>5, <1>6, ZenonT(60) DEF DInv

\* A program starts with an empty registry, and kmip14.
LEMMA DInvStart == DInv /\ Start => DInv'
<1> SUFFICES ASSUME DInv, Start PROVE DInv'
  OBVIOUS
<1>1. /\ pc' = "kmip14" /\ UNCHANGED <<spec, shared, file>> /\ Compiles(file)
      /\ tagsLeft' = DOMAIN CodeOf("kmip14").tags /\ enumsLeft' = EnumTags(CodeOf("kmip14"))
      /\ reg' = RegisterType(EmptyRegistry, TypeInteger, <<"A", "a">>)
  BY ZenonT(60) DEF Start, Enter
<1>2. CodeOf("kmip14")' = CodeOf("kmip14")
  BY <1>1, SMTT(60) DEF CodeOf
<1>3. IsRegistry(reg')
  BY <1>1, EmptyRegistryIs, RegisterIs, ZenonT(60)
<1>4. FileIsBuilt'
  <2>1. Compiles(file')
    BY <1>1, ZenonT(60)
  <2> QED
    BY <1>1, <2>1, ZenonT(60) DEF DInv, FileIsBuilt
<1>5. PackageProgress'
  <2>1. CodeOf(pc)' = CodeOf("kmip14")
    BY <1>1, <1>2, ZenonT(60)
  <2> QED
    BY <1>1, <2>1, ZenonT(60) DEF PackageProgress, Packages
<1>6. EarlierPackages' /\ CustomKnown' /\ PanicsForUnknownTag'
  BY <1>1, ZenonT(60) DEF EarlierPackages, CustomKnown, PanicsForUnknownTag
<1> QED
  BY <1>3, <1>4, <1>5, <1>6, ZenonT(60) DEF DInv

\* kmip20 is registered when kmip14 is through.
LEMMA DInvRegister20 == DInv /\ Register20 => DInv'
<1> SUFFICES ASSUME DInv, Register20 PROVE DInv'
  OBVIOUS
<1>1. /\ pc = "kmip14" /\ tagsLeft = {} /\ pc' = "kmip20" /\ UNCHANGED <<spec, shared, file>>
      /\ tagsLeft' = DOMAIN CodeOf("kmip20").tags /\ enumsLeft' = EnumTags(CodeOf("kmip20"))
      /\ reg' = RegisterEnum(RegisterEnum(reg, TagOf["AttributeReference"], AllTags(reg)), TagOf["ExtensionType"], TypesRef)
  BY ZenonT(60) DEF Register20, Leaves, Enter
<1>2. CodeOf("kmip20")' = CodeOf("kmip20")
  BY <1>1, SMTT(60) DEF CodeOf
<1>3. IsRegistry(reg') /\ reg'.tags = reg.tags
  <2> DEFINE r == RegisterEnum(reg, TagOf["AttributeReference"], AllTags(reg))
  <2>1. IsRegistry(r) /\ r.tags = reg.tags
    BY RegisterIs, SMTT(60) DEF DInv
  <2>2. reg' = RegisterEnum(r, TagOf["ExtensionType"], TypesRef)
    BY <1>1, ZenonT(60)
  <2> HIDE DEF r
  <2>3. IsRegistry(RegisterEnum(r, TagOf["ExtensionType"], TypesRef))
        /\ RegisterEnum(r, TagOf["ExtensionType"], TypesRef).tags = r.tags
    BY <2>1, RegisterIs, SMTT(60)
  <2> QED
    BY <2>1, <2>2, <2>3, ZenonT(60)
<1>4. FileIsBuilt'
  <2>1. Compiles(file)
    BY <1>1, ZenonT(60) DEF DInv, FileIsBuilt, Packages
  <2>2. Compiles(file')
    BY <1>1, <2>1, ZenonT(60)
  <2> QED
    BY <1>1, <2>2, ZenonT(60) DEF DInv, FileIsBuilt
<1>5. PackageProgress'
  <2>1. CodeOf(pc)' = CodeOf("kmip20")
    BY <1>1, <1>2, ZenonT(60)
  <2> QED
    BY <1>1, <2>1, ZenonT(60) DEF PackageProgress, Packages
<1>6. EarlierPackages'
  <2>1. DOMAIN CodeOf("kmip14").tags \subseteq Canonical
    BY <1>1 DEF DInv, PackageProgress, Packages
  <2>2. DOMAIN CodeOf("kmip14").tags = {FullName[m] : m \in {shared, "ExtensionType"}}
    BY CodeOfIs, GeneratedIs, SMTT(60)
  <2>3. FullName[shared] \in Canonical /\ FullName["ExtensionType"] \in Canonical
    BY <2>1, <2>2, ZenonT(60)
  <2>4. Canonical' = Canonical /\ shared' = shared
    BY <1>1, <1>3, ZenonT(60) DEF Canonical
  <2>5. FullName[shared'] \in Canonical' /\ FullName["ExtensionType"] \in Canonical'
    BY <2>3, <2>4, ZenonT(60)
  <2> QED
    BY <1>1, <2>5, ZenonT(60) DEF EarlierPackages
<1>7. CustomKnown' /\ PanicsForUnknownTag'
  BY <1>1, ZenonT(60) DEF CustomKnown, PanicsForUnknownTag
<1> QED
  BY <1>3, <1>4, <1>5, <1>6, <1>7, ZenonT(60) DEF DInv

\* The generated package comes last.
LEMMA DInvRegisterCustom == DInv /\ RegisterCustom => DInv'
<1> SUFFICES ASSUME DInv, RegisterCustom PROVE DInv'
  OBVIOUS
<1>1. /\ pc = "kmip20" /\ tagsLeft = {} /\ pc' = "custom" /\ UNCHANGED <<spec, shared, file, reg>>
      /\ tagsLeft' = DOMAIN CodeOf("custom").tags /\ enumsLeft' = EnumTags(CodeOf("custom"))
  BY ZenonT(60) DEF RegisterCustom, Leaves, Enter
<1>2. CodeOf("custom")' = CodeOf("custom") /\ CodeOf("custom") = file.code
  BY <1>1, SMTT(60) DEF CodeOf
<1>3. IsRegistry(reg')
  BY <1>1, ZenonT(60) DEF DInv
<1>4. FileIsBuilt'
  <2>1. Compiles(file)
    BY <1>1, ZenonT(60) DEF DInv, FileIsBuilt, Packages
  <2>2. Compiles(file')
    BY <1>1, <2>1, ZenonT(60)
  <2> QED
    BY <1>1, <2>2, ZenonT(60) DEF DInv, FileIsBuilt
<1>5. PackageProgress'
  <2>1. CodeOf(pc)' = CodeOf("custom")
    BY <1>1, <1>2, ZenonT(60)
  <2> QED
    BY <1>1, <2>1, ZenonT(60) DEF PackageProgress, Packages
<1>6. EarlierPackages'
  <2>1. DOMAIN CodeOf("kmip20").tags \subseteq Canonical
    BY <1>1 DEF DInv, PackageProgress, Packages
  <2>2. DOMAIN CodeOf("kmip20").tags = {FullName[m] : m \in {"AttributeReference"}}
    BY CodeOfIs, GeneratedIs, SMTT(60)
  <2>3. /\ FullName["AttributeReference"] \in Canonical
        /\ FullName[shared] \in Canonical /\ FullName["ExtensionType"] \in Canonical
    BY <1>1, <2>1, <2>2, ZenonT(60) DEF DInv, EarlierPackages
  <2>4. Canonical' = Canonical /\ shared' = shared
    BY <1>1, ZenonT(60) DEF Canonical
  <2>5. /\ FullName["AttributeReference"] \in Canonical'
        /\ FullName[shared'] \in Canonical' /\ FullName["ExtensionType"] \in Canonical'
    BY <2>3, <2>4, ZenonT(60)
  <2> QED
    BY <2>5, ZenonT(60) DEF EarlierPackages
<1>7. CustomKnown'
  <2>1. DOMAIN file'.code.tags \ tagsLeft' = {}
    BY <1>1, <1>2
  <2> QED
    BY <2>1, ZenonT(60) DEF CustomKnown
<1>8. PanicsForUnknownTag'
  BY <1>1, ZenonT(60) DEF PanicsForUnknownTag
<1> QED
  BY <1>3, <1>4, <1>5, <1>6, <1>7, <1>8, ZenonT(60) DEF DInv

\* What a package has registered stays when another name is.
LEMMA DInvRegisterOneTag == DInv /\ RegisterOneTag => DInv'
<1> SUFFICES ASSUME DInv, RegisterOneTag PROVE DInv'
  OBVIOUS
<1> DEFINE c == CodeOf(pc)
<1>1. PICK n \in tagsLeft : reg' = RegisterTag(reg, c.tags[n], n) /\ tagsLeft' = tagsLeft \ {n}
  BY ZenonT(60) DEF RegisterOneTag
<1>2. UNCHANGED <<spec, shared, file, pc, enumsLeft>>
  BY ZenonT(60) DEF RegisterOneTag
<1>3. pc \in Packages
  BY <1>1, ZenonT(60) DEF DInv, PackageProgress
<1>4. c' = c
  BY <1>2, ZenonT(60) DEF CodeOf
<1>5. IsRegistry(reg')
      /\ Knows(reg'.tags, c.tags[n], n)
      /\ Canonical' = Canonical \cup {n}
      /\ \A w, m : Knows(reg.tags, w, m) /\ w # c.tags[n] /\ NormalizeName(m) # NormalizeName(n) => Knows(reg'.tags, w, m)
  <2> HIDE DEF c
  <2>1. IsRegistry(reg) /\ IsTable(reg.tags)
    BY ZenonT(60) DEF DInv, IsRegistry
  <2>2. PICK v : v = c.tags[n]
    BY ZenonT(60)
  <2>3. PICK r : r = RegisterTag(reg, v, n)
    BY ZenonT(60)
  <2>4. IsRegistry(r) /\ r.tags = RegisterValue(reg.tags, v, n)
    BY <2>1, <2>3, RegisterTagIs, SMTT(60)
  <2>5. PICK f : f = RegisterValue(reg.tags, v, n)
    BY ZenonT(60)
  <2>6. /\ Knows(f, v, n)
        /\ DOMAIN f.canonicalNamesToValue = DOMAIN reg.tags.canonicalNamesToValue \cup {n}
        /\ \A w, m : Knows(reg.tags, w, m) /\ w # v /\ NormalizeName(m) # NormalizeName(n) => Knows(f, w, m)
    BY <2>1, <2>5, RegisterValueIs, ZenonT(60)
  <2>7. reg' = r /\ reg'.tags = f
    BY <1>1, <2>2, <2>3, <2>4, <2>5, ZenonT(60)
  <2> QED
    BY <2>2, <2>4, <2>6, <2>7, ZenonT(60) DEF Canonical
<1> HIDE DEF c
<1>6. FileIsBuilt'
  <2>1. Compiles(file)
    BY <1>3, ZenonT(60) DEF DInv, FileIsBuilt
  <2>2. Compiles(file')
    BY <1>2, <2>1, ZenonT(60)
  <2> QED
    BY <1>2, <2>2, ZenonT(60) DEF DInv, FileIsBuilt
<1>7. PackageProgress'
  <2>1. tagsLeft \subseteq DOMAIN c.tags /\ enumsLeft \subseteq EnumTags(c) /\ DOMAIN c.tags \ tagsLeft \subseteq Canonical
    BY <1>3, ZenonT(60) DEF DInv, PackageProgress, c
  <2>2. tagsLeft' \subseteq DOMAIN c.tags /\ enumsLeft' \subseteq EnumTags(c) /\ DOMAIN c.tags \ tagsLeft' \subseteq Canonical'
    BY <1>1, <1>2, <1>5, <2>1, ZenonT(60)
  <2>3. tagsLeft' \subseteq DOMAIN c'.tags /\ enumsLeft' \subseteq EnumTags(c') /\ DOMAIN c'.tags \ tagsLeft' \subseteq Canonical'
    BY <1>4, <2>2, ZenonT(60)
  <2>4. pc' \in Packages
    BY <1>2, <1>3, ZenonT(60)
  <2> QED
    BY <2>3, <2>4, ZenonT(60) DEF PackageProgress, c
<1>8. EarlierPackages'
  <2>1. Canonical \subseteq Canonical' /\ pc' = pc /\ shared' = shared
    BY <1>2, <1>5, ZenonT(60)
  <2>2. EarlierPackages
    BY ZenonT(60) DEF DInv
  <2>3. FullName[shared] \in Canonical => FullName[shared'] \in Canonical'
    BY <2>1, ZenonT(60)
  <2>4. FullName["ExtensionType"] \in Canonical => FullName["ExtensionType"] \in Canonical'
    BY <2>1, ZenonT(60)
  <2>5. FullName["AttributeReference"] \in Canonical => FullName["AttributeReference"] \in Canonical'
    BY <2>1, ZenonT(60)
  <2> QED
    BY <2>1, <2>2, <2>3, <2>4, <2>5, ZenonT(60) DEF EarlierPackages
<1>9. CustomKnown'
  <2> SUFFICES ASSUME pc' \in {"custom", "used"}, NEW m \in (DOMAIN file.code.tags \ tagsLeft)'
               PROVE  Knows(reg'.tags, file'.code.tags[m], m)
    BY ZenonT(60) DEF CustomKnown
  <2>1. pc = "custom" /\ c = file.code
    <3>1. pc = "custom"
      BY <1>2, <1>3 DEF Packages
    <3> QED
      BY <3>1, CodeOfIs, ZenonT(60) DEF c
  <2>2. m \in DOMAIN c.tags /\ (m \notin tagsLeft \/ m = n) /\ file'.code.tags[m] = c.tags[m]
    BY <1>1, <1>2, <2>1, ZenonT(60)
  <2>3. CASE m = n
    BY <1>5, <2>2, <2>3, ZenonT(60)
  <2>4. CASE m # n
    <3>1. n \in DOMAIN c.tags
      BY <1>3, ZenonT(60) DEF DInv, PackageProgress, c
    <3>2. OneToOne(c.tags)
      BY <1>3, <2>1, ZenonT(60) DEF DInv, FileIsBuilt, Compiles
    <3>3. c.tags[m] # c.tags[n] /\ NormalizeName(m) # NormalizeName(n)
      BY <2>2, <2>4, <3>1, <3>2, ZenonT(60) DEF OneToOne
    <3>4. Knows(reg.tags, c.tags[m], m)
      BY <2>1, <2>2, <2>4, ZenonT(60) DEF DInv, CustomKnown
    <3>5. Knows(reg'.tags, c.tags[m], m)
      BY <1>5, <3>3, <3>4, ZenonT(60)
    <3> QED
      BY <2>2, <3>5, ZenonT(60)
  <2> QED
    BY <2>3, <2>4, ZenonT(60)
<1>10. PanicsForUnknownTag'
  BY <1>2, <1>3, ZenonT(60) DEF PanicsForUnknownTag, Packages
<1> QED
  BY <1>5, <1>6, <1>7, <1>8, <1>9, <1>10, ZenonT(60) DEF DInv

\* The steps that leave the file and the names of the tags alone.
LEMMA DInvSame ==
  ASSUME DInv, UNCHANGED <<spec, shared, file, tagsLeft>>, IsRegistry(reg'), reg'.tags = reg.tags,
         enumsLeft' \subseteq enumsLeft,
         pc' = pc \/ (pc = "custom" /\ pc' = "used" /\ tagsLeft = {} /\ enumsLeft = {})
  PROVE  DInv'
<1>1. Canonical' = Canonical
  BY ZenonT(60) DEF Canonical
<1>2. FileIsBuilt'
  <2>1. pc' \in Packages \cup {"used", "panic"} => pc \in Packages \cup {"used", "panic"}
    BY DEF Packages
  <2>2. Compiles(file) => Compiles(file')
    BY ZenonT(60)
  <2> QED
    BY <2>1, <2>2, ZenonT(60) DEF DInv, FileIsBuilt
<1>3. PackageProgress'
  <2>1. CASE pc' = pc
    <3> DEFINE c == CodeOf(pc)
    <3>1. c' = c
      BY <2>1, ZenonT(60) DEF CodeOf
    <3>2. PackageProgress
      BY ZenonT(60) DEF DInv
    <3>3. pc \in Packages => /\ tagsLeft \subseteq DOMAIN c.tags /\ enumsLeft \subseteq EnumTags(c)
                             /\ DOMAIN c.tags \ tagsLeft \subseteq Canonical
      BY <3>2, ZenonT(60) DEF PackageProgress
    <3> HIDE DEF c
    <3>4. pc' \in Packages => /\ tagsLeft' \subseteq DOMAIN c'.tags /\ enumsLeft' \subseteq EnumTags(c')
                              /\ DOMAIN c'.tags \ tagsLeft' \subseteq Canonical'
      BY <1>1, <2>1, <3>1, <3>3, ZenonT(60)
    <3>5. pc' \notin Packages => tagsLeft' = {} /\ enumsLeft' = {}
      <4>1. pc \notin Packages => tagsLeft = {} /\ enumsLeft = {}
        BY <3>2, ZenonT(60) DEF PackageProgress
      <4> QED
        BY <2>1, <4>1
    <3> QED
      BY <3>4, <3>5, ZenonT(60) DEF PackageProgress, c
  <2>2. CASE pc' = "used" /\ tagsLeft = {} /\ enumsLeft = {}
    BY <2>2 DEF PackageProgress, Packages
  <2> QED
    BY <2>1, <2>2, ZenonT(60)
<1>4. EarlierPackages'
  <2>1. /\ pc' \in {"kmip20", "custom", "used"} => pc \in {"kmip20", "custom", "used"}
        /\ pc' \in {"custom", "used"} => pc \in {"custom", "used"}
    BY ZenonT(60)
  <2>2. EarlierPackages
    BY ZenonT(60) DEF DInv
  <2>3. FullName[shared] \in Canonical => FullName[shared'] \in Canonical'
    BY <1>1, ZenonT(60)
  <2>4. FullName["ExtensionType"] \in Canonical => FullName["ExtensionType"] \in Canonical'
    BY <1>1, ZenonT(60)
  <2>5. FullName["AttributeReference"] \in Canonical => FullName["AttributeReference"] \in Canonical'
    BY <1>1, ZenonT(60)
  <2> QED
    BY <2>1, <2>2, <2>3, <2>4, <2>5, ZenonT(60) DEF EarlierPackages
<1>5. CustomKnown'
  <2>1. pc' \in {"custom", "used"} => pc \in {"custom", "used"}
    BY ZenonT(60)
  <2> QED
    BY <2>1, ZenonT(60) DEF DInv, CustomKnown
<1>6. PanicsForUnknownTag'
  <2>1. pc' = "panic" => pc = "panic"
    BY ZenonT(60)
  <2> QED
    BY <2>1, ZenonT(60) DEF DInv, PanicsForUnknownTag
<1> QED
  BY <1>2, <1>3, <1>4, <1>5, <1>6, ZenonT(60) DEF DInv

\* The tag of an enum of kmip14 and kmip20 is registered, and a tag of the
\* generated package that is not found is one that nobody has defined.
LEMMA DInvRegisterOneEnum == DInv /\ RegisterOneEnum => DInv'
<1> SUFFICES ASSUME DInv, RegisterOneEnum PROVE DInv'
  OBVIOUS
<1> DEFINE c == CodeOf(pc)
           Tag(l) == ParseTag(NamePart(c.enums[l[1]].tags[l[2]]), reg.tags)
<1>1. PICK l \in enumsLeft :
        \/ /\ \E t, x : reg' = RegisterEnum(reg, t, x)
           /\ enumsLeft' = enumsLeft \ {l} /\ UNCHANGED <<pc, tagsLeft>>
        \/ Tag(l).res # "ok" /\ pc' = "panic" /\ tagsLeft' = {} /\ enumsLeft' = {} /\ UNCHANGED reg
  BY ZenonT(60) DEF RegisterOneEnum
<1>2. UNCHANGED <<spec, shared, file>> /\ tagsLeft = {}
  BY ZenonT(60) DEF RegisterOneEnum, TagsFirst
<1>3. IsRegistry(reg) /\ IsTable(reg.tags)
  BY ZenonT(60) DEF DInv, IsRegistry
<1> HIDE DEF c
<1>4. CASE /\ \E t, x : reg' = RegisterEnum(reg, t, x)
           /\ enumsLeft' = enumsLeft \ {l} /\ UNCHANGED <<pc, tagsLeft>>
  <2>1. PICK t, x : reg' = RegisterEnum(reg, t, x)
    BY <1>4, ZenonT(60)
  <2>2. PICK r : r = RegisterEnum(reg, t, x)
    BY ZenonT(60)
  <2>3. IsRegistry(r) /\ r.tags = reg.tags
    BY <1>3, <2>2, RegisterIs, ZenonT(60)
  <2>4. IsRegistry(reg') /\ reg'.tags = reg.tags
    BY <2>1, <2>2, <2>3, ZenonT(60)
  <2>5. enumsLeft' \subseteq enumsLeft
    BY <1>4
  <2> QED
    BY <1>2, <1>4, <2>4, <2>5, DInvSame, ZenonT(60)
<1>5. CASE Tag(l).res # "ok" /\ pc' = "panic" /\ tagsLeft' = {} /\ enumsLeft' = {} /\ UNCHANGED reg
  <2>1. pc \in Packages
    BY <1>1, ZenonT(60) DEF DInv, PackageProgress
  <2>2. l \in EnumTags(c) /\ DOMAIN c.tags \subseteq Canonical
    BY <1>1, <1>2, <2>1, ZenonT(60) DEF DInv, PackageProgress, c
  <2>3. PICK e : e = EnumTag(c, l)
    BY ZenonT(60)
  <2>4. Tag(l) = ParseTag(NamePart(e), reg.tags)
    BY <2>3, ZenonT(60) DEF EnumTag
  <2>5. ParseTag(NamePart(e), reg.tags).res # "ok"
    BY <1>5, <2>4, ZenonT(60)
  <2>6. \A m \in Canonical : NormalizeName(m) # e
    BY <1>3, <2>5, NameFound, ZenonT(60) DEF Canonical
  <2>7. pc # "kmip14"
    <3> SUFFICES ASSUME pc = "kmip14" PROVE FALSE
      OBVIOUS
    <3>1. DOMAIN c.tags = {FullName[m] : m \in {shared, "ExtensionType"}}
      BY CodeOfIs, GeneratedIs, SMTT(60) DEF c
    <3>2. e = NormalizeName(FullName[shared])
      BY <2>2, <2>3, PackageEnums, ZenonT(60) DEF c
    <3>3. FullName[shared] \in Canonical
      BY <2>2, <3>1, ZenonT(60)
    <3> QED
      BY <2>6, <3>2, <3>3, ZenonT(60)
  <2>8. pc # "kmip20"
    <3> SUFFICES ASSUME pc = "kmip20" PROVE FALSE
      OBVIOUS
    <3>1. FullName[shared] \in Canonical
      BY ZenonT(60) DEF DInv, EarlierPackages
    <3>2. e = NormalizeName(FullName[shared])
      BY <2>2, <2>3, PackageEnums, ZenonT(60) DEF c
    <3> QED
      BY <2>6, <3>1, <3>2, ZenonT(60)
  <2>9. pc = "custom" /\ c = file.code
    <3>1. pc = "custom"
      BY <2>1, <2>7, <2>8 DEF Packages
    <3> QED
      BY <3>1, CodeOfIs, ZenonT(60) DEF c
  <2>10. PanicsForUnknownTag'
    <3> DEFINE N == DOMAIN file.code.tags \cup {FullName[m] : m \in {shared, "ExtensionType", "AttributeReference"}}
    <3>1. N \subseteq Canonical
      <4>1. /\ FullName[shared] \in Canonical /\ FullName["ExtensionType"] \in Canonical
            /\ FullName["AttributeReference"] \in Canonical
        BY <2>9, ZenonT(60) DEF DInv, EarlierPackages
      <4> QED
        BY <2>2, <2>9, <4>1, ZenonT(60)
    <3>2. l \in EnumTags(file.code) /\ EnumTag(file.code, l) = e
      BY <2>2, <2>3, <2>9, ZenonT(60)
    <3>3. e \notin {NormalizeName(m) : m \in N}
      BY <2>6, <3>1, ZenonT(60)
    <3>4. \E z \in EnumTags(file.code) : EnumTag(file.code, z) \notin {NormalizeName(m) : m \in N}
      BY <3>2, <3>3, ZenonT(60)
    <3> QED
      BY <1>2, <3>4, ZenonT(60) DEF PanicsForUnknownTag
  <2>11. FileIsBuilt'
    <3>1. Compiles(file)
      BY <2>1, ZenonT(60) DEF DInv, FileIsBuilt
    <3>2. Compiles(file')
      BY <1>2, <3>1, ZenonT(60)
    <3> QED
      BY <1>2, <3>2, ZenonT(60) DEF DInv, FileIsBuilt
  <2>12. PackageProgress' /\ EarlierPackages' /\ CustomKnown'
    BY <1>5, ZenonT(60) DEF PackageProgress, EarlierPackages, CustomKnown, Packages
  <2>13. IsRegistry(reg')
    BY <1>3, <1>5, ZenonT(60)
  <2> QED
    BY <2>10, <2>11, <2>12, <2>13, ZenonT(60) DEF DInv
<1> QED
  BY <1>1, <1>4, <1>5, ZenonT(60)

\* Formatting and parsing leave the registry alone.
LEMMA DInvUse ==
  ASSUME NEW what, NEW tag, NEW v, NEW text, NEW back, DInv, Used(what, tag, v, text, back)
  PROVE  DInv'
<1>1. /\ UNCHANGED <<spec, shared, file, reg, tagsLeft, enumsLeft>>
      /\ pc = "custom" /\ pc' = "used" /\ tagsLeft = {} /\ enumsLeft = {}
  BY ZenonT(60) DEF Used, Leaves
<1>2. IsRegistry(reg') /\ reg'.tags = reg.tags /\ enumsLeft' \subseteq enumsLeft
  BY <1>1, ZenonT(60) DEF DInv
<1> QED
  BY <1>1, <1>2, DInvSame, ZenonT(60)

\* What the uses have in common.
LEMMA UsesAreUses ==
  UseEnum \/ UseInt \/ UseTag \/ UseAttributeName \/ UseText =>
    \E what, tag, v, text, back : Used(what, tag, v, text, back)
<1>1. UseEnum => \E what, tag, v, text, back : Used(what, tag, v, text, back)
  BY ZenonT(60) DEF UseEnum
<1>2. UseInt => \E what, tag, v, text, back : Used(what, tag, v, text, back)
  BY ZenonT(60) DEF UseInt
<1>3. UseTag => \E what, tag, v, text, back : Used(what, tag, v, text, back)
  BY ZenonT(60) DEF UseTag
<1>4. UseAttributeName => \E what, tag, v, text, back : Used(what, tag, v, text, back)
  BY ZenonT(60) DEF UseAttributeName
<1>5. UseText => \E what, tag, v, text, back : Used(what, tag, v, text, back)
  BY ZenonT(60) DEF UseText
<1> QED
  BY <1>1, <1>2, <1>3, <1>4, <1>5, ZenonT(60)

\* The invariant holds throughout.
LEMMA DInvNext == DInv /\ [Next]_vars => DInv'
<1> SUFFICES ASSUME DInv, [Next]_vars PROVE DInv'
  OBVIOUS
<1>1. ASSUME UNCHANGED vars PROVE DInv'
  <2>1. UNCHANGED <<spec, shared, file, pc, reg, tagsLeft, enumsLeft>>
    BY <1>1, ZenonT(60) DEF vars
  <2>2. IsRegistry(reg') /\ reg'.tags = reg.tags /\ enumsLeft' \subseteq enumsLeft
    BY <2>1, ZenonT(60) DEF DInv
  <2> QED
    BY <2>1, <2>2, DInvSame, ZenonT(60)
<1>2. ASSUME UseEnum \/ UseInt \/ UseTag \/ UseAttributeName \/ UseText PROVE DInv'
  <2>1. PICK what, tag, v, text, back : Used(what, tag, v, text, back)
    BY <1>2, UsesAreUses, ZenonT(60)
  <2> QED
    BY <2>1, DInvUse, ZenonT(60)
<1> QED
  BY <1>1, <1>2, DInvKmipgen, DInvStart, DInvRegister20, DInvRegisterCustom, DInvRegisterOneTag,
     DInvRegisterOneEnum, ZenonT(60) DEF Next

\* The enums of the file that were registered, the number of the tag of one, and
\* what it registers.
Registered == EnumTags(file.code) \ enumsLeft
NumberOf(l) == Value(reg.tags, EnumTag(file.code, l))
Entry(l) == Own(Enum(file.code.enums[l[1]].vals, file.code.enums[l[1]].mask))

\* The enum of l, or another one for the same number, is in place.
InPlace(l) ==
  \E m \in Registered : /\ NumberOf(m) = NumberOf(l)
                        /\ NumberOf(l) \in DOMAIN reg.enums /\ reg.enums[NumberOf(l)] = Entry(m)

\* The enums of the file wait for its tags, which the numbers come from, and
\* those that were registered are in place.
EInv ==
  /\ pc = "custom" /\ tagsLeft # {} => enumsLeft = EnumTags(file.code)
  /\ pc \in {"custom", "used"} => \A l \in Registered : InPlace(l)

\* An enum that is registered is in place, and the others stay or make room for
\* it.
LEMMA EInvRegisterOneEnum ==
  ASSUME DInv, EInv, RegisterOneEnum, pc = "custom"
  PROVE  EInv'
<1> DEFINE D(l) == file.code.enums[l[1]]
           Tag(l) == ParseTag(NamePart(D(l).tags[l[2]]), reg.tags)
<1>1. CodeOf(pc) = file.code
  BY CodeOfIs, ZenonT(60)
<1>2. PICK l \in enumsLeft :
        \/ /\ Tag(l).res = "ok" /\ reg' = RegisterEnum(reg, Tag(l).v, Own(Enum(D(l).vals, D(l).mask)))
           /\ enumsLeft' = enumsLeft \ {l} /\ pc' = pc
        \/ pc' = "panic"
  BY <1>1, ZenonT(60) DEF RegisterOneEnum
<1>3. tagsLeft = {} /\ tagsLeft' = {} /\ file' = file
  BY ZenonT(60) DEF RegisterOneEnum, TagsFirst
<1>4. CASE pc' = "panic"
  BY <1>4, ZenonT(60) DEF EInv
<1>5. CASE /\ Tag(l).res = "ok" /\ reg' = RegisterEnum(reg, Tag(l).v, Own(Enum(D(l).vals, D(l).mask)))
           /\ enumsLeft' = enumsLeft \ {l} /\ pc' = pc
  <2>1. l \in EnumTags(file.code)
    BY <1>1, ZenonT(60) DEF DInv, PackageProgress, Packages
  <2>2. IsRegistry(reg) /\ IsTable(reg.tags)
    BY ZenonT(60) DEF DInv, IsRegistry
  <2>3. PICK n : n = EnumTag(file.code, l)
    BY ZenonT(60)
  <2>4. Tag(l) = ParseTag(NamePart(n), reg.tags)
    BY <2>3, ZenonT(60) DEF EnumTag
  <2>5. Tag(l).v = NumberOf(l)
    BY <1>5, <2>2, <2>3, <2>4, NameFound, ZenonT(60) DEF NumberOf
  <2>6. PICK t, x : t = NumberOf(l) /\ x = Entry(l)
    BY ZenonT(60)
  <2>7. reg' = RegisterEnum(reg, t, x)
    BY <1>5, <2>5, <2>6, ZenonT(60) DEF Entry
  <2> HIDE DEF Tag, D
  <2>8. reg'.tags = reg.tags /\ reg'.enums = Put(reg.enums, t, x)
    BY <2>2, <2>7, RegisterIs, SMTT(60)
  <2>9. PICK f, g : f = reg.enums /\ g = reg'.enums
    BY ZenonT(60)
  <2>10. t \in DOMAIN g /\ g[t] = x
    <3>1. t \in DOMAIN Put(f, t, x) /\ Put(f, t, x)[t] = x
      BY PutAt, SMTT(60)
    <3> QED
      BY <2>8, <2>9, <3>1, ZenonT(60)
  <2>11. ASSUME NEW z, z # t, z \in DOMAIN f PROVE z \in DOMAIN g /\ g[z] = f[z]
    <3>1. z \in DOMAIN Put(f, t, x) /\ Put(f, t, x)[z] = f[z]
      BY <2>11, PutOther, SMTT(60)
    <3> QED
      BY <2>8, <2>9, <3>1, ZenonT(60)
  <2>12. /\ Registered' = Registered \cup {l}
         /\ \A m : NumberOf(m)' = NumberOf(m) /\ Entry(m)' = Entry(m)
    <3>1. Registered' = Registered \cup {l}
      BY <1>3, <1>5, <2>1, ZenonT(60) DEF Registered
    <3>2. \A m : NumberOf(m)' = NumberOf(m) /\ Entry(m)' = Entry(m)
      BY <1>3, <2>8, ZenonT(60) DEF NumberOf, Entry
    <3> QED
      BY <3>1, <3>2, ZenonT(60)
  <2>13. ASSUME NEW k \in Registered' PROVE InPlace(k)'
    <3>1. CASE NumberOf(k) = t
      <4>1. l \in Registered' /\ NumberOf(l)' = NumberOf(k)' /\ NumberOf(k)' \in DOMAIN g /\ g[NumberOf(k)'] = Entry(l)'
        BY <2>6, <2>10, <2>12, <3>1, ZenonT(60)
      <4> QED
        BY <2>9, <4>1, ZenonT(60) DEF InPlace
    <3>2. CASE NumberOf(k) # t
      <4>1. k \in Registered
        BY <2>6, <2>12, <2>13, <3>2, ZenonT(60)
      <4>2. InPlace(k)
        BY <4>1, ZenonT(60) DEF EInv
      <4>3. PICK m \in Registered : NumberOf(m) = NumberOf(k) /\ NumberOf(k) \in DOMAIN f /\ f[NumberOf(k)] = Entry(m)
        BY <2>9, <4>2, ZenonT(60) DEF InPlace
      <4>4. NumberOf(k) \in DOMAIN g /\ g[NumberOf(k)] = Entry(m)
        BY <2>11, <3>2, <4>3, ZenonT(60)
      <4>5. m \in Registered' /\ NumberOf(m)' = NumberOf(k)' /\ NumberOf(k)' \in DOMAIN g /\ g[NumberOf(k)'] = Entry(m)'
        BY <2>12, <4>3, <4>4, ZenonT(60)
      <4> QED
        BY <2>9, <4>5, ZenonT(60) DEF InPlace
    <3> QED
      BY <3>1, <3>2, ZenonT(60)
  <2> QED
    BY <1>3, <2>13, ZenonT(60) DEF EInv
<1> QED
  BY <1>2, <1>4, <1>5, ZenonT(60)

\* The steps that leave the file and the registry alone.
LEMMA EInvSame ==
  ASSUME EInv, UNCHANGED <<file, reg, tagsLeft, enumsLeft>>, pc' = pc \/ (pc = "custom" /\ pc' = "used")
  PROVE  EInv'
<1>1. Registered' = Registered /\ \A l : InPlace(l)' <=> InPlace(l)
  <2>1. Registered' = Registered
    BY ZenonT(60) DEF Registered
  <2>2. \A m : NumberOf(m)' = NumberOf(m) /\ Entry(m)' = Entry(m)
    BY ZenonT(60) DEF NumberOf, Entry
  <2> QED
    BY <2>1, <2>2, ZenonT(60) DEF InPlace
<1>2. pc' \in {"custom", "used"} => pc \in {"custom", "used"}
  BY ZenonT(60)
<1>3. pc' = "custom" => pc = "custom"
  BY ZenonT(60)
<1> QED
  BY <1>1, <1>2, <1>3, ZenonT(60) DEF EInv

\* The invariant about the enums holds throughout.
LEMMA EInvHolds ==
  /\ Init => EInv
  /\ DInv /\ EInv /\ [Next]_vars => EInv'
<1>1. Init => EInv
  BY ZenonT(60) DEF Init, EInv
<1>2. ASSUME DInv, EInv, [Next]_vars PROVE EInv'
  <2>1. CASE pc' \notin {"custom", "used"}
    BY <2>1, ZenonT(60) DEF EInv
  <2>2. CASE UNCHANGED vars
    BY <1>2, <2>2, EInvSame, ZenonT(60) DEF vars
  <2>3. CASE (RegisterOneTag \/ RegisterCustom) /\ pc' = "custom"
    <3>1. enumsLeft' = EnumTags(file.code) /\ file' = file
      <4>1. CASE RegisterCustom
        <5>1. enumsLeft' = EnumTags(CodeOf("custom")) /\ file' = file
          BY <4>1, ZenonT(60) DEF RegisterCustom, Enter
        <5> QED
          BY <5>1, CodeOfIs, ZenonT(60)
      <4>2. CASE RegisterOneTag
        <5>1. pc = "custom" /\ tagsLeft # {} /\ enumsLeft' = enumsLeft /\ file' = file
          BY <2>3, <4>2, ZenonT(60) DEF RegisterOneTag
        <5> QED
          BY <1>2, <5>1, ZenonT(60) DEF EInv
      <4> QED
        BY <2>3, <4>1, <4>2, ZenonT(60)
    <3>2. Registered' = {}
      BY <3>1 DEF Registered
    <3> QED
      BY <3>1, <3>2, ZenonT(60) DEF EInv
  <2>4. CASE RegisterOneEnum /\ pc' \in {"custom", "used"}
    <3>1. pc = "custom"
      <4>1. pc' = pc \/ pc' = "panic"
        BY <2>4, ZenonT(60) DEF RegisterOneEnum
      <4>2. pc \in {"custom", "used"}
        BY <2>4, <4>1, ZenonT(60)
      <4>3. enumsLeft # {}
        BY <2>4, ZenonT(60) DEF RegisterOneEnum
      <4>4. pc \in Packages
        BY <1>2, <4>3, ZenonT(60) DEF DInv, PackageProgress
      <4> QED
        BY <4>2, <4>4 DEF Packages
    <3> QED
      BY <1>2, <2>4, <3>1, EInvRegisterOneEnum, ZenonT(60)
  <2>5. CASE UseEnum \/ UseInt \/ UseTag \/ UseAttributeName \/ UseText
    <3>1. PICK what, tag, v, text, back : Used(what, tag, v, text, back)
      BY <2>5, UsesAreUses, ZenonT(60)
    <3>2. pc = "custom" /\ pc' = "used" /\ UNCHANGED <<file, reg, tagsLeft, enumsLeft>>
      BY <3>1, ZenonT(60) DEF Used, Leaves
    <3> QED
      BY <1>2, <3>2, EInvSame, ZenonT(60)
  <2>6. CASE ReadSpec \/ Generate \/ Start \/ Register20
    <3>1. pc' \notin {"custom", "used"}
      <4>1. (ReadSpec \/ Generate) => pc' \in {"exit0", "exit1", "exit2", "generate"}
        BY DEF ReadSpec, Generate
      <4>2. (Start \/ Register20) => pc' = "kmip14" \/ pc' = "kmip20"
        BY ZenonT(60) DEF Start, Register20, Enter
      <4> QED
        BY <2>6, <4>1, <4>2, ZenonT(60)
    <3> QED
      BY <2>1, <3>1, ZenonT(60)
  <2>7. RegisterCustom => pc' = "custom"
    BY ZenonT(60) DEF RegisterCustom, Enter
  <2>8. RegisterOneTag /\ pc' \in {"custom", "used"} => pc' = "custom"
    <3> SUFFICES ASSUME RegisterOneTag, pc' \in {"custom", "used"} PROVE pc' = "custom"
      OBVIOUS
    <3>1. pc' = pc /\ tagsLeft # {}
      BY ZenonT(60) DEF RegisterOneTag
    <3>2. pc \in Packages
      BY <1>2, <3>1, ZenonT(60) DEF DInv, PackageProgress
    <3> QED
      BY <3>1, <3>2 DEF Packages
  <2> QED
    BY <1>2, <2>1, <2>2, <2>3, <2>4, <2>5, <2>6, <2>7, <2>8, ZenonT(60) DEF Next
<1> QED
  BY <1>1, <1>2, ZenonT(60)

\* The invariants imply that a program that has started knows every definition
\* of the specification file.
LEMMA AllKnown == DInv /\ EInv => AllDefinitionsKnown
<1> SUFFICES ASSUME DInv, EInv, pc \in {"custom", "used"}, tagsLeft = {}, enumsLeft = {}
             PROVE  /\ \A n \in DOMAIN spec.tags : \E v \in parseUint32(spec.tags[n]) : Known(reg.tags, v, n)
                    /\ \A l \in EnumTags(spec) : \E m \in EnumTags(spec) :
                         /\ TagNumber(m) = TagNumber(l)
                         /\ EnumKnown(EnumForTag(reg, TagNumber(m)), spec.enums[m[1]])
  BY ZenonT(60) DEF AllDefinitionsKnown
<1>1. Compiles(file) /\ Built(file.code, spec)
  <2>1. pc \in Packages \cup {"used", "panic"}
    BY ZenonT(60) DEF Packages
  <2> QED
    BY <2>1, ZenonT(60) DEF DInv, FileIsBuilt, Compiles
<1>2. ASSUME NEW n \in DOMAIN spec.tags PROVE \E v \in parseUint32(spec.tags[n]) : Known(reg.tags, v, n)
  <2>1. PICK ts : ts = file.code.tags
    BY ZenonT(60)
  <2>2. ts \in Parsed(spec.tags)
    BY <1>1, <2>1, ZenonT(60) DEF Built
  <2>3. DOMAIN ts = DOMAIN spec.tags /\ ts[n] \in parseUint32(spec.tags[n])
    BY <2>2, ZenonT(60) DEF Parsed
  <2>4. Knows(reg.tags, ts[n], n)
    BY <2>1, <2>3 DEF DInv, CustomKnown
  <2>5. IsTable(reg.tags)
    BY ZenonT(60) DEF DInv, IsRegistry
  <2>6. PICK v, e : v = ts[n] /\ e = reg.tags
    BY ZenonT(60)
  <2>7. Known(e, v, n)
    BY <2>4, <2>5, <2>6, KnowsIsKnown, ZenonT(60)
  <2> QED
    BY <2>3, <2>6, <2>7, ZenonT(60)
<1>3. ASSUME NEW l \in EnumTags(spec)
      PROVE  \E m \in EnumTags(spec) : /\ TagNumber(m) = TagNumber(l)
                                       /\ EnumKnown(EnumForTag(reg, TagNumber(m)), spec.enums[m[1]])
  <2>1. PICK c : c = file.code
    BY ZenonT(60)
  <2>2. PICK s : s = spec
    BY ZenonT(60)
  <2>3. Built(c, s)
    BY <1>1, <2>1, <2>2, ZenonT(60)
  <2>4. /\ EnumTags(c) = EnumTags(s)
        /\ \A m \in EnumTags(s) : m[1] \in DOMAIN s.enums /\ EnumTag(c, m) = NormalizeName(EnumTag(s, m))
    BY <2>3, BuiltTags, ZenonT(60)
  <2>5. Registered = EnumTags(s)
    BY <2>1, <2>4 DEF Registered
  <2>6. \A m \in EnumTags(s) : NumberOf(m) = TagNumber(m)
    BY <2>1, <2>2, <2>4, ZenonT(60) DEF NumberOf, TagNumber
  <2>7. InPlace(l)
    BY <2>2, <2>5, ZenonT(60) DEF EInv
  <2>8. PICK m \in EnumTags(s) : NumberOf(m) = NumberOf(l) /\ NumberOf(l) \in DOMAIN reg.enums
                                 /\ reg.enums[NumberOf(l)] = Entry(m)
    BY <2>5, <2>7, ZenonT(60) DEF InPlace
  <2>9. PICK d, a : d = c.enums[m[1]] /\ a = s.enums[m[1]]
    BY ZenonT(60)
  <2>10. PICK vals, mask, e : vals = d.vals /\ mask = d.mask /\ e = Enum(vals, mask)
    BY ZenonT(60)
  <2>11. OneToOne(vals) /\ vals \in Parsed(a.values) /\ mask = a.mask
    <3>1. m[1] \in DOMAIN s.enums
      BY <2>4, ZenonT(60)
    <3>2. m[1] \in DOMAIN c.enums /\ vals \in Parsed(a.values) /\ mask = a.mask
      BY <2>3, <2>9, <2>10, <3>1, ZenonT(60) DEF Built
    <3>3. OneToOne(vals)
      BY <1>1, <2>1, <2>9, <2>10, <3>2, ZenonT(60) DEF Compiles
    <3> QED
      BY <3>2, <3>3, ZenonT(60)
  <2>12. IsTable(e) /\ e.bitMask = mask /\ \A n \in DOMAIN vals : Knows(e, vals[n], n)
    BY <2>10, <2>11, EnumIs, ZenonT(60)
  <2>13. DOMAIN vals = DOMAIN a.values /\ \A n \in DOMAIN a.values : vals[n] \in parseUint32(a.values[n])
    BY <2>11, ZenonT(60) DEF Parsed
  <2>14. EnumKnown(e, a)
    <3>1. ASSUME NEW n \in DOMAIN a.values PROVE \E v \in parseUint32(a.values[n]) : Known(e, v, n)
      <4>1. PICK v : v = vals[n]
        BY ZenonT(60)
      <4>2. Known(e, v, n)
        BY <2>12, <2>13, <4>1, KnowsIsKnown, ZenonT(60)
      <4> QED
        BY <2>13, <4>1, <4>2, ZenonT(60)
    <3> QED
      BY <2>11, <2>12, <3>1, ZenonT(60) DEF EnumKnown
  <2>15. EnumForTag(reg, TagNumber(m)) = e
    <3>1. PICK t, r : t = NumberOf(m) /\ r = reg
      BY ZenonT(60)
    <3>2. t \in DOMAIN r.enums /\ r.enums[t] = Own(e)
      BY <2>1, <2>8, <2>9, <2>10, <3>1, ZenonT(60) DEF Entry
    <3>3. EnumForTag(r, t) = e
      BY <3>2, EnumForTagIs, ZenonT(60)
    <3> QED
      BY <2>6, <3>1, <3>3, ZenonT(60)
  <2>16. TagNumber(m) = TagNumber(l)
    BY <2>2, <2>6, <2>8, ZenonT(60)
  <2> QED
    BY <2>2, <2>9, <2>14, <2>15, <2>16, ZenonT(60)
<1> QED
  BY <1>2, <1>3, ZenonT(60)

\* Whatever the specification file says and in whatever order its tables are
\* registered, a program that has started knows every tag of the file, and every
\* value of its enums and masks, by its number and under both of its names (the
\* generated RegisterGeneratedDefinitions, RegisterEnum, RegisterValue).  The
\* exceptions are the two of the property.
THEOREM DefinitionsAllKnown == Spec => []AllDefinitionsKnown
BY DInvInit, DInvNext, EInvHolds, AllKnown, PTL DEF Spec

\* The start of a program panics only over an enum for a tag that no package
\* has defined: the tags of a package are registered before its enums, and the
\* packages one after the other.
THEOREM DefinitionsPanicsForUnknownTag == Spec => []PanicsForUnknownTag
<1>1. DInv => PanicsForUnknownTag
  BY ZenonT(60) DEF DInv
<1> QED
  BY DInvInit, DInvNext, <1>1, PTL DEF Spec

----------------------------------------------------------------------------
(***************************************************************************)
(* Hex strings.                                                            *)
(***************************************************************************)

\* The numbers of four bytes.
LEMMA Pow4 == Pow(lenInt) \in Nat \ {0} /\ ByteBits \in Nat /\ lenInt = 4
<1>1. ByteBits \in Nat /\ ByteBits * lenInt \in Nat /\ lenInt = 4
  BY ByteAssumption DEF lenInt
<1> QED
  BY <1>1, PowerPositive, ZenonT(60) DEF Pow

\* Bytes are the digits of a number.
LEMMA UnsignedIs ==
  ASSUME NEW bs \in Seq(0 .. Base - 1), Len(bs) <= lenInt
  PROVE  bs \in Seq(Int) /\ Unsigned(bs) \in 0 .. Pow(lenInt) - 1
<1>1. ByteBits \in Nat /\ Len(bs) \in Nat /\ ByteBits * Len(bs) \in Nat /\ ByteBits * lenInt \in Nat
      /\ ByteBits * Len(bs) <= ByteBits * lenInt
  BY ByteAssumption DEF lenInt
<1>2. bs \in Seq(Int) /\ Unsigned(bs) \in 0 .. 2 ^ (ByteBits * Len(bs)) - 1
  BY <1>1, NumeralBound, ZenonT(60) DEF Unsigned, Base
<1>3. 2 ^ (ByteBits * Len(bs)) <= 2 ^ (ByteBits * lenInt) /\ 2 ^ (ByteBits * Len(bs)) \in Nat \ {0}
  BY <1>1, PowerGrows, PowerPositive, ZenonT(60)
<1> DEFINE p == 2 ^ (ByteBits * Len(bs))
           q == Pow(lenInt)
<1>4. p \in Nat \ {0} /\ q \in Nat \ {0} /\ p <= q /\ Unsigned(bs) \in 0 .. p - 1
  BY <1>2, <1>3, Pow4, ZenonT(60) DEF Pow
<1> HIDE DEF p, q
<1>5. Unsigned(bs) \in 0 .. q - 1
  BY <1>4
<1> QED
  BY <1>2, <1>5, ZenonT(60) DEF q

\* DecodeUint32 pads in front, which does not change the number.
LEMMA DecodeIs ==
  ASSUME NEW bs \in Seq(0 .. Base - 1), Len(bs) <= lenInt
  PROVE  DecodeUint32(bs) = Unsigned(bs)
<1>1. bs \in Seq(Int) /\ Len(bs) \in Nat /\ lenInt = 4
  BY UnsignedIs, Pow4
<1>2. CASE Len(bs) < lenInt
  <2>1. PICK p \in Nat : p = lenInt - Len(bs)
    BY <1>1, <1>2
  <2>2. DecodeUint32(bs) = Unsigned(Zeros(p) \o bs)
    BY <1>2, <2>1, ZenonT(60) DEF DecodeUint32
  <2>3. FromDigits([i \in 1 .. p |-> 0] \o bs, ByteBits) = FromDigits(bs, ByteBits)
    BY <1>1, Pow4, NumeralZeros, ZenonT(60)
  <2> QED
    BY <2>2, <2>3, ZenonT(60) DEF Unsigned, Zeros
<1>3. CASE ~(Len(bs) < lenInt)
  <2>1. DecodeUint32(bs) = Unsigned(SubSeq(bs, 1, lenInt))
    BY <1>3, ZenonT(60) DEF DecodeUint32
  <2>2. lenInt = Len(bs)
    <3>1. PICK k \in Nat : k = Len(bs)
      BY <1>1, ZenonT(60)
    <3>2. k <= lenInt /\ ~(k < lenInt)
      BY <1>3, <3>1, ZenonT(60)
    <3>3. k = lenInt
      BY <1>1, <3>2
    <3> QED
      BY <3>1, <3>3, ZenonT(60)
  <2>3. SubSeq(bs, 1, Len(bs)) = bs
    BY <1>1
  <2> QED
    BY <2>1, <2>2, <2>3, ZenonT(60)
<1> QED
  BY <1>2, <1>3, ZenonT(60)

\* The bits of an unsigned number are those of the number.
LEMMA NumberOfBits ==
  ASSUME NEW n \in 0 .. Pow(lenInt) - 1
  PROVE  Number(Bits(n)) = n
<1>1. PICK N \in Nat : N = ByteBits * lenInt
  BY Pow4
<1> DEFINE d == [i \in 1 .. N |-> IF N - i \in Bits(n) THEN 1 ELSE 0]
<1>2. n \in Int /\ 2 ^ N = Pow(lenInt) /\ 2 ^ N \in Nat \ {0}
  <2>1. 2 ^ N = Pow(lenInt)
    BY <1>1, ZenonT(60) DEF Pow
  <2> QED
    BY <2>1, Pow4
<1>3. Number(Bits(n)) = FromDigits(d, 1)
  BY <1>1, ZenonT(60) DEF Number
<1>4. ASSUME NEW i \in 1 .. N PROVE d[i] = (n \div (2 ^ (1 * (N - i)))) % (2 ^ 1)
  <2>1. PICK j \in 0 .. N - 1 : j = N - i
    OBVIOUS
  <2>2. 1 * (N - i) = j /\ 2 ^ 1 = 2 /\ j \in Nat
    BY <2>1
  <2> DEFINE q == n \div (2 ^ j)
  <2>3. 2 ^ j \in Nat \ {0}
    BY <2>2, PowerPositive, ZenonT(60)
  <2>4. q \in Int
    BY <1>2, <2>3, Divides, ZenonT(60)
  <2>5. j \in Bits(n) <=> q % 2 = 1
    BY <1>1, ZenonT(60) DEF Bits
  <2> HIDE DEF q
  <2>6. q % 2 = 0 \/ q % 2 = 1
    BY <2>4
  <2>7. d[i] = IF j \in Bits(n) THEN 1 ELSE 0
    BY <2>1, ZenonT(60)
  <2>8. d[i] = q % 2
    BY <2>5, <2>6, <2>7, ZenonT(60)
  <2> QED
    BY <2>2, <2>8, ZenonT(60) DEF q
<1>5. d = DigitsOf(n, 1, N)
  BY <1>4, ZenonT(60) DEF DigitsOf
<1> HIDE DEF d
<1>6. FromDigits(DigitsOf(n, 1, N), 1) = n % (2 ^ (1 * N))
  <2>1. 1 \in Nat
    OBVIOUS
  <2> QED
    BY <1>2, <2>1, FromDigitsOf, ZenonT(60)
<1>7. 1 * N = N
  OBVIOUS
<1>8. n % (2 ^ N) = n
  <2> DEFINE b == 2 ^ N
  <2>1. b \in Nat \ {0} /\ n \in 0 .. b - 1
    BY <1>2, ZenonT(60)
  <2> HIDE DEF b
  <2>2. n % b = n
    BY <2>1, RestSmall
  <2> QED
    BY <2>2, ZenonT(60) DEF b
<1> QED
  BY <1>3, <1>5, <1>6, <1>7, <1>8, ZenonT(60)

\* A number of four bytes is the same after it was an int32.
LEMMA Uint32OfInt32 ==
  ASSUME NEW n \in 0 .. Pow(lenInt) - 1
  PROVE  Uint32(n) = n /\ Uint32(Int32(n)) = n
<1> DEFINE b == Pow(lenInt)
<1>1. b \in Nat \ {0} /\ n \in 0 .. b - 1
  BY Pow4, ZenonT(60)
<1>2. Uint32(n) = n % b /\ Int32(n) = IF (n % b) < b \div 2 THEN n % b ELSE (n % b) - b
  BY ZenonT(60) DEF Uint32, Int32
<1>3. Uint32(n - b) = (n - b) % b
  BY ZenonT(60) DEF Uint32
<1> HIDE DEF b
<1>4. n % b = n
  BY <1>1, RestSmall
<1>5. (n - b) % b = n
  BY <1>1, RestSmall
<1>6. Int32(n) = n \/ Int32(n) = n - b
  BY <1>2, <1>4, ZenonT(60)
<1> QED
  BY <1>2, <1>3, <1>4, <1>5, <1>6, ZenonT(60)

\* A part that is no name stays one part.
LEMMA FlagsOfOne ==
  ASSUME NEW s, s.k # "name"
  PROVE  Flags(<<s>>) = <<s>>
<1> DEFINE t == [i \in DOMAIN <<s>> |-> IF <<s>>[i].k = "name" THEN SplitName(<<s>>[i].name) ELSE <<<<s>>[i]>>]
           Is(f) == f = [i \in DOMAIN t |-> IF i = 1 THEN t[1] ELSE f[i - 1] \o t[i]]
           g == [i \in {1} |-> t[1]]
           h == CHOOSE f : Is(f)
<1>1. Flags(<<s>>) = IF t = <<>> THEN <<>> ELSE h[Len(t)]
  BY ZenonT(60) DEF Flags, Joined
<1>2. DOMAIN <<s>> = {1} /\ <<s>>[1] = s
  BY SMTT(60)
<1>3. t = [i \in {1} |-> <<s>>]
  BY <1>2, ZenonT(60)
<1>4. Len(t) = 1 /\ DOMAIN t = {1} /\ t[1] = <<s>>
  BY <1>3, SMTT(60)
<1> HIDE DEF t
<1>5. Is(g)
  <2>1. g = [i \in {1} |-> IF i = 1 THEN t[1] ELSE g[i - 1] \o t[i]]
    BY ZenonT(60)
  <2> QED
    BY <1>4, <2>1, ZenonT(60)
<1>6. Is(h)
  BY <1>5, ZenonT(60)
<1> HIDE DEF h
<1>7. h[1] = t[1]
  BY <1>4, <1>6, ZenonT(60)
<1>8. t # <<>>
  BY <1>4, SMTT(60)
<1> QED
  BY <1>1, <1>4, <1>7, <1>8, ZenonT(60)

\* No more bytes are significant than there are.
LEMMA SignificantIs ==
  ASSUME NEW bs \in Seq(0 .. Base - 1)
  PROVE  Significant(bs) \in Int /\ Len(bs) \in Nat /\ Significant(bs) <= Len(bs)
<1> DEFINE I == {i \in 1 .. Len(bs) + 1 : i \in DOMAIN bs => bs[i] # 0}
           x == CHOOSE y \in I : \A z \in I : y <= z
<1>1. Len(bs) \in Nat /\ DOMAIN bs = 1 .. Len(bs)
  BY SMTT(60)
<1>2. Significant(bs) = Len(bs) + 1 - x
  BY ZenonT(60) DEF Significant, Min
<1>3. I \in SUBSET Nat /\ Len(bs) + 1 \in I
  BY <1>1
<1>4. \A i \in I : i >= 1
  BY <1>1
<1> HIDE DEF I
<1>5. I # {}
  BY <1>3, ZenonT(60)
<1>6. x \in I
  BY <1>3, <1>5, SmallestElement, ZenonT(60)
<1> HIDE DEF x
<1>7. x \in Nat /\ x >= 1
  BY <1>3, <1>4, <1>6, ZenonT(60)
<1>8. PICK m \in Nat : m = Len(bs)
  BY <1>1, ZenonT(60)
<1>9. m + 1 - x \in Int /\ m + 1 - x <= m
  BY <1>7
<1> QED
  BY <1>2, <1>8, <1>9, ZenonT(60)

\* What the parsers of an enum and of a mask make of a hex string.
LEMMA ParseHexIs ==
  ASSUME NEW s, s.k = "hex", NEW e
  PROVE  LET n == DecodeUint32(s.bytes)
         IN  /\ Significant(s.bytes) <= lenInt => /\ ParseEnum(s, e) = Found(n)
                                                  /\ ParseInt(<<s>>, e) = Found(Int32(Number(Bits(n))))
             /\ ~(Significant(s.bytes) <= lenInt) => ParseEnum(s, e) = NotFound /\ ParseInt(<<s>>, e) = NotFound
<1> DEFINE n == DecodeUint32(s.bytes)
           p == parseHexOrName(s, lenInt, e)
           ok == Significant(s.bytes) <= lenInt
           all == UNION {Bits(p.v) : i \in {1}}
<1>1. s.k # "name" /\ s.k # "dec"
  BY ZenonT(60)
<1>2. (ok => p = Found(n)) /\ (~ok => p = NotFound)
  BY <1>1, ZenonT(60) DEF parseHexOrName, ParsesHex
<1>3. ParseEnum(s, e) = p
  BY <1>1, ZenonT(60) DEF ParseEnum
<1>4. /\ Found(n).res = "ok" /\ Found(n).v = n /\ NotFound.res # "ok"
  BY SMTT(60) DEF Found, NotFound
<1>5. <<s>> # <<>> /\ <<s>>[1] = s /\ DOMAIN <<s>> = {1}
  BY SMTT(60)
<1> HIDE DEF p, n, ok
<1>6. ParseInt(<<s>>, e) = IF p.res # "ok" THEN NotFound ELSE Found(Int32(Number(Bits(p.v))))
  <2> DEFINE F(fs, i) == parseHexOrName(fs[i], lenInt, e)
  <2>1. ParseInt(<<s>>, e) =
          IF Len(<<s>>) = 1 /\ <<s>>[1].k = "dec" /\ <<s>>[1].n = Int32(<<s>>[1].n) THEN Found(<<s>>[1].n)
          ELSE IF <<s>> = <<>> \/ \E i \in DOMAIN Flags(<<s>>) : F(Flags(<<s>>), i).res # "ok" THEN NotFound
          ELSE Found(Int32(Number(UNION {Bits(F(Flags(<<s>>), i).v) : i \in DOMAIN Flags(<<s>>)})))
    BY ZenonT(60) DEF ParseInt
  <2>2. Flags(<<s>>) = <<s>>
    BY <1>1, FlagsOfOne, ZenonT(60)
  <2>3. F(<<s>>, 1) = p
    BY <1>5, ZenonT(60) DEF p
  <2> HIDE DEF F
  <2>4. (\E i \in DOMAIN <<s>> : F(<<s>>, i).res # "ok") <=> p.res # "ok"
    BY <1>5, <2>3, ZenonT(60)
  <2>5. UNION {Bits(F(<<s>>, i).v) : i \in DOMAIN <<s>>} = Bits(p.v)
    BY <1>5, <2>3, ZenonT(60)
  <2>6. <<s>>[1].k # "dec"
    BY <1>1, <1>5, ZenonT(60)
  <2> QED
    BY <1>5, <2>1, <2>2, <2>4, <2>5, <2>6, ZenonT(60)
<1> QED
  BY <1>2, <1>3, <1>4, <1>6, ZenonT(60) DEF n, ok

\* What was read last was read from one of the texts.
HInv ==
  use.what = "text" =>
    \E s \in Texts : \E e : use.text = <<s>> /\ (use.back = ParseEnum(s, e) \/ use.back = ParseInt(<<s>>, e))

\* Only UseText reads a text.
LEMMA HInvHolds == Spec => []HInv
<1>1. Init => HInv
  <2>1. Unused.what # "text"
    BY SMTT(60) DEF Unused
  <2> QED
    BY <2>1, ZenonT(60) DEF Init, HInv
<1>2. ASSUME HInv, [Next]_vars PROVE HInv'
  <2>1. ASSUME NEW what, NEW tag, NEW v, NEW text, NEW back, Used(what, tag, v, text, back)
        PROVE  use'.what = what /\ use'.text = text /\ use'.back = back
    <3>1. use' = [what |-> what, tag |-> tag, v |-> v, text |-> text, back |-> back]
      BY <2>1, ZenonT(60) DEF Used
    <3> QED
      BY <3>1, SMTT(60)
  <2>2. ASSUME NEW what, NEW tag, NEW v, NEW text, NEW back, Used(what, tag, v, text, back), what # "text" PROVE HInv'
    BY <2>1, <2>2, ZenonT(60) DEF HInv
  <2>3. ASSUME use' = use PROVE HInv'
    BY <1>2, <2>3, ZenonT(60) DEF HInv
  <2>4. CASE UNCHANGED vars
    BY <2>3, <2>4, ZenonT(60) DEF vars
  <2>5. CASE ReadSpec \/ Generate \/ Start \/ Register20 \/ RegisterCustom \/ RegisterOneTag \/ RegisterOneEnum
    <3>1. use' = use
      BY <2>5, ZenonT(60) DEF ReadSpec, Generate, Start, Register20, RegisterCustom, RegisterOneTag, RegisterOneEnum, Enter
    <3> QED
      BY <2>3, <3>1, ZenonT(60)
  <2>6. CASE UseEnum
    <3>1. PICK tag, v, text, back : Used("enum", tag, v, text, back)
      BY <2>6, ZenonT(60) DEF UseEnum
    <3> QED
      BY <2>2, <3>1, ZenonT(60)
  <2>7. CASE UseInt
    <3>1. PICK tag, v, text, back : Used("int", tag, v, text, back)
      BY <2>7, ZenonT(60) DEF UseInt
    <3> QED
      BY <2>2, <3>1, ZenonT(60)
  <2>8. CASE UseTag
    <3>1. PICK tag, v, text, back : Used("tag", tag, v, text, back)
      BY <2>8, ZenonT(60) DEF UseTag
    <3> QED
      BY <2>2, <3>1, ZenonT(60)
  <2>9. CASE UseAttributeName
    <3>1. PICK tag, v, text, back : Used("attribute", tag, v, text, back)
      BY <2>9, ZenonT(60) DEF UseAttributeName
    <3> QED
      BY <2>2, <3>1, ZenonT(60)
  <2>10. CASE UseText
    <3>1. PICK tag \in Tags, s \in Texts :
            \/ \E e : Used("text", tag, 0, <<s>>, ParseEnum(s, e)) \/ Used("text", tag, 0, <<s>>, ParseInt(<<s>>, e))
            \/ \E back : Used("type", tag, 0, <<s>>, back)
      BY <2>10, ZenonT(60) DEF UseText
    <3>2. ASSUME NEW back, Used("type", tag, 0, <<s>>, back) PROVE HInv'
      BY <2>2, <3>2, ZenonT(60)
    <3>3. ASSUME NEW e, Used("text", tag, 0, <<s>>, ParseEnum(s, e)) PROVE HInv'
      <4>1. use'.text = <<s>> /\ use'.back = ParseEnum(s, e)
        BY <2>1, <3>3, ZenonT(60)
      <4> QED
        BY <4>1, ZenonT(60) DEF HInv
    <3>4. ASSUME NEW e, Used("text", tag, 0, <<s>>, ParseInt(<<s>>, e)) PROVE HInv'
      <4>1. use'.text = <<s>> /\ use'.back = ParseInt(<<s>>, e)
        BY <2>1, <3>4, ZenonT(60)
      <4> QED
        BY <4>1, ZenonT(60) DEF HInv
    <3> QED
      BY <3>1, <3>2, <3>3, <3>4, ZenonT(60)
  <2> QED
    BY <1>2, <2>4, <2>5, <2>6, <2>7, <2>8, <2>9, <2>10, ZenonT(60) DEF Next
<1> QED
  BY <1>1, <1>2, PTL DEF Spec

\* A hex string of one to four bytes is the number that it spells, for an enum
\* and for a mask, and one with more than four bytes after its leading zeros is
\* refused (ParseHexValue, DecodeUint32, ParseEnum, ParseInt).
THEOREM DefinitionsHexIsExact == Spec => []HexIsExact
<1>1. HInv => HexIsExact
  <2> SUFFICES ASSUME HInv, use.what = "text", use.text[1].k = "hex"
               PROVE  LET bs == use.text[1].bytes
                      IN  /\ Len(bs) \in 1 .. lenInt => use.back.res = "ok" /\ Uint32(use.back.v) = Unsigned(bs)
                          /\ Significant(bs) > lenInt => use.back.res = "error"
    BY ZenonT(60) DEF HexIsExact
  <2>1. PICK s \in Texts : \E e : use.text = <<s>> /\ (use.back = ParseEnum(s, e) \/ use.back = ParseInt(<<s>>, e))
    BY ZenonT(60) DEF HInv
  <2>2. PICK e : use.text = <<s>> /\ (use.back = ParseEnum(s, e) \/ use.back = ParseInt(<<s>>, e))
    BY <2>1, ZenonT(60)
  <2>3. use.text[1] = s
    BY <2>2, SMTT(60)
  <2>4. s.k = "hex" /\ s.bytes \in Seq(0 .. Base - 1)
    BY <2>3, DefinitionsAssumption, ZenonT(60)
  <2>5. PICK bs \in Seq(0 .. Base - 1) : bs = s.bytes
    BY <2>4, ZenonT(60)
  <2>6. PICK n : n = DecodeUint32(bs)
    BY ZenonT(60)
  <2>7. /\ Significant(bs) <= lenInt => use.back = Found(n) \/ use.back = Found(Int32(Number(Bits(n))))
        /\ ~(Significant(bs) <= lenInt) => use.back = NotFound
    BY <2>2, <2>4, <2>5, <2>6, ParseHexIs, ZenonT(60)
  <2>8. \A m : Found(m).res = "ok" /\ Found(m).v = m
    BY SMTT(60) DEF Found
  <2>9. NotFound.res = "error"
    BY SMTT(60) DEF NotFound
  <2>10. PICK z \in Int, k \in Nat : z = Significant(bs) /\ k = Len(bs) /\ z <= k
    BY SignificantIs, ZenonT(60)
  <2>11. ASSUME Len(bs) \in 1 .. lenInt PROVE use.back.res = "ok" /\ Uint32(use.back.v) = Unsigned(bs)
    <3>1. z <= lenInt /\ k <= lenInt
      <4>1. k \in 1 .. lenInt /\ lenInt = 4
        BY <2>10, <2>11, Pow4, ZenonT(60)
      <4> QED
        BY <2>10, <4>1
    <3>2. n = Unsigned(bs) /\ n \in 0 .. Pow(lenInt) - 1
      BY <2>6, <2>10, <3>1, DecodeIs, UnsignedIs, ZenonT(60)
    <3>3. use.back.res = "ok" /\ (use.back.v = n \/ use.back.v = Int32(Number(Bits(n))))
      BY <2>7, <2>8, <2>10, <3>1, ZenonT(60)
    <3>4. Number(Bits(n)) = n /\ Uint32(n) = n /\ Uint32(Int32(n)) = n
      BY <3>2, NumberOfBits, Uint32OfInt32, ZenonT(60)
    <3> QED
      BY <3>2, <3>3, <3>4, ZenonT(60)
  <2>12. ASSUME Significant(bs) > lenInt PROVE use.back.res = "error"
    <3>1. z > lenInt
      BY <2>10, <2>12, ZenonT(60)
    <3>2. ~(z <= lenInt)
      BY <3>1, Pow4
    <3> QED
      BY <2>7, <2>9, <2>10, <3>2, ZenonT(60)
  <2> QED
    BY <2>3, <2>5, <2>11, <2>12, ZenonT(60)
<1> QED
  BY <1>1, HInvHolds, PTL

----------------------------------------------------------------------------
(***************************************************************************)
(* The tables of kmip20 take the place of those of kmip14.                 *)
(***************************************************************************)

\* kmip20 has every value of kmip14 under the name it has there.
TablesAgree ==
  \A t \in DOMAIN Table14 :
    /\ DOMAIN Table14[t] \subseteq DOMAIN Table20[t]
    /\ \A v \in DOMAIN Table14[t] : Table14[t][v] = Table20[t][v]

\* The values with names in old have the same ones in new.
KeepsAll(old, new) ==
  \A v \in DOMAIN old.valuesToName :
    /\ HasName(new, v) /\ new.valuesToName[v] = old.valuesToName[v]
    /\ new.valuesToCanonicalName[v] = old.valuesToCanonicalName[v]

\* A table that agrees with another one keeps its names, and any table those of
\* an Enum that has none.
LEMMA TableKeeps ==
  /\ \A a, b : DOMAIN a \subseteq DOMAIN b /\ (\A v \in DOMAIN a : a[v] = b[v]) => KeepsAll(TableEnum(a), TableEnum(b))
  /\ \A e : KeepsAll(NewEnum(FALSE), e)
<1> DEFINE S(t) == [v \in DOMAIN t |-> <<t[v], "normalized">>]
           F(t) == [v \in DOMAIN t |-> <<t[v]>>]
           A(t) == [s \in {<<t[v], "normalized">> : v \in DOMAIN t} |->
                      CHOOSE v \in DOMAIN t : <<t[v], "normalized">> = s]
           B(t) == [s \in {<<t[v]>> : v \in DOMAIN t} |-> CHOOSE v \in DOMAIN t : <<t[v]>> = s]
<1>1. \A t : TableEnum(t) = [valuesToName |-> S(t), nameToValue |-> A(t), valuesToCanonicalName |-> F(t),
                             canonicalNamesToValue |-> B(t), bitMask |-> FALSE]
  BY ZenonT(60) DEF TableEnum
<1>2. \A t : /\ DOMAIN S(t) = DOMAIN t /\ DOMAIN F(t) = DOMAIN t
             /\ \A v \in DOMAIN t : S(t)[v] = <<t[v], "normalized">> /\ F(t)[v] = <<t[v]>>
  BY ZenonT(60)
<1> HIDE DEF S, F, A, B
<1>3. \A t : TableEnum(t).valuesToName = S(t) /\ TableEnum(t).valuesToCanonicalName = F(t)
  BY <1>1, SMTT(60)
<1>4. DOMAIN NewEnum(FALSE).valuesToName = {}
  BY SMTT(60) DEF NewEnum
<1>5. ASSUME NEW a, NEW b, DOMAIN a \subseteq DOMAIN b, \A v \in DOMAIN a : a[v] = b[v]
      PROVE  KeepsAll(TableEnum(a), TableEnum(b))
  <2>1. \A v \in DOMAIN a : v \in DOMAIN b /\ S(b)[v] = S(a)[v] /\ F(b)[v] = F(a)[v]
    BY <1>2, <1>5, ZenonT(60)
  <2>2. DOMAIN S(a) = DOMAIN a /\ DOMAIN S(b) = DOMAIN b
    BY <1>2, ZenonT(60)
  <2> QED
    BY <1>3, <2>1, <2>2, ZenonT(60) DEF KeepsAll, HasName
<1> QED
  BY <1>4, <1>5, ZenonT(60) DEF KeepsAll

\* The names of the three tags are different, and so are their numbers.
SharedIs ==
  /\ shared \in DOMAIN Table14 \ {"ExtensionType", "AttributeReference"}
  /\ \A m, o \in {shared, "ExtensionType", "AttributeReference"} :
       m # o => TagOf[m] # TagOf[o] /\ NormalizeName(FullName[m]) # NormalizeName(FullName[o])

\* The name of the tag of both packages stands for it, and its enumeration is
\* that of kmip14 until kmip20 replaces it.
SharedName == NormalizeName(FullName[shared])
KInv ==
  /\ SharedIs
  /\ pc \in {"kmip14", "kmip20"} =>
       /\ SharedName \in DOMAIN reg.tags.nameToValue => reg.tags.nameToValue[SharedName] = TagOf[shared]
       /\ TagOf[shared] \in DOMAIN reg.enums =>
            \/ reg.enums[TagOf[shared]] = Own(TableEnum(Table14[shared]))
            \/ pc = "kmip20" /\ reg.enums[TagOf[shared]] = Own(TableEnum(Table20[shared]))

\* What a step of kmip14 or kmip20 does to the enumeration of the shared tag:
\* nothing, or it becomes the one of the package.
SameEnum ==
  /\ TagOf[shared] \in DOMAIN reg'.enums <=> TagOf[shared] \in DOMAIN reg.enums
  /\ TagOf[shared] \in DOMAIN reg.enums => reg'.enums[TagOf[shared]] = reg.enums[TagOf[shared]]
NewTable ==
  TagOf[shared] \in DOMAIN reg'.enums /\ reg'.enums[TagOf[shared]] = Own(TableEnum(TableOf(pc)[shared]))

\* The three tags differ in every case.
LEMMA SharedInit == Init => SharedIs
BY CasesAssumption, ZenonT(60) DEF Init, SharedIs

\* The tags of kmip14 and kmip20 have the numbers of the packages.
LEMMA PackageTags ==
  ASSUME SharedIs, NEW p \in {"kmip14", "kmip20"}, NEW n \in DOMAIN CodeOf(p).tags
  PROVE  \/ n = FullName[shared] /\ CodeOf(p).tags[n] = TagOf[shared]
         \/ NormalizeName(n) # SharedName
<1>1. ASSUME NEW tags, tags \subseteq {shared, "ExtensionType", "AttributeReference"}, NEW t, NEW table, NEW g,
             g = Generated(tags, t, table), NEW z \in DOMAIN g.tags
      PROVE  \E m \in tags : z = FullName[m] /\ g.tags[z] = TagOf[m]
  <2> DEFINE C(x) == CHOOSE m \in tags : FullName[m] = x
             E == <<[type |-> NormalizeName(FullName[t]), vals |-> table[t], mask |-> FALSE,
                     tags |-> <<NormalizeName(FullName[t])>>]>>
             T == [x \in {FullName[m] : m \in tags} |-> TagOf[C(x)]]
  <2>1. g = [tags |-> T, enums |-> E]
    BY <1>1, ZenonT(60) DEF Generated
  <2> HIDE DEF T, E
  <2>2. g.tags = T
    BY <2>1, SMTT(60)
  <2>3. DOMAIN T = {FullName[m] : m \in tags} /\ \A x \in DOMAIN T : T[x] = TagOf[C(x)]
    BY ZenonT(60) DEF T
  <2>4. \E m \in tags : FullName[m] = z
    BY <1>1, <2>2, <2>3, SMTT(60)
  <2>5. C(z) \in tags /\ FullName[C(z)] = z
    BY <2>4, ZenonT(60)
  <2> QED
    BY <1>1, <2>2, <2>3, <2>5, ZenonT(60)
<1>2. PICK S, T : S = {shared, "ExtensionType"} /\ T = {"AttributeReference"}
  BY ZenonT(60)
<1>3. S \subseteq {shared, "ExtensionType", "AttributeReference"} /\ T \subseteq {shared, "ExtensionType", "AttributeReference"}
  BY <1>2, ZenonT(60)
<1>4. PICK g : g = CodeOf(p)
  BY ZenonT(60)
<1>5. PICK s : s = shared
  BY ZenonT(60)
<1>6. g = Generated(S, s, Table14) \/ g = Generated(T, s, Table20)
  BY <1>2, <1>4, <1>5, CodeOfIs, ZenonT(60)
<1>7. n \in DOMAIN g.tags
  BY <1>4, ZenonT(60)
<1>8. \E m \in {shared, "ExtensionType", "AttributeReference"} : n = FullName[m] /\ g.tags[n] = TagOf[m]
  BY <1>1, <1>3, <1>6, <1>7, SMTT(60)
<1>9. PICK m \in {shared, "ExtensionType", "AttributeReference"} : n = FullName[m] /\ g.tags[n] = TagOf[m]
  BY <1>8, ZenonT(60)
<1>10. CASE m = shared
  BY <1>4, <1>9, <1>10, ZenonT(60)
<1>11. CASE m # shared
  BY <1>9, <1>11, ZenonT(60) DEF SharedIs, SharedName
<1> QED
  BY <1>10, <1>11, ZenonT(60)

\* The tag of the enums of kmip14 and kmip20 is found.
LEMMA SharedFound ==
  ASSUME DInv, KInv, pc \in {"kmip14", "kmip20"}, tagsLeft = {}
  PROVE  ParseTag(NamePart(SharedName), reg.tags) = Found(TagOf[shared])
<1>1. FullName[shared] \in Canonical
  <2>1. CASE pc = "kmip14"
    <3>1. DOMAIN CodeOf("kmip14").tags \subseteq Canonical
      BY <2>1, SMTT(60) DEF DInv, PackageProgress, Packages
    <3>2. DOMAIN CodeOf("kmip14").tags = {FullName[m] : m \in {shared, "ExtensionType"}}
      BY CodeOfIs, GeneratedIs, SMTT(60)
    <3> QED
      BY <3>1, <3>2, ZenonT(60)
  <2>2. CASE pc = "kmip20"
    BY <2>2, ZenonT(60) DEF DInv, EarlierPackages
  <2> QED
    BY <2>1, <2>2, ZenonT(60)
<1> DEFINE e == reg.tags
           p == NamePart(SharedName)
<1>2. SharedName \in DOMAIN e.nameToValue
  BY <1>1, ZenonT(60) DEF DInv, IsRegistry, IsTable, Canonical, SharedName
<1>3. e.nameToValue[SharedName] = TagOf[shared]
  BY <1>2, ZenonT(60) DEF KInv
<1>4. p.k = "name" /\ p.name = SharedName /\ p.k # "hex"
  BY SMTT(60) DEF NamePart
<1> HIDE DEF p, e
<1>5. ~ParsesHex(p, lenTag)
  BY <1>4, ZenonT(60) DEF ParsesHex
<1>6. HasValue(e, SharedName) /\ Value(e, SharedName) = TagOf[shared]
  BY <1>2, <1>3, ZenonT(60) DEF HasValue, Value
<1> QED
  BY <1>4, <1>5, <1>6, ZenonT(60) DEF ParseTag, parseHexOrName, p, e

\* The tags leave the enumerations alone, and no other tag of the packages has
\* the name.
LEMMA KeepsOneTag ==
  ASSUME DInv, KInv, pc \in {"kmip14", "kmip20"}, RegisterOneTag
  PROVE  /\ SameEnum /\ shared' = shared /\ pc' = pc
         /\ SharedName \in DOMAIN reg'.tags.nameToValue => reg'.tags.nameToValue[SharedName] = TagOf[shared]
<1>1. PICK n \in tagsLeft : reg' = RegisterTag(reg, CodeOf(pc).tags[n], n)
  BY ZenonT(60) DEF RegisterOneTag
<1>2. shared' = shared /\ pc' = pc
  BY ZenonT(60) DEF RegisterOneTag
<1>3. n \in DOMAIN CodeOf(pc).tags
  BY ZenonT(60) DEF DInv, PackageProgress, Packages
<1>4. PICK v : v = CodeOf(pc).tags[n]
  BY ZenonT(60)
<1>5. \/ n = FullName[shared] /\ v = TagOf[shared]
      \/ NormalizeName(n) # SharedName
  <2>1. SharedIs
    BY ZenonT(60) DEF KInv
  <2> QED
    BY <1>3, <1>4, <2>1, PackageTags, ZenonT(60)
<1>6. IsRegistry(reg) /\ IsTable(reg.tags)
  BY ZenonT(60) DEF DInv, IsRegistry
<1>7. reg'.tags = RegisterValue(reg.tags, v, n) /\ reg'.enums = reg.enums
  <2>1. PICK q : q = RegisterTag(reg, v, n)
    BY ZenonT(60)
  <2>2. q.tags = RegisterValue(reg.tags, v, n) /\ q.enums = reg.enums
    BY <1>6, <2>1, RegisterTagIs, SMTT(60)
  <2> QED
    BY <1>1, <1>4, <2>1, <2>2, ZenonT(60)
<1>8. PICK f : f = reg.tags.nameToValue
  BY ZenonT(60)
<1>9. reg'.tags.nameToValue = Put(f, NormalizeName(n), v)
  <2>1. PICK g : g = RegisterValue(reg.tags, v, n)
    BY ZenonT(60)
  <2>2. g.nameToValue = Put(reg.tags.nameToValue, NormalizeName(n), v)
    BY <1>6, <2>1, RegisterValueIs, ZenonT(60)
  <2> QED
    BY <1>7, <1>8, <2>1, <2>2, ZenonT(60)
<1>10. SharedName \in DOMAIN f => f[SharedName] = TagOf[shared]
  BY <1>8, ZenonT(60) DEF KInv
<1>11. SharedName \in DOMAIN Put(f, NormalizeName(n), v) => Put(f, NormalizeName(n), v)[SharedName] = TagOf[shared]
  <2>1. CASE NormalizeName(n) = SharedName
    <3>1. Put(f, NormalizeName(n), v)[NormalizeName(n)] = v
      BY PutAt, SMTT(60)
    <3> QED
      BY <1>5, <2>1, <3>1, ZenonT(60)
  <2>2. CASE NormalizeName(n) # SharedName
    <3>1. PICK k, x : k = SharedName /\ x = NormalizeName(n)
      BY ZenonT(60)
    <3>2. k # x
      BY <2>2, <3>1, ZenonT(60)
    <3>3. /\ k \in DOMAIN Put(f, x, v) <=> k \in DOMAIN f
          /\ k \in DOMAIN f => Put(f, x, v)[k] = f[k]
      BY <3>2, PutOther, SMTT(60)
    <3> QED
      BY <1>10, <3>1, <3>3, ZenonT(60)
  <2> QED
    BY <2>1, <2>2, ZenonT(60)
<1>12. SameEnum
  BY <1>7, ZenonT(60) DEF SameEnum
<1> QED
  BY <1>2, <1>9, <1>11, <1>12, ZenonT(60)

\* An enum that is registered is the one of the package.
LEMMA KeepsOneEnum ==
  ASSUME DInv, KInv, pc \in {"kmip14", "kmip20"}, RegisterOneEnum
  PROVE  /\ SameEnum \/ NewTable
         /\ shared' = shared /\ (pc' = pc \/ pc' = "panic") /\ reg'.tags = reg.tags
<1> DEFINE c == CodeOf(pc)
           Tag(l) == ParseTag(NamePart(c.enums[l[1]].tags[l[2]]), reg.tags)
           Vals(l) == c.enums[l[1]].vals
<1>1. PICK l \in enumsLeft :
        \/ reg' = RegisterEnum(reg, Tag(l).v, Own(TableEnum(Vals(l)))) /\ pc' = pc
        \/ reg' = reg /\ pc' = "panic"
  BY ZenonT(60) DEF RegisterOneEnum
<1>2. shared' = shared /\ tagsLeft = {}
  BY ZenonT(60) DEF RegisterOneEnum, TagsFirst
<1>3. l \in EnumTags(c)
  BY ZenonT(60) DEF DInv, PackageProgress, Packages
<1>4. EnumTag(c, l) = SharedName /\ Vals(l) = TableOf(pc)[shared]
  BY <1>3, PackageEnums, ZenonT(60) DEF SharedName
<1>5. Tag(l) = Found(TagOf[shared])
  <2>1. Tag(l) = ParseTag(NamePart(SharedName), reg.tags)
    BY <1>4, ZenonT(60) DEF EnumTag
  <2> QED
    BY <1>2, <2>1, SharedFound, ZenonT(60)
<1>6. Found(TagOf[shared]).v = TagOf[shared]
  BY SMTT(60) DEF Found
<1> HIDE DEF c, Tag, Vals
<1>7. CASE reg' = RegisterEnum(reg, Tag(l).v, Own(TableEnum(Vals(l)))) /\ pc' = pc
  <2>1. PICK t, x : t = TagOf[shared] /\ x = Own(TableEnum(TableOf(pc)[shared]))
    BY ZenonT(60)
  <2>2. reg' = RegisterEnum(reg, t, x)
    BY <1>4, <1>5, <1>6, <1>7, <2>1, ZenonT(60)
  <2>3. IsRegistry(reg)
    BY ZenonT(60) DEF DInv
  <2>4. reg'.tags = reg.tags /\ reg'.enums = Put(reg.enums, t, x)
    BY <2>2, <2>3, RegisterIs, SMTT(60)
  <2>5. t \in DOMAIN reg'.enums /\ reg'.enums[t] = x
    <3>1. PICK f : f = reg.enums
      BY ZenonT(60)
    <3>2. t \in DOMAIN Put(f, t, x) /\ Put(f, t, x)[t] = x
      BY PutAt, SMTT(60)
    <3> QED
      BY <2>4, <3>1, <3>2, ZenonT(60)
  <2> QED
    BY <1>2, <1>7, <2>1, <2>4, <2>5, ZenonT(60) DEF NewTable
<1>8. CASE reg' = reg /\ pc' = "panic"
  BY <1>2, <1>8, ZenonT(60) DEF SameEnum
<1> QED
  BY <1>1, <1>7, <1>8, ZenonT(60)

\* The enumerations that kmip20.Register adds are those of other tags.
LEMMA KeepsRegister20 ==
  ASSUME DInv, KInv, Register20
  PROVE  SameEnum /\ shared' = shared /\ pc' = "kmip20" /\ reg'.tags = reg.tags
<1> DEFINE a == TagOf["AttributeReference"]
           b == TagOf["ExtensionType"]
           t == TagOf[shared]
           r == RegisterEnum(reg, a, AllTags(reg))
<1>1. shared' = shared /\ pc' = "kmip20" /\ reg' = RegisterEnum(r, b, TypesRef) /\ pc = "kmip14"
  BY ZenonT(60) DEF Register20, Leaves, Enter
<1>2. a # t /\ b # t
  <2>1. SharedIs
    BY ZenonT(60) DEF KInv
  <2>2. shared # "AttributeReference" /\ shared # "ExtensionType"
    BY <2>1, ZenonT(60) DEF SharedIs
  <2> QED
    BY <2>1, <2>2, ZenonT(60) DEF SharedIs
<1>3. IsRegistry(reg)
  BY ZenonT(60) DEF DInv
<1>4. IsRegistry(r) /\ r.tags = reg.tags /\ r.enums = Put(reg.enums, a, AllTags(reg))
  BY <1>3, RegisterIs, SMTT(60)
<1> HIDE DEF r, a, b, t
<1>5. reg'.tags = r.tags /\ reg'.enums = Put(r.enums, b, TypesRef)
  BY <1>1, <1>4, RegisterIs, SMTT(60)
<1>6. PICK f, g, h, x, y, z : f = reg.enums /\ g = r.enums /\ h = reg'.enums /\ x = a /\ y = b /\ z = t
  BY ZenonT(60)
<1>7. PICK u, w : u = AllTags(reg) /\ w = TypesRef
  BY ZenonT(60)
<1>8. g = Put(f, x, u) /\ h = Put(g, y, w) /\ z # x /\ z # y
  BY <1>2, <1>4, <1>5, <1>6, <1>7, ZenonT(60)
<1>9. /\ z \in DOMAIN g <=> z \in DOMAIN f
      /\ z \in DOMAIN f => g[z] = f[z]
  BY <1>8, PutOther, SMTT(60)
<1>10. /\ z \in DOMAIN h <=> z \in DOMAIN g
       /\ z \in DOMAIN g => h[z] = g[z]
  BY <1>8, PutOther, SMTT(60)
<1> QED
  BY <1>1, <1>4, <1>5, <1>6, <1>9, <1>10, ZenonT(60) DEF SameEnum, t

\* The steps of kmip14 and kmip20.
LEMMA PackageStep ==
  ASSUME DInv, KInv, Next, pc \in {"kmip14", "kmip20"}
  PROVE  /\ SameEnum \/ NewTable
         /\ shared' = shared
         /\ pc' = pc \/ pc' = "kmip20" \/ pc' \notin {"kmip14", "kmip20"}
         /\ pc' # pc => SameEnum
         /\ SharedName \in DOMAIN reg'.tags.nameToValue => reg'.tags.nameToValue[SharedName] = TagOf[shared]
<1>1. SharedName \in DOMAIN reg.tags.nameToValue => reg.tags.nameToValue[SharedName] = TagOf[shared]
  BY ZenonT(60) DEF KInv
<1>2. CASE RegisterOneTag
  BY <1>2, KeepsOneTag, ZenonT(60)
<1>3. CASE RegisterOneEnum
  <2>1. /\ SameEnum \/ NewTable
        /\ shared' = shared /\ (pc' = pc \/ pc' = "panic") /\ reg'.tags = reg.tags
    BY <1>3, KeepsOneEnum, ZenonT(60)
  <2>2. pc' = "panic" => SameEnum
    <3>1. pc' = "panic" => reg' = reg
      BY <1>3, ZenonT(60) DEF RegisterOneEnum
    <3> QED
      BY <3>1, ZenonT(60) DEF SameEnum
  <2> QED
    BY <1>1, <2>1, <2>2, ZenonT(60)
<1>4. CASE Register20
  BY <1>1, <1>4, KeepsRegister20, ZenonT(60)
<1>5. CASE RegisterCustom
  <2>1. reg' = reg /\ shared' = shared /\ pc' = "custom"
    BY <1>5, ZenonT(60) DEF RegisterCustom, Enter
  <2>2. SameEnum
    BY <2>1, ZenonT(60) DEF SameEnum
  <2> QED
    BY <1>1, <2>1, <2>2, ZenonT(60)
<1>6. ASSUME ReadSpec \/ Generate \/ Start PROVE FALSE
  BY <1>6, ZenonT(60) DEF ReadSpec, Generate, Start
<1>7. ASSUME UseEnum \/ UseInt \/ UseTag \/ UseAttributeName \/ UseText PROVE FALSE
  <2>1. \E what, tag, v, text, back : Used(what, tag, v, text, back)
    BY <1>7, UsesAreUses, ZenonT(60)
  <2> QED
    BY <2>1, ZenonT(60) DEF Used, Leaves
<1> QED
  BY <1>2, <1>3, <1>4, <1>5, <1>6, <1>7, ZenonT(60) DEF Next

\* Such a step keeps the names of the values.
LEMMA PackageKeeps ==
  ASSUME TablesAgree, KInv, SameEnum \/ NewTable, pc \in {"kmip14", "kmip20"}
  PROVE  KeepsAll(EnumForTag(reg, TagOf[shared]), EnumForTag(reg', TagOf[shared]))
<1>1. PICK t, a, b, r, q : t = TagOf[shared] /\ a = Table14[shared] /\ b = Table20[shared] /\ r = reg /\ q = reg'
  BY ZenonT(60)
<1>2. DOMAIN a \subseteq DOMAIN b /\ \A v \in DOMAIN a : a[v] = b[v]
  BY <1>1, ZenonT(60) DEF TablesAgree, KInv, SharedIs
<1>3. t \in DOMAIN r.enums => \/ r.enums[t] = Own(TableEnum(a))
                              \/ pc = "kmip20" /\ r.enums[t] = Own(TableEnum(b))
  BY <1>1, ZenonT(60) DEF KInv
<1>4. /\ KeepsAll(TableEnum(a), TableEnum(a)) /\ KeepsAll(TableEnum(b), TableEnum(b))
      /\ KeepsAll(TableEnum(a), TableEnum(b)) /\ \A e : KeepsAll(NewEnum(FALSE), e)
  BY <1>2, TableKeeps, ZenonT(60)
<1>5. /\ t \notin DOMAIN r.enums => EnumForTag(r, t) = NewEnum(FALSE)
      /\ \A e : t \in DOMAIN r.enums /\ r.enums[t] = Own(e) => EnumForTag(r, t) = e
  BY EnumForTagIs, ZenonT(60)
<1>6. /\ t \notin DOMAIN q.enums => EnumForTag(q, t) = NewEnum(FALSE)
      /\ \A e : t \in DOMAIN q.enums /\ q.enums[t] = Own(e) => EnumForTag(q, t) = e
  BY EnumForTagIs, ZenonT(60)
<1>7. KeepsAll(EnumForTag(r, t), EnumForTag(q, t))
  <2>1. CASE t \notin DOMAIN r.enums
    BY <1>4, <1>5, <2>1, ZenonT(60)
  <2>2. CASE t \in DOMAIN r.enums /\ SameEnum
    <3>1. t \in DOMAIN q.enums /\ q.enums[t] = r.enums[t]
      BY <1>1, <2>2, ZenonT(60) DEF SameEnum
    <3> QED
      BY <1>3, <1>4, <1>5, <1>6, <2>2, <3>1, ZenonT(60)
  <2>3. CASE t \in DOMAIN r.enums /\ NewTable
    <3>1. t \in DOMAIN q.enums /\ q.enums[t] = Own(TableEnum(TableOf(pc)[shared]))
      BY <1>1, <2>3, ZenonT(60) DEF NewTable
    <3>2. CASE pc = "kmip14"
      <4>1. TableOf(pc)[shared] = a
        BY <1>1, <3>2, ZenonT(60) DEF TableOf
      <4>2. q.enums[t] = Own(TableEnum(a)) /\ r.enums[t] = Own(TableEnum(a))
        BY <1>3, <2>3, <3>1, <3>2, <4>1, ZenonT(60)
      <4> QED
        BY <1>4, <1>5, <1>6, <2>3, <3>1, <4>2, ZenonT(60)
    <3>3. CASE pc = "kmip20"
      <4>1. TableOf(pc)[shared] = b
        BY <1>1, <3>3, ZenonT(60) DEF TableOf
      <4>2. EnumForTag(q, t) = TableEnum(b)
        BY <1>6, <3>1, <4>1, ZenonT(60)
      <4>3. EnumForTag(r, t) = TableEnum(a) \/ EnumForTag(r, t) = TableEnum(b)
        BY <1>3, <1>5, <2>3, ZenonT(60)
      <4> QED
        BY <1>4, <4>2, <4>3, ZenonT(60)
    <3> QED
      BY <3>2, <3>3, ZenonT(60)
  <2> QED
    BY <2>1, <2>2, <2>3, ZenonT(60)
<1> QED
  BY <1>1, <1>7, ZenonT(60)

\* The invariant about the shared tag.
LEMMA KInvHolds ==
  /\ Init => KInv
  /\ DInv /\ KInv /\ [Next]_vars => KInv'
<1>1. Init => KInv
  BY SharedInit, ZenonT(60) DEF Init, KInv
<1>2. ASSUME DInv, KInv, [Next]_vars PROVE KInv'
  <2>1. shared' = shared
    BY <1>2, ZenonT(60) DEF Next, vars, ReadSpec, Generate, Start, Register20, RegisterCustom, RegisterOneTag,
       RegisterOneEnum, UseEnum, UseInt, UseTag, UseAttributeName, UseText, Used, Enter
  <2>2. SharedIs'
    BY <1>2, <2>1, ZenonT(60) DEF KInv, SharedIs
  <2>3. SharedName' = SharedName
    BY <2>1, ZenonT(60) DEF SharedName
  <2>4. CASE pc' \notin {"kmip14", "kmip20"}
    BY <2>2, <2>4, ZenonT(60) DEF KInv
  <2>5. CASE UNCHANGED vars
    BY <1>2, <2>2, <2>3, <2>5, ZenonT(60) DEF KInv, vars
  <2>6. CASE Next /\ pc \in {"kmip14", "kmip20"} /\ pc' \in {"kmip14", "kmip20"}
    <3>1. /\ SameEnum \/ NewTable
          /\ pc' = pc \/ pc' = "kmip20"
          /\ pc' # pc => SameEnum
          /\ SharedName \in DOMAIN reg'.tags.nameToValue => reg'.tags.nameToValue[SharedName] = TagOf[shared]
      BY <1>2, <2>6, PackageStep, ZenonT(60)
    <3>2. PICK t, a, b, f, g : /\ t = TagOf[shared] /\ a = Own(TableEnum(Table14[shared]))
                               /\ b = Own(TableEnum(Table20[shared])) /\ f = reg.enums /\ g = reg'.enums
      BY ZenonT(60)
    <3>3. t \in DOMAIN f => f[t] = a \/ (pc = "kmip20" /\ f[t] = b)
      BY <1>2, <2>6, <3>2, ZenonT(60) DEF KInv
    <3>4. t \in DOMAIN g => g[t] = a \/ (pc' = "kmip20" /\ g[t] = b)
      <4>1. CASE SameEnum
        <5>1. (t \in DOMAIN g <=> t \in DOMAIN f) /\ (t \in DOMAIN f => g[t] = f[t])
          BY <3>2, <4>1, ZenonT(60) DEF SameEnum
        <5>2. pc = "kmip20" => pc' = "kmip20"
          BY <3>1, ZenonT(60)
        <5> QED
          BY <3>3, <5>1, <5>2, ZenonT(60)
      <4>2. CASE NewTable /\ pc' = pc
        <5>1. g[t] = Own(TableEnum(TableOf(pc)[shared]))
          BY <3>2, <4>2, ZenonT(60) DEF NewTable
        <5>2. CASE pc = "kmip14"
          <6>1. TableOf(pc) = Table14
            BY <5>2, ZenonT(60) DEF TableOf
          <6> QED
            BY <3>2, <5>1, <6>1, ZenonT(60)
        <5>3. CASE pc = "kmip20"
          <6>1. TableOf(pc) = Table20
            BY <5>3, ZenonT(60) DEF TableOf
          <6> QED
            BY <3>2, <4>2, <5>1, <5>3, <6>1, ZenonT(60)
        <5> QED
          BY <2>6, <5>2, <5>3, ZenonT(60)
      <4> QED
        BY <3>1, <4>1, <4>2, ZenonT(60)
    <3> QED
      BY <2>1, <2>2, <2>3, <3>1, <3>2, <3>4, ZenonT(60) DEF KInv
  <2>7. CASE Next /\ pc \notin {"kmip14", "kmip20"} /\ pc' \in {"kmip14", "kmip20"}
    <3>1. Start
      <4>1. ~(ReadSpec \/ Generate)
        BY <2>7, ZenonT(60) DEF ReadSpec, Generate
      <4>2. ~(Register20 \/ RegisterCustom)
        BY <2>7, ZenonT(60) DEF Register20, RegisterCustom, Leaves
      <4>3. ~(RegisterOneTag \/ RegisterOneEnum)
        BY <2>7, ZenonT(60) DEF RegisterOneTag, RegisterOneEnum
      <4>4. ~(UseEnum \/ UseInt \/ UseTag \/ UseAttributeName \/ UseText)
        BY <2>7, ZenonT(60) DEF UseEnum, UseInt, UseTag, UseAttributeName, UseText, Used
      <4> QED
        BY <2>7, <4>1, <4>2, <4>3, <4>4, ZenonT(60) DEF Next
    <3>2. reg' = RegisterType(EmptyRegistry, TypeInteger, <<"A", "a">>)
      BY <3>1, ZenonT(60) DEF Start
    <3>3. PICK x : x = <<"A", "a">>
      BY ZenonT(60)
    <3>4. reg'.tags = EmptyRegistry.tags /\ reg'.enums = EmptyRegistry.enums
      BY <3>2, <3>3, EmptyRegistryIs, RegisterIs, SMTT(60)
    <3>5. DOMAIN reg'.tags.nameToValue = {} /\ DOMAIN reg'.enums = {}
      <4>1. DOMAIN EmptyRegistry.tags.nameToValue = {}
        BY EmptyRegistryIs, ZenonT(60) DEF IsRegistry, IsTable
      <4> QED
        BY <3>4, <4>1, EmptyRegistryIs, ZenonT(60)
    <3> QED
      BY <2>2, <3>5, ZenonT(60) DEF KInv
  <2> QED
    BY <1>2, <2>4, <2>5, <2>6, <2>7, ZenonT(60)
<1> QED
  BY <1>1, <1>2, ZenonT(60)

\* If the tables of kmip20 have the values of those of kmip14 under the same
\* names, no value that had a name loses or changes it while kmip20.Register
\* puts them in place, for every tag that both packages have and in every order
\* of registration.  That the generated tables are such is for TLC to see.
THEOREM DefinitionsKeepsNames == TablesAgree => (Spec => KeepsNames)
<1> DEFINE Step == pc = "kmip14" \/ pc = "kmip20" =>
                     LET old == EnumForTag(reg, TagOf[shared])
                         new == EnumForTag(reg, TagOf[shared])'
                     IN  \A v \in DOMAIN old.valuesToName :
                           /\ HasName(new, v) /\ new.valuesToName[v] = old.valuesToName[v]
                           /\ new.valuesToCanonicalName[v] = old.valuesToCanonicalName[v]
<1> SUFFICES ASSUME TablesAgree PROVE Spec => KeepsNames
  OBVIOUS
<1>1. DInv /\ KInv /\ [Next]_vars => [Step]_vars
  <2> SUFFICES ASSUME DInv, KInv, Next, pc \in {"kmip14", "kmip20"}
               PROVE  KeepsAll(EnumForTag(reg, TagOf[shared]), EnumForTag(reg, TagOf[shared])')
    BY ZenonT(60) DEF KeepsAll
  <2>1. (SameEnum \/ NewTable) /\ shared' = shared
    BY PackageStep, ZenonT(60)
  <2>2. KeepsAll(EnumForTag(reg, TagOf[shared]), EnumForTag(reg', TagOf[shared]))
    BY <2>1, PackageKeeps, ZenonT(60)
  <2>3. EnumForTag(reg, TagOf[shared])' = EnumForTag(reg', TagOf[shared])
    BY <2>1, ZenonT(60)
  <2> QED
    BY <2>2, <2>3, ZenonT(60)
<1> QED
  BY <1>1, DInvInit, DInvNext, KInvHolds, PTL DEF Spec, KeepsNames
====
