------------------------------ MODULE MCValues ------------------------------
(***************************************************************************)
(* Single values (MCScalars), or structs: those of the repository, and     *)
(* small ones for the rules of tags.                                       *)
(***************************************************************************)
EXTENDS MCScalars, Structs, StructTypes

Own(name, type, ttlv, flags) == <<[name |-> name, type |-> type, ttlv |-> ttlv, flags |-> flags]>>

\* A struct with a tag of its own, one that carries its tag, and one with a name
\* that is a tag.
Tagged  == Own("TTLVTag", Struct(""), "B", {}) \o Of(Int_, <<"A">>)
Carries == Own("TTLVTag", <<"tag">>, "", {}) \o Of(Int_, <<"A">>)
B       == Of(Int_, <<"A">>)

\* The first and the second field of the small structs.
FirstFields == <<
  Own("A", String_, "", {}), Own("A", String_, "B", {}), Own("A", String_, "Bad", {}),
  Own("A", Int_, "", {"enum"}), Own("A", Int_, "", {"any"}), Own("A", Int_, "B", {"any"}),
  Own("A", Int_, "-", {}), Own("A", Int_, "", {"hidden"}), Own("A", Slice(Int_), "", {}),
  Own("A", Struct("Tagged"), "", {}), Own("A", Struct("Tagged"), "B", {}),
  Own("A", Struct("Tagged"), "C", {}), Own("A", Struct("Tagged"), "", {"enum"}),
  Own("A", Ptr(Struct("Tagged")), "", {}), Own("A", Ptr(Struct("Carries")), "", {}),
  Own("A", Struct("Carries"), "C", {}), Own("A", Interface, "", {}), Own("A", <<"dateext">>, "", {}),
  Own("A", Slice(<<"Value">>), "", {}), Own("A", Time, "", {"datetimeextended", "omitempty"})>>

SecondFields == <<
  Own("B", String_, "", {}), Own("B", Int_, "A", {"omitempty"}), Own("B", Struct("B"), "", {}),
  Own("X", Int_, "", {"omitempty"}), Own("X", String_, "A", {}), Own("X", Interface, "", {"any"}),
  Own("X", Values_, "", {"any"}), Own("TTLVTag", Struct(""), "C", {}), Own("TTLVTag", <<"tag">>, "", {})>>

SmallName(i, j) == <<"C", ToString(i), ToString(j)>>

\* All struct types.  C is the name of a tag.
MCDeclared ==
  Declared
  \cup {<<<<"Tagged">>, Tagged>>, <<<<"Carries">>, Carries>>, <<<<"B">>, B>>}
  \cup {<<SmallName(i, j), FirstFields[i] \o SecondFields[j]>> :
          i \in DOMAIN FirstFields, j \in DOMAIN SecondFields}

MCDecl ==
  LET declared == MCDeclared
  IN  [n \in {d[1] : d \in declared} |-> (CHOOSE d \in declared : d[1] = n)[2]]

\* The names of fields, and of the types that no field is named after.
MCTagNames ==
  LET names == UNION {{d[2][i].name : i \in DOMAIN d[2]} : d \in Declared}
  IN  (names \ {"AlternativeFailoverEndpoints", "VendorSpecific", "TTLVTag", "Values"})
      \cup {"RequestMessage", "ResponseMessage", "Credential", "PGPKey", "DerivationData", "A", "B", "C"}

MCTagEnums ==
  [t \in {"UniqueIdentifier", "ExtensionType", "AsynchronousIndicator", "B"} |-> "enum"]

\* Something in a variable of a type, in up to four ways, and structs within
\* structs to some depth.
RECURSIVE Sample(_, _, _)
Sample(type, k, depth) ==
  LET ref == type[1]
      Num(kind, n)  == [kind |-> kind, n |-> n, s |-> <<>>]
      Text(kind, s) == [kind |-> kind, n |-> 0, s |-> s]
      AValue(tag, v) == [kind |-> "Value", tag |-> tag, v |-> v]
  IN  CASE ref = "ptr"    -> Sample(Tail(type), k, depth)
        [] ref = "slice"  -> [kind |-> "slice",
                              e |-> [i \in 1 .. (IF k > 2 THEN 2 ELSE k) |-> Sample(Tail(type), i, depth)]]
        [] ref = "struct" -> IF depth = 0 THEN ZeroOf(type) ELSE
                             LET z == ZeroOf(type)
                                 d == Decl[Tail(type)]
                             IN  [z EXCEPT !.f = [n \in DOMAIN z.f |->
                                    Sample(d[CHOOSE i \in DOMAIN d : d[i].name = n].type, k, depth - 1)]]
        [] ref = "string" -> Text("string", IF k = 2 THEN Known ELSE Word)
        [] ref = "bytes"  -> [kind |-> "bytes", n |-> 1, s |-> IF k = 3 THEN <<>> ELSE Word]
        [] ref = "time"   -> Num("time", 7 * k)
        [] ref = "dateext" -> Num("dateext", 7 * k)
        [] ref = "bool"   -> Num("bool", 1)
        [] ref = "tag"    -> [kind |-> "tag", tag |-> IF k = 1 THEN "C" ELSE "B"]
        [] ref = "uid"    -> [ZeroOf(type) EXCEPT !.text = IF k = 1 THEN Word ELSE <<>>,
                                                  !.enum = IF k = 2 THEN 3 ELSE 0,
                                                  !.index = IF k = 3 THEN 1 ELSE 0]
        [] ref = "Value"  -> AValue("A", Num("int32", k))
        [] ref = "Values" -> [kind |-> "Values",
                              e |-> <<AValue("C", Num("int32", k)),
                                      AValue("B", [kind |-> "Values", e |-> <<Sample(<<"Value">>, k, depth)>>])>>]
        [] ref = "iface"  -> IF k = 1 THEN Num("int32", 1)
                             ELSE IF k = 2 THEN Sample(Struct("ProtocolVersion"), 1, 1)
                             ELSE IF k = 3 THEN Sample(<<"Value">>, 1, 1)
                             ELSE [kind |-> "slice", e |-> <<Num("int32", 1), Num("int32", 2)>>]
        [] OTHER -> Num(ref, k)

\* How many ways are worth a try.
RECURSIVE Ways(_)
Ways(type) ==
  CASE type[1] \in {"ptr", "slice"} -> IF type[1] = "slice" THEN 2 ELSE Ways(Tail(type))
    [] type[1] \in {"string", "struct", "tag"} -> 2
    [] type[1] \in {"uid", "bytes"} -> 3
    [] type[1] = "iface" -> 4
    [] OTHER -> 1

\* A struct is empty or full, or has one field that is set.
StructValues(name) ==
  LET type == <<"struct">> \o name
      zero == ZeroOf(type)
      d    == Decl[name]
  IN  {zero, Sample(type, 1, 3), Sample(type, 2, 3)}
      \cup UNION {{[zero EXCEPT !.f[d[i].name] = Sample(d[i].type, k, 2)] : k \in 1 .. Ways(d[i].type)} : i \in DOMAIN d}

\* A struct without a tag is the payload of an item.
MCCases(name) ==
  LET tag == IF name[1] \in TagNames THEN TagNone ELSE "RequestPayload"
  IN  [type : {<<"struct">> \o name}, val : StructValues(name), tag : {tag}]

----------------------------------------------------------------------------
Idle ==
  /\ in = [v |-> Nil, flags |-> {}, reg |-> "none", tagged |-> FALSE]
  /\ pc = "done" /\ leaf = None /\ dest = "any" /\ back = Failed("none")

MCInit == (Init /\ Off) \/ (StructInit /\ Idle)

MCNext == (Next /\ UNCHANGED svars) \/ (StructNext /\ UNCHANGED vars)

MCSpec == MCInit /\ [][MCNext]_<<vars, svars>>
=============================================================================
