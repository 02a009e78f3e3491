------------------------------ MODULE Encoding ------------------------------
(***************************************************************************)
(* A ttlv.Encoder (ttlv/encoder.go) under any sequence of calls.  Values   *)
(* are appended to encBuf, the length of a structure is patched in when it *)
(* ends, errors unwind the open calls, and Flush moves encBuf to the       *)
(* writer.                                                                 *)
(*                                                                         *)
(* A leaf is a value other than a structure, given by its type and by the  *)
(* bytes that its encode method writes between begin and end.              *)
(***************************************************************************)
EXTENDS Wire, FiniteSets

CONSTANTS
  Tags,       \* the tags that occur
  Leaves,     \* the leaves that occur
  MaxCalls,   \* bound: nested calls
  MaxValues   \* bound: values and structures encoded

\* The lengths are the ones the encode methods produce: a fixed width, or for
\* big integers a multiple of eight.
ASSUME LeavesAssumption ==
  \A l \in Leaves :
    /\ l.raw \in Seq(Nat)
    /\ l.type \in IntTypes => Len(l.raw) = lenInt
    /\ l.type \in LongTypes => Len(l.raw) = lenLongInt
    /\ l.type = TypeBigInteger => Len(l.raw) % 8 = 0
    /\ l.type \in (TypeStructure + 1) .. TypeDateTimeExtended

ASSUME TagsAssumption == Tags \subseteq Nat

VARIABLES
  encBuf,       \* the bytes not yet flushed
  encodeDepth,  \* structures begun and not ended
  calls,        \* the calls that are active, outermost first
  failing,      \* the innermost call is about to return an error
  out,          \* the bytes the writer got
  values,       \* history: per open structure, the values in it so far
  sent,         \* history: the values flushed
  count         \* values begun, for the bound

vars == <<encBuf, encodeDepth, calls, failing, out, values, sent, count>>

(***************************************************************************)
(* The calls during which others are made: encode of a struct, of a slice  *)
(* and of a Marshaler, and EncodeStructure by a user of the package, whose *)
(* f is user code as the Marshaler is.  pos is what begin returned, 0 if   *)
(* the call has no header.  flush says that the caller is EncodeValue.     *)
(***************************************************************************)
UserCalls   == {"structure", "marshaler"}
HeaderCalls == {"structure", "struct"}
TagNone     == 0
Call == [kind : UserCalls \cup {"struct", "slice"}, pos : Nat, tag : Tags \cup {TagNone}, flush : BOOLEAN]

Top == calls[Len(calls)]

\* The next call is made by user code, and not by encode itself.
UserCode == calls # <<>> => Top.kind \in UserCalls

Init ==
  /\ encBuf = <<>>
  /\ encodeDepth = 0
  /\ calls = <<>>
  /\ failing = FALSE
  /\ out = <<>>
  /\ values = << <<>> >>
  /\ sent = <<>>
  /\ count = 0

----------------------------------------------------------------------------
(***************************************************************************)
(* encBuf.                                                                 *)
(***************************************************************************)

\* begin: the header, with the length still zero.  It returns the length of
\* the buffer.
Begin(b, tag, typ) == b \o BigEndian(tag, lenTag) \o <<typ>> \o Zeros(lenLen)

\* b with n written into the length field of the header that ends at i.
PutLen(b, i, n) ==
  [j \in 1 .. Len(b) |-> IF j \in i - lenLen + 1 .. i THEN BigEndian(n, lenLen)[j - (i - lenLen)] ELSE b[j]]

\* Variant: the length goes to the start of the buffer.
EndPatchesFirst(b, i) ==
  LET n == Len(b) - i
  IN  PutLen(b \o Zeros(Padding(n)), lenHeader, n)

\* Variant: no padding.
EndUnpadded(b, i) == PutLen(b, i, Len(b) - i)

\* end: fill up to a multiple of eight, and write the length without the
\* padding into the header.
End(b, i) ==
  LET n == Len(b) - i
  IN  PutLen(b \o Zeros(Padding(n)), i, n)

\* encodeInt and the other encode methods: a whole leaf.
EncodedLeaf(b, tag, l) == End(Begin(b, tag, l.type) \o l.raw, Len(b) + lenHeader)

----------------------------------------------------------------------------
(***************************************************************************)
(* Flush, and the end of a call.                                           *)
(***************************************************************************)

\* The buffer and the history become b and vs.
Keep(b, vs) ==
  /\ encBuf' = b
  /\ values' = vs
  /\ UNCHANGED <<out, sent>>

\* Flush with b in encBuf: nothing happens inside a structure.
Flush(b, vs) ==
  \/ /\ encodeDepth' > 0
     /\ Keep(b, vs)
  \/ /\ encodeDepth' = 0
     /\ out' = out \o b
     /\ encBuf' = <<>>
     /\ sent' = sent \o vs[1]
     /\ values' = [vs EXCEPT ![1] = <<>>]

\* A call has left b in encBuf.  EncodeValue flushes unless there was an error.
Leave(b, vs, flush) == IF flush THEN Flush(b, vs) ELSE Keep(b, vs)

\* vs with the node v added to the innermost open structure.
Added(vs, v) == [vs EXCEPT ![Len(vs)] = Append(@, v)]

LeafNode(tag, l)      == [tag |-> tag, type |-> l.type, raw |-> l.raw, kids |-> <<>>]
StructNode(tag, kids) == [tag |-> tag, type |-> TypeStructure, raw |-> <<>>, kids |-> kids]

----------------------------------------------------------------------------
(***************************************************************************)
(* The calls.                                                              *)
(***************************************************************************)

\* Encode<Type> by user code: no flush.  EncodeValue, or encode from inside
\* a struct or slice, of a leaf or of a TTLV: a flush by EncodeValue.
EncodeLeaf(tag, l, flush) ==
  /\ ~failing
  /\ flush => UserCode
  /\ count < MaxValues
  /\ count' = count + 1
  /\ encodeDepth' = encodeDepth
  /\ Leave(EncodedLeaf(encBuf, tag, l), Added(values, LeafNode(tag, l)), flush)
  /\ UNCHANGED <<calls, failing>>

\* An explicit Flush, or EncodeValue of nil or of an empty value that is
\* omitted.
CallFlush ==
  /\ ~failing
  /\ UserCode
  /\ encodeDepth' = encodeDepth
  /\ Flush(encBuf, values)
  /\ UNCHANGED <<calls, failing, count>>

\* A value cannot be encoded (or user code fails otherwise): nothing is
\* written and the innermost call returns the error.
Refuse ==
  /\ calls # <<>>
  /\ ~failing
  /\ failing' = TRUE
  /\ UNCHANGED <<encBuf, encodeDepth, calls, out, values, sent, count>>

\* EncodeStructure up to the call of f, by user code or for a struct.
BeginStructure(tag, kind) ==
  /\ ~failing
  /\ kind = "structure" => UserCode
  /\ count < MaxValues
  /\ Len(calls) < MaxCalls
  /\ count' = count + 1
  /\ encodeDepth' = encodeDepth + 1
  /\ encBuf' = Begin(encBuf, tag, TypeStructure)
  /\ calls' = Append(calls, [kind |-> kind, pos |-> Len(encBuf) + lenHeader, tag |-> tag,
                             flush |-> kind = "struct" /\ UserCode])
  /\ values' = Append(values, <<>>)
  /\ UNCHANGED <<failing, out, sent>>

\* encode of a slice or of a Marshaler: its elements, or what MarshalTTLV
\* encodes, follow without a header.
BeginSequence(kind) ==
  /\ ~failing
  /\ Len(calls) < MaxCalls
  /\ calls' = Append(calls, [kind |-> kind, pos |-> 0, tag |-> TagNone, flush |-> UserCode])
  /\ UNCHANGED <<encBuf, encodeDepth, failing, out, values, sent, count>>

\* An error reaches the caller of the innermost call.  User code may pass it
\* on or drop it, a struct or a slice passes it on.
ErrorReturned ==
  LET n == Len(calls) - 1
  IN  failing' \in IF ~failing \/ n = 0 THEN {FALSE}
                   ELSE IF calls[n].kind \in UserCalls THEN BOOLEAN ELSE {TRUE}

\* f has returned, with or without an error: the structure is ended.
EndStructure ==
  LET vs == Added(SubSeq(values, 1, Len(values) - 1), StructNode(Top.tag, values[Len(values)]))
  IN
  /\ calls # <<>>
  /\ Top.kind \in HeaderCalls
  /\ encodeDepth' = encodeDepth - 1
  /\ Leave(End(encBuf, Top.pos), vs, Top.flush /\ ~failing)
  /\ calls' = SubSeq(calls, 1, Len(calls) - 1)
  /\ ErrorReturned
  /\ UNCHANGED count

\* The end of a slice or of MarshalTTLV.
EndSequence ==
  /\ calls # <<>>
  /\ Top.kind \notin HeaderCalls
  /\ encodeDepth' = encodeDepth
  /\ Leave(encBuf, values, Top.flush /\ ~failing)
  /\ calls' = SubSeq(calls, 1, Len(calls) - 1)
  /\ ErrorReturned
  /\ UNCHANGED count

Next ==
  \/ \E tag \in Tags, l \in Leaves, flush \in BOOLEAN : EncodeLeaf(tag, l, flush)
  \/ CallFlush
  \/ Refuse
  \/ \E tag \in Tags, kind \in HeaderCalls : BeginStructure(tag, kind)
  \/ \E kind \in {"slice", "marshaler"} : BeginSequence(kind)
  \/ EndStructure
  \/ EndSequence

Spec == Init /\ [][Next]_vars

----------------------------------------------------------------------------
(***************************************************************************)
(* Properties.                                                             *)
(***************************************************************************)

\* The calls that have a header in encBuf.
Open == {i \in 1 .. Len(calls) : calls[i].kind \in HeaderCalls}

\* The buffers are sequences of naturals, encodeDepth never falls below zero, and
\* the pending calls are of the kinds that encode and EncodeStructure make.
TypeOK ==
  /\ encBuf \in Seq(Nat) /\ out \in Seq(Nat)
  /\ encodeDepth \in Nat /\ count \in Nat
  /\ calls \in Seq(Call)
  /\ failing \in BOOLEAN

\* Everything lies on multiples of eight, where FullLen and Next look for the
\* next value: what was written, what waits in encBuf between two calls, and
\* the content of every structure that EncodeStructure has open, whatever was
\* encoded in it.
Aligned ==
  /\ Len(out) % 8 = 0 /\ Len(encBuf) % 8 = 0
  /\ \A i \in Open : calls[i].pos % 8 = 0

\* The headers of the open structures lie in encBuf, an inner one behind an
\* outer one, so that end writes into the header of its own structure; and
\* encodeDepth counts them, also after errors have unwound some of them.
Nested ==
  /\ encodeDepth = Cardinality(Open)
  /\ \A i \in Open : lenHeader <= calls[i].pos /\ calls[i].pos <= Len(encBuf)
  /\ \A i, j \in Open : i < j => calls[i].pos + lenHeader <= calls[j].pos

FlushStep == out' # out => Open' = {}

PatchStep ==
  \/ encBuf' = <<>>
  \/ /\ Len(encBuf) <= Len(encBuf')
     /\ \A j \in 1 .. Len(encBuf) :
          encBuf'[j] = encBuf[j] \/ (calls' # calls /\ j \in Top.pos - lenLen + 1 .. Top.pos)

\* Flush hands nothing to the writer while EncodeStructure has a structure
\* open whose length is still to come.
WholeStructures == [][FlushStep]_vars

\* A byte in encBuf stays what it is until it is flushed, except for the
\* length of the structure that ends: end patches nothing else.
PatchesOwnLength == [][PatchStep]_vars

\* The inductive invariant.
IInv == TypeOK /\ Aligned /\ Nested
=============================================================================
