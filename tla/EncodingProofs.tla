--------------------------- MODULE EncodingProofs ---------------------------
(***************************************************************************)
(* Proofs about Encoding: alignment, nesting, and what Flush and end may   *)
(* touch, for all tags, leaves and depths.                                 *)
(***************************************************************************)
EXTENDS Encoding, Arithmetic, SequenceTheorems, TLAPS

\* The provers have a minute for every leaf that asks for no other.
USE SMTT(60), ZenonT(60)

\* PutUint32 and PutUint64 write k bytes.
LEMMA BigEndianBytes ==
  ASSUME NEW n \in Int, NEW k \in Nat
  PROVE  BigEndian(n, k) \in Seq(Nat) /\ Len(BigEndian(n, k)) = k
<1>1. DigitsOf(n, ByteBits, k) \in Seq(0 .. 2 ^ ByteBits - 1) /\ Len(DigitsOf(n, ByteBits, k)) = k
  <2>1. ByteBits \in Nat
    BY ByteAssumption
  <2> QED
    BY <2>1, DigitsType, Zenon
<1>2. 2 ^ ByteBits - 1 \in Int
  BY ByteAssumption, PowerPositive
<1>3. \A m \in Int : \A s \in Seq(0 .. m) : s \in Seq(Nat)
  OBVIOUS
<1> QED
  BY <1>1, <1>2, <1>3, Zenon DEF BigEndian

\* Padding leads to the next multiple of eight.
LEMMA PaddingAligns ==
  ASSUME NEW n \in Nat
  PROVE  Padding(n) \in Nat /\ (n + Padding(n)) % 8 = 0
BY DEF Padding

\* Multiples of eight add up to one.
LEMMA SumAligned ==
  ASSUME NEW x \in Nat, NEW y \in Nat, x % 8 = 0, y % 8 = 0
  PROVE  (x + y) % 8 = 0
OBVIOUS

\* The order of lengths.
LEMMA Transitive ==
  ASSUME NEW x \in Nat, NEW y \in Nat, NEW z \in Nat, x <= y, y <= z
  PROVE  x <= z
OBVIOUS

\* Bytes that are appended keep the ones before them.
LEMMA Appended ==
  ASSUME NEW b \in Seq(Nat), NEW c \in Seq(Nat)
  PROVE  /\ b \o c \in Seq(Nat) /\ Len(b \o c) = Len(b) + Len(c)
         /\ \A j \in 1 .. Len(b) : (b \o c)[j] = b[j]
OBVIOUS

\* begin adds a header and keeps what was there.
LEMMA BeginBytes ==
  ASSUME NEW b \in Seq(Nat), NEW tag \in Nat, NEW typ \in Nat
  PROVE  /\ Begin(b, tag, typ) \in Seq(Nat)
         /\ Len(Begin(b, tag, typ)) = Len(b) + lenHeader
         /\ \A j \in 1 .. Len(b) : Begin(b, tag, typ)[j] = b[j]
<1>1. BigEndian(tag, lenTag) \in Seq(Nat) /\ Len(BigEndian(tag, lenTag)) = 3
  <2>1. tag \in Int /\ lenTag \in Nat /\ lenTag = 3
    BY DEF lenTag
  <2> QED
    BY <2>1, BigEndianBytes, Zenon
<1>2. Zeros(lenLen) \in Seq(Nat) /\ Len(Zeros(lenLen)) = 4
  BY DEF Zeros, lenLen
<1>3. PICK t \in Seq(Nat), z \in Seq(Nat), y \in Seq(Nat) :
        /\ Len(t) = 3 /\ Len(z) = 4 /\ Len(y) = 1
        /\ Begin(b, tag, typ) = b \o t \o y \o z
  <2>1. <<typ>> \in Seq(Nat) /\ Len(<<typ>>) = 1
    OBVIOUS
  <2> QED
    BY <1>1, <1>2, <2>1, Zenon DEF Begin
<1>4. /\ b \o t \in Seq(Nat) /\ Len(b \o t) = Len(b) + Len(t)
      /\ \A j \in 1 .. Len(b) : (b \o t)[j] = b[j]
  BY Appended, Zenon
<1>5. PICK u \in Seq(Nat) : u = b \o t
  BY <1>4, Zenon
<1>6. /\ u \o y \in Seq(Nat) /\ Len(u \o y) = Len(u) + Len(y)
      /\ \A j \in 1 .. Len(u) : (u \o y)[j] = u[j]
  BY Appended, Zenon
<1>7. PICK v \in Seq(Nat) : v = u \o y
  BY <1>6, Zenon
<1>8. /\ v \o z \in Seq(Nat) /\ Len(v \o z) = Len(v) + Len(z)
      /\ \A j \in 1 .. Len(v) : (v \o z)[j] = v[j]
  BY Appended, Zenon
<1>9. Begin(b, tag, typ) = v \o z
  BY <1>3, <1>5, <1>7
<1>10. /\ Len(b) \in Nat /\ Len(u) = Len(b) + 3 /\ Len(v) = Len(u) + 1
       /\ Len(v \o z) = Len(v) + 4 /\ lenHeader = 8
  BY <1>3, <1>4, <1>5, <1>6, <1>7, <1>8 DEF lenHeader
<1>11. \A j \in 1 .. Len(b) : u[j] = b[j] /\ v[j] = u[j]
  BY <1>4, <1>5, <1>6, <1>7, <1>10
<1> QED
  BY <1>8, <1>9, <1>10, <1>11

\* end fills up to a multiple of eight and changes only the length field of
\* the header that ends at i.
LEMMA EndBytes ==
  ASSUME NEW b \in Seq(Nat), NEW i \in Nat, i <= Len(b), lenHeader <= i, i % 8 = 0
  PROVE  /\ End(b, i) \in Seq(Nat)
         /\ Len(b) <= Len(End(b, i))
         /\ Len(End(b, i)) % 8 = 0
         /\ \A j \in 1 .. Len(b) : End(b, i)[j] = b[j] \/ j \in i - lenLen + 1 .. i
<1> DEFINE n == Len(b) - i
           p == b \o Zeros(Padding(n))
<1>0. n \in Nat
  OBVIOUS
<1>1. n \in Nat /\ Padding(n) \in Nat /\ (n + Padding(n)) % 8 = 0
  BY <1>0, PaddingAligns, Zenon
<1>2. Zeros(Padding(n)) \in Seq(Nat) /\ Len(Zeros(Padding(n))) = Padding(n)
  BY <1>1 DEF Zeros
<1>3. /\ p \in Seq(Nat) /\ Len(p) = Len(b) + Padding(n)
      /\ \A j \in 1 .. Len(b) : p[j] = b[j]
  BY <1>1, <1>2, Appended, ZenonT(60)
<1>4. Len(p) % 8 = 0
  <2>1. Len(p) = i + (n + Padding(n))
    BY <1>1, <1>3
  <2> HIDE DEF n, p
  <2> DEFINE m == n + Padding(n)
  <2>2. m \in Nat /\ m % 8 = 0 /\ Len(p) = i + m
    <3>1. m \in Nat
      BY <1>1
    <3> QED
      BY <3>1, <1>1, <2>1, Zenon DEF m
  <2> HIDE DEF m
  <2> QED
    BY <2>2
<1>5. BigEndian(n, lenLen) \in Seq(Nat) /\ Len(BigEndian(n, lenLen)) = 4
  <2>1. n \in Int /\ lenLen \in Nat /\ lenLen = 4
    BY <1>0 DEF lenLen
  <2> HIDE DEF n
  <2> QED
    BY <2>1, BigEndianBytes, Zenon
<1>6. End(b, i) = PutLen(p, i, n)
  BY DEF End
<1> HIDE DEF n, p
<1>7. /\ PutLen(p, i, n) \in Seq(Nat) /\ Len(PutLen(p, i, n)) = Len(p)
      /\ \A j \in 1 .. Len(p) : PutLen(p, i, n)[j] = p[j] \/ j \in i - lenLen + 1 .. i
  <2> DEFINE e == BigEndian(n, lenLen)
             w == [j \in 1 .. Len(p) |-> IF j \in i - 4 + 1 .. i THEN e[j - (i - 4)] ELSE p[j]]
  <2>1. PutLen(p, i, n) = w
    BY DEF PutLen, lenLen
  <2> HIDE DEF e
  <2>2. \A j \in 1 .. Len(p) : w[j] \in Nat
    <3> SUFFICES ASSUME NEW j \in 1 .. Len(p) PROVE w[j] \in Nat
      OBVIOUS
    <3>1. CASE j \in i - 4 + 1 .. i
      <4>1. j - (i - 4) \in 1 .. 4
        BY <1>3, <3>1
      <4>2. e \in Seq(Nat) /\ Len(e) = 4
        BY <1>5 DEF e
      <4>3. \A k \in 1 .. 4 : e[k] \in Nat
        BY <4>2, ElementOfSeq, Zenon
      <4> QED
        BY <3>1, <4>1, <4>3
    <3>2. CASE j \notin i - 4 + 1 .. i
      BY <1>3, <3>2
    <3> QED
      BY <3>1, <3>2
  <2>3. Len(p) \in Nat
    BY <1>3
  <2> HIDE DEF w
  <2>4. w \in Seq(Nat) /\ Len(w) = Len(p)
    BY <2>2, <2>3 DEF w
  <2> QED
    BY <2>1, <2>4 DEF w, lenLen
<1> QED
  BY <1>1, <1>3, <1>4, <1>6, <1>7

\* An encode method adds a whole number of eights and keeps what was there.
LEMMA LeafBytes ==
  ASSUME NEW b \in Seq(Nat), Len(b) % 8 = 0, NEW tag \in Tags, NEW l \in Leaves
  PROVE  /\ EncodedLeaf(b, tag, l) \in Seq(Nat)
         /\ Len(b) <= Len(EncodedLeaf(b, tag, l))
         /\ Len(EncodedLeaf(b, tag, l)) % 8 = 0
         /\ \A j \in 1 .. Len(b) : EncodedLeaf(b, tag, l)[j] = b[j]
<1>1. tag \in Nat /\ l.raw \in Seq(Nat) /\ l.type \in Nat
  <2>1. l.raw \in Seq(Nat) /\ l.type \in (TypeStructure + 1) .. TypeDateTimeExtended
    BY LeavesAssumption, Zenon
  <2> QED
    BY TagsAssumption, <2>1 DEF TypeStructure, TypeDateTimeExtended
<1>2. PICK h \in Seq(Nat) :
        /\ h = Begin(b, tag, l.type)
        /\ Len(h) = Len(b) + lenHeader
        /\ \A j \in 1 .. Len(b) : h[j] = b[j]
  BY <1>1, BeginBytes, Zenon
<1>3. PICK c \in Seq(Nat) :
        /\ c = h \o l.raw
        /\ Len(c) = Len(h) + Len(l.raw)
        /\ \A j \in 1 .. Len(h) : c[j] = h[j]
  BY <1>1, Appended, Zenon
<1>4. PICK i \in Nat : i = Len(b) + lenHeader
  BY DEF lenHeader
<1>5. PICK n \in Nat, m \in Nat :
        /\ n = Len(b) /\ n % 8 = 0 /\ i = n + 8
        /\ Len(h) = n + 8 /\ Len(c) = n + 8 + m
  <2>1. Len(b) \in Nat /\ Len(l.raw) \in Nat
    BY <1>1, LenProperties, Zenon
  <2>2. lenHeader = 8
    BY DEF lenHeader
  <2> QED
    BY <1>2, <1>3, <1>4, <2>1, <2>2, Zenon
<1>6. i <= Len(c) /\ lenHeader <= i /\ i % 8 = 0 /\ Len(b) <= Len(c)
  BY <1>5 DEF lenHeader
<1>7. EncodedLeaf(b, tag, l) = End(c, i)
  BY <1>2, <1>3, <1>4 DEF EncodedLeaf
<1>8. /\ End(c, i) \in Seq(Nat) /\ Len(c) <= Len(End(c, i)) /\ Len(End(c, i)) % 8 = 0
      /\ \A j \in 1 .. Len(c) : End(c, i)[j] = c[j] \/ j \in i - lenLen + 1 .. i
  BY <1>6, EndBytes, Zenon
<1>9. ASSUME NEW j \in 1 .. Len(b)
      PROVE  End(c, i)[j] = b[j]
  <2>1. j \in 1 .. n /\ lenLen = 4
    BY <1>5 DEF lenLen
  <2>2. j \in 1 .. n + 8 /\ j \in 1 .. n + 8 + m /\ j \notin n + 8 - 4 + 1 .. n + 8
    BY <2>1
  <2>3. j \in 1 .. Len(h) /\ j \in 1 .. Len(c) /\ j \notin i - lenLen + 1 .. i
    <3>1. j \in 1 .. Len(h)
      BY <1>5, <2>2, Zenon
    <3>2. j \in 1 .. Len(c)
      BY <1>5, <2>2, Zenon
    <3>3. j \notin i - lenLen + 1 .. i
      <4>1. i = n + 8
        BY <1>5
      <4> QED
        BY <2>1, <2>2, <4>1
    <3> QED
      BY <3>1, <3>2, <3>3
  <2> QED
    BY <1>2, <1>3, <1>8, <2>3, Zenon
<1>10. Len(b) <= Len(End(c, i))
  <2>1. Len(End(c, i)) \in Nat
    BY <1>8, LenProperties, Zenon
  <2>2. n + 8 + m <= Len(End(c, i))
    BY <1>5, <1>8, Zenon
  <2> QED
    BY <1>5, <2>1, <2>2
<1> QED
  BY <1>7, <1>8, <1>9, <1>10, Zenon

----------------------------------------------------------------------------
(***************************************************************************)
(* The calls.                                                              *)
(***************************************************************************)

\* The end of the innermost call.
LEMMA Pop ==
  ASSUME calls \in Seq(Call), calls # <<>>, calls' = SubSeq(calls, 1, Len(calls) - 1)
  PROVE  /\ calls' \in Seq(Call) /\ calls' # calls
         /\ Open' = Open \ {Len(calls)}
         /\ \A i \in Open' : calls'[i] = calls[i]
<1>1. Len(calls) \in Nat \ {0}
  OBVIOUS
<1>2. /\ calls' \in Seq(Call) /\ Len(calls') = Len(calls) - 1
      /\ \A i \in 1 .. Len(calls) - 1 : calls'[i] = calls[i]
  <2> DEFINE m == 1
             n == Len(calls) - 1
  <2>1. m \in 1 .. Len(calls) + 1 /\ n \in m - 1 .. Len(calls) /\ n - m + 1 = Len(calls) - 1
    BY <1>1
  <2> QED
    BY <1>1, <2>1, SubSeqProperties
<1> QED
  BY <1>1, <1>2 DEF Open

\* The begin of a call.
LEMMA Push ==
  ASSUME calls \in Seq(Call), NEW c \in Call, calls' = Append(calls, c)
  PROVE  /\ calls' \in Seq(Call) /\ Len(calls) \in Nat
         /\ calls'[Len(calls) + 1] = c
         /\ Open' = IF c.kind \in HeaderCalls THEN Open \cup {Len(calls) + 1} ELSE Open
         /\ \A i \in Open : calls'[i] = calls[i] /\ i <= Len(calls)
<1>1. /\ Len(calls) \in Nat /\ calls' \in Seq(Call) /\ Len(calls') = Len(calls) + 1
      /\ calls'[Len(calls) + 1] = c
      /\ \A i \in 1 .. Len(calls) : calls'[i] = calls[i]
  OBVIOUS
<1> QED
  BY <1>1 DEF Open

\* Positions are numbers.
LEMMA OpenCalls ==
  ASSUME calls \in Seq(Call)
  PROVE  \A i \in Open : calls[i] \in Call /\ calls[i].pos \in Nat
<1>1. ASSUME NEW i \in Open
      PROVE  calls[i] \in Call
  BY ElementOfSeq, Zenon DEF Open
<1>2. \A c \in Call : c.pos \in Nat
  BY DEF Call
<1> QED
  BY <1>1, <1>2, Zenon

\* The open structures are finitely many.
LEMMA OpenFinite ==
  ASSUME calls \in Seq(Call)
  PROVE  IsFiniteSet(Open) /\ Open \subseteq 1 .. Len(calls)
<1>1. Len(calls) \in Nat
  OBVIOUS
<1>2. IsFiniteSet(1 .. Len(calls))
  BY <1>1, FS_Interval
<1>3. Open \subseteq 1 .. Len(calls)
  BY DEF Open
<1> QED
  BY <1>2, <1>3, FS_Subset, Zenon

\* A call leaves b in encBuf, or flushes it, at a depth that counts the open
\* structures: then alignment and nesting hold, and nothing was flushed with a
\* structure open.
LEMMA LeaveKeeps ==
  ASSUME out \in Seq(Nat), Len(out) % 8 = 0,
         NEW b \in Seq(Nat), Len(b) % 8 = 0, NEW vs, NEW flush \in BOOLEAN,
         Leave(b, vs, flush),
         calls' \in Seq(Call), encodeDepth' = Cardinality(Open'),
         \A i \in Open' : calls'[i].pos % 8 = 0 /\ lenHeader <= calls'[i].pos /\ calls'[i].pos <= Len(b),
         \A i, j \in Open' : i < j => calls'[i].pos + lenHeader <= calls'[j].pos
  PROVE  /\ encBuf' \in Seq(Nat) /\ out' \in Seq(Nat)
         /\ Aligned' /\ Nested'
         /\ out' # out => Open' = {}
         /\ encBuf' = <<>> \/ encBuf' = b
<1>1. CASE Keep(b, vs)
  BY <1>1 DEF Keep, Aligned, Nested
<1>2. CASE ~Keep(b, vs)
  <2>1. encodeDepth' = 0 /\ out' = out \o b /\ encBuf' = <<>>
    BY <1>2 DEF Leave, Flush
  <2>2. Open' = {}
    <3>1. IsFiniteSet(Open')
      <4>1. Len(calls') \in Nat
        OBVIOUS
      <4>2. IsFiniteSet(1 .. Len(calls')) /\ Open' \subseteq 1 .. Len(calls')
        BY <4>1, FS_Interval DEF Open
      <4> QED
        BY <4>2, FS_Subset, Zenon
    <3> QED
      BY <2>1, <3>1, FS_EmptySet, Zenon
  <2>3. out' \in Seq(Nat) /\ Len(out') = Len(out) + Len(b)
    BY <2>1, Appended, Zenon
  <2>4. Len(out') % 8 = 0
    <3>1. Len(out) \in Nat /\ Len(b) \in Nat
      BY LenProperties, Zenon
    <3> QED
      BY <2>3, <3>1, SumAligned, Zenon
  <2>5. encBuf' \in Seq(Nat) /\ Len(encBuf') = 0
    BY <2>1
  <2> QED
    BY <2>1, <2>2, <2>3, <2>4, <2>5 DEF Aligned, Nested
<1> QED
  BY <1>1, <1>2

----------------------------------------------------------------------------
(***************************************************************************)
(* The steps.                                                              *)
(***************************************************************************)

\* What a step keeps, and what it may not do.
StepOK == IInv' /\ FlushStep /\ PatchStep

\* A call that leaves b, which extends encBuf, and begins no structure.
LEMMA LeaveStep ==
  ASSUME IInv, NEW b \in Seq(Nat), Len(encBuf) <= Len(b), Len(b) % 8 = 0,
         \A j \in 1 .. Len(encBuf) :
           b[j] = encBuf[j] \/ (calls' # calls /\ j \in Top.pos - lenLen + 1 .. Top.pos),
         NEW vs, NEW flush \in BOOLEAN, Leave(b, vs, flush),
         calls' \in Seq(Call), Open' \subseteq Open, \A i \in Open' : calls'[i] = calls[i],
         encodeDepth' = Cardinality(Open'), encodeDepth' \in Nat, count' \in Nat, failing' \in BOOLEAN
  PROVE  StepOK
<1>1. /\ encBuf \in Seq(Nat) /\ out \in Seq(Nat) /\ Len(out) % 8 = 0 /\ calls \in Seq(Call)
  BY Zenon DEF IInv, TypeOK, Aligned
<1>2. Len(encBuf) \in Nat /\ Len(b) \in Nat
  BY <1>1, LenProperties, Zenon
<1>3. ASSUME NEW i \in Open'
      PROVE  calls'[i].pos % 8 = 0 /\ lenHeader <= calls'[i].pos /\ calls'[i].pos <= Len(b)
  <2>1. calls[i].pos \in Nat
    BY <1>1, OpenCalls, Zenon
  <2>2. calls[i].pos % 8 = 0 /\ lenHeader <= calls[i].pos /\ calls[i].pos <= Len(encBuf)
    BY Zenon DEF IInv, Aligned, Nested
  <2>3. calls[i].pos <= Len(b)
    BY <1>2, <2>1, <2>2, Transitive, Zenon
  <2> QED
    BY <2>2, <2>3, Zenon
<1>4. \A i, j \in Open' : i < j => calls'[i].pos + lenHeader <= calls'[j].pos
  BY Zenon DEF IInv, Nested
<1>5. /\ encBuf' \in Seq(Nat) /\ out' \in Seq(Nat) /\ Aligned' /\ Nested'
      /\ out' # out => Open' = {}
      /\ encBuf' = <<>> \/ encBuf' = b
  BY <1>1, <1>3, <1>4, LeaveKeeps, Zenon
<1>6. TypeOK'
  BY <1>5, Zenon DEF TypeOK
<1>7. PatchStep
  BY <1>5, Zenon DEF PatchStep
<1> QED
  BY <1>5, <1>6, <1>7, Zenon DEF StepOK, IInv, FlushStep

\* Encode<Type>, and EncodeValue of a leaf.
LEMMA LeafStep ==
  ASSUME IInv, NEW tag \in Tags, NEW l \in Leaves, NEW flush \in BOOLEAN, EncodeLeaf(tag, l, flush)
  PROVE  StepOK
<1>1. /\ encBuf \in Seq(Nat) /\ Len(encBuf) % 8 = 0 /\ encodeDepth \in Nat
      /\ calls \in Seq(Call) /\ count \in Nat /\ failing \in BOOLEAN /\ encodeDepth = Cardinality(Open)
  BY Zenon DEF IInv, TypeOK, Aligned, Nested
<1>2. PICK b \in Seq(Nat) :
        /\ b = EncodedLeaf(encBuf, tag, l)
        /\ Len(encBuf) <= Len(b) /\ Len(b) % 8 = 0
        /\ \A j \in 1 .. Len(encBuf) : b[j] = encBuf[j]
  BY <1>1, LeafBytes, Zenon
<1>3. PICK vs : Leave(b, vs, flush)
  BY <1>2, Zenon DEF EncodeLeaf
<1>4. calls' = calls /\ Open' = Open /\ encodeDepth' = encodeDepth /\ failing' = failing /\ count' = count + 1
  BY DEF EncodeLeaf, Open
<1>5. count' \in Nat
  BY <1>1, <1>4
<1> QED
  BY <1>1, <1>2, <1>3, <1>4, <1>5, LeaveStep, Zenon

\* Flush, and EncodeValue of a value that is left out.
LEMMA FlushCallStep ==
  ASSUME IInv, CallFlush
  PROVE  StepOK
<1>1. /\ encBuf \in Seq(Nat) /\ Len(encBuf) % 8 = 0 /\ encodeDepth \in Nat
      /\ calls \in Seq(Call) /\ count \in Nat /\ failing \in BOOLEAN /\ encodeDepth = Cardinality(Open)
  BY Zenon DEF IInv, TypeOK, Aligned, Nested
<1>2. Leave(encBuf, values, TRUE)
  BY Zenon DEF CallFlush, Leave
<1>3. calls' = calls /\ Open' = Open /\ encodeDepth' = encodeDepth /\ failing' = failing /\ count' = count
  BY DEF CallFlush, Open
<1>4. Len(encBuf) <= Len(encBuf)
  BY <1>1
<1> QED
  BY <1>1, <1>2, <1>3, <1>4, LeaveStep, Zenon

\* The end of a slice or of a Marshaler.
LEMMA EndSequenceStep ==
  ASSUME IInv, EndSequence
  PROVE  StepOK
<1>1. /\ encBuf \in Seq(Nat) /\ Len(encBuf) % 8 = 0 /\ encodeDepth \in Nat
      /\ calls \in Seq(Call) /\ count \in Nat /\ failing \in BOOLEAN /\ encodeDepth = Cardinality(Open)
  BY Zenon DEF IInv, TypeOK, Aligned, Nested
<1>2. /\ calls # <<>> /\ Top.kind \notin HeaderCalls /\ calls' = SubSeq(calls, 1, Len(calls) - 1)
      /\ encodeDepth' = encodeDepth /\ count' = count /\ ErrorReturned
  BY Zenon DEF EndSequence
<1>3. PICK flush \in BOOLEAN : Leave(encBuf, values, flush)
  BY Zenon DEF EndSequence
<1>4. calls' \in Seq(Call) /\ Open' = Open \ {Len(calls)} /\ \A i \in Open' : calls'[i] = calls[i]
  BY <1>1, <1>2, Pop, Zenon
<1>5. Open' = Open
  BY <1>2, <1>4 DEF Open, Top
<1>6. failing' \in BOOLEAN
  BY <1>2, Zenon DEF ErrorReturned
<1>7. Len(encBuf) <= Len(encBuf)
  BY <1>1
<1> QED
  BY <1>1, <1>2, <1>3, <1>4, <1>5, <1>6, <1>7, LeaveStep, Zenon

\* The end of a structure: its header is the last of the open ones.
LEMMA EndStructureStep ==
  ASSUME IInv, EndStructure
  PROVE  StepOK
<1>1. /\ encBuf \in Seq(Nat) /\ Len(encBuf) % 8 = 0 /\ encodeDepth \in Nat
      /\ calls \in Seq(Call) /\ count \in Nat /\ failing \in BOOLEAN /\ encodeDepth = Cardinality(Open)
  BY Zenon DEF IInv, TypeOK, Aligned, Nested
<1>2. /\ calls # <<>> /\ Top.kind \in HeaderCalls /\ calls' = SubSeq(calls, 1, Len(calls) - 1)
      /\ encodeDepth' = encodeDepth - 1 /\ count' = count /\ ErrorReturned
  BY Zenon DEF EndStructure
<1>3. Len(calls) \in Open
  <2>1. Len(calls) \in 1 .. Len(calls)
    BY <1>1, <1>2
  <2> QED
    BY <1>2, <2>1, Zenon DEF Open, Top
<1>4. calls' \in Seq(Call) /\ Open' = Open \ {Len(calls)} /\ \A i \in Open' : calls'[i] = calls[i]
  BY <1>1, <1>2, Pop, Zenon
<1>5. encodeDepth' = Cardinality(Open') /\ encodeDepth' \in Nat
  <2>1. IsFiniteSet(Open)
    BY <1>1, OpenFinite, Zenon
  <2>2. Cardinality(Open') = Cardinality(Open) - 1 /\ IsFiniteSet(Open')
    BY <1>3, <1>4, <2>1, FS_RemoveElement
  <2>3. Cardinality(Open') \in Nat
    BY <2>2, FS_CardinalityType
  <2> QED
    BY <1>1, <1>2, <2>2, <2>3
<1>6. Top.pos \in Nat /\ Top.pos % 8 = 0 /\ lenHeader <= Top.pos /\ Top.pos <= Len(encBuf)
  <2>1. calls[Len(calls)].pos \in Nat
    BY <1>1, <1>3, OpenCalls, Zenon
  <2> QED
    BY <1>3, <2>1, Zenon DEF IInv, Aligned, Nested, Top
<1>7. PICK b \in Seq(Nat) :
        /\ b = End(encBuf, Top.pos)
        /\ Len(encBuf) <= Len(b) /\ Len(b) % 8 = 0
        /\ \A j \in 1 .. Len(encBuf) : b[j] = encBuf[j] \/ j \in Top.pos - lenLen + 1 .. Top.pos
  BY <1>1, <1>6, EndBytes, Zenon
<1>8. PICK flush \in BOOLEAN : \E vs : Leave(b, vs, flush)
  BY <1>7, Zenon DEF EndStructure
<1>9. calls' # calls
  BY <1>1, <1>2, Pop, Zenon
<1>10. failing' \in BOOLEAN
  BY <1>2, Zenon DEF ErrorReturned
<1>11. Open' \subseteq Open
  BY <1>4
<1> QED
  BY <1>1, <1>2, <1>4, <1>5, <1>7, <1>8, <1>9, <1>10, <1>11, LeaveStep, Zenon

\* The begin of a structure: its header comes behind the open ones.
LEMMA BeginStructureStep ==
  ASSUME IInv, NEW tag \in Tags, NEW kind \in HeaderCalls, BeginStructure(tag, kind)
  PROVE  StepOK
<1>1. /\ encBuf \in Seq(Nat) /\ Len(encBuf) % 8 = 0 /\ encodeDepth \in Nat
      /\ calls \in Seq(Call) /\ count \in Nat /\ failing \in BOOLEAN /\ encodeDepth = Cardinality(Open)
      /\ out \in Seq(Nat) /\ Len(out) % 8 = 0
  BY Zenon DEF IInv, TypeOK, Aligned, Nested
<1>2. tag \in Nat /\ TypeStructure \in Nat
  BY TagsAssumption DEF TypeStructure
<1>3. /\ encBuf' \in Seq(Nat) /\ Len(encBuf') = Len(encBuf) + lenHeader
      /\ \A j \in 1 .. Len(encBuf) : encBuf'[j] = encBuf[j]
  BY <1>1, <1>2, BeginBytes, Zenon DEF BeginStructure
<1>4. PICK n \in Nat : n = Len(encBuf) /\ n % 8 = 0 /\ Len(encBuf') = n + 8 /\ lenHeader = 8
  <2>1. Len(encBuf) \in Nat
    BY <1>1, LenProperties, Zenon
  <2>2. lenHeader = 8
    BY DEF lenHeader
  <2> QED
    BY <1>1, <1>3, <2>1, <2>2, Zenon
<1>5. (n + 8) % 8 = 0 /\ n <= n + 8 /\ 8 <= n + 8 /\ n + 8 \in Nat
  BY <1>4
<1>6. PICK c \in Call : c.kind = kind /\ c.pos = n + 8 /\ calls' = Append(calls, c)
  <2>0. PICK flush \in BOOLEAN : flush = (kind = "struct" /\ UserCode)
    BY Zenon
  <2> DEFINE d == [kind |-> kind, pos |-> n + 8, tag |-> tag, flush |-> flush]
  <2>1. d \in Call
    BY <1>5 DEF Call, HeaderCalls, UserCalls
  <2>2. calls' = Append(calls, d)
    BY <1>4, <2>0, Zenon DEF BeginStructure
  <2> QED
    BY <2>1, <2>2
<1>7. PICK m \in Nat :
        /\ calls' \in Seq(Call) /\ m = Len(calls) + 1 /\ calls'[m] = c
        /\ Open' = Open \cup {m}
        /\ \A i \in Open : calls'[i] = calls[i] /\ i \in Nat /\ i < m
  <2>1. /\ calls' \in Seq(Call) /\ Len(calls) \in Nat /\ calls'[Len(calls) + 1] = c
        /\ Open' = Open \cup {Len(calls) + 1}
        /\ \A i \in Open : calls'[i] = calls[i]
    BY <1>1, <1>6, Push, Zenon
  <2>2. \A i \in Open : i \in Nat /\ i < Len(calls) + 1
    BY <2>1 DEF Open
  <2>3. Len(calls) + 1 \in Nat
    BY <2>1
  <2> QED
    BY <2>1, <2>2, <2>3, Zenon
<1>8. encodeDepth' = Cardinality(Open')
  <2>1. m \notin Open
    BY <1>7
  <2>2. IsFiniteSet(Open)
    BY <1>1, OpenFinite, Zenon
  <2>3. Cardinality(Open') = Cardinality(Open) + 1
    BY <1>7, <2>1, <2>2, FS_AddElement, ZenonT(60)
  <2> QED
    BY <1>1, <2>3 DEF BeginStructure
<1>9. \A i \in Open : /\ calls[i].pos \in Nat /\ calls[i].pos % 8 = 0
                      /\ lenHeader <= calls[i].pos /\ calls[i].pos <= n
  BY <1>1, <1>4, OpenCalls, Zenon DEF IInv, Aligned, Nested
<1>10. \A i \in Open : calls[i].pos <= n + 8 /\ calls[i].pos + lenHeader <= n + 8
  <2>1. \A x \in Nat : x <= n => x <= n + 8 /\ x + 8 <= n + 8
    OBVIOUS
  <2> QED
    BY <1>4, <1>9, <2>1, Zenon
<1>11. Aligned'
  <2>1. \A i \in Open' : calls'[i].pos % 8 = 0
    BY <1>5, <1>6, <1>7, <1>9, Zenon
  <2> QED
    BY <1>1, <1>4, <1>5, <2>1, Zenon DEF Aligned, BeginStructure
<1>12. Nested'
  <2>1. \A i \in Open' : lenHeader <= calls'[i].pos /\ calls'[i].pos <= Len(encBuf')
    <3>1. n + 8 <= n + 8
      OBVIOUS
    <3> QED
      BY <1>4, <1>5, <1>6, <1>7, <1>9, <1>10, <3>1, Zenon
  <2>2. ASSUME NEW i \in Open', NEW j \in Open', i < j
        PROVE  calls'[i].pos + lenHeader <= calls'[j].pos
    <3>1. CASE i \in Open /\ j \in Open
      BY <1>7, <2>2, <3>1, Zenon DEF IInv, Nested
    <3>2. CASE i \in Open /\ j = m
      BY <1>6, <1>7, <1>10, <3>2, Zenon
    <3>3. i # m
      BY <1>7, <2>2
    <3> QED
      BY <1>7, <3>1, <3>2, <3>3, Zenon
  <2> QED
    BY <1>8, <2>1, <2>2, Zenon DEF Nested
<1>13. TypeOK'
  <2>1. count' \in Nat /\ encodeDepth' \in Nat
    BY <1>1 DEF BeginStructure
  <2> QED
    BY <1>1, <1>3, <1>7, <2>1, Zenon DEF TypeOK, BeginStructure
<1>14. FlushStep
  BY Zenon DEF FlushStep, BeginStructure
<1>15. PatchStep
  <2>1. Len(encBuf) <= Len(encBuf')
    BY <1>4, <1>5, Zenon
  <2> QED
    BY <1>3, <2>1, Zenon DEF PatchStep
<1> QED
  BY <1>11, <1>12, <1>13, <1>14, <1>15, Zenon DEF StepOK, IInv

\* The begin of a slice or of a Marshaler opens no structure.
LEMMA BeginSequenceStep ==
  ASSUME IInv, NEW kind \in {"slice", "marshaler"}, BeginSequence(kind)
  PROVE  StepOK
<1>1. calls \in Seq(Call) /\ encBuf \in Seq(Nat)
  BY Zenon DEF IInv, TypeOK
<1>2. PICK c \in Call : c.kind = kind /\ calls' = Append(calls, c)
  <2>1. PICK flush \in BOOLEAN : flush = UserCode
    BY Zenon DEF UserCode
  <2> DEFINE d == [kind |-> kind, pos |-> 0, tag |-> TagNone, flush |-> flush]
  <2>2. d \in Call
    BY DEF Call, UserCalls
  <2>3. calls' = Append(calls, d)
    BY <2>1, Zenon DEF BeginSequence
  <2> QED
    BY <2>2, <2>3
<1>3. c.kind \notin HeaderCalls
  BY <1>2 DEF HeaderCalls
<1>4. calls' \in Seq(Call) /\ Open' = Open /\ \A i \in Open : calls'[i] = calls[i]
  BY <1>1, <1>2, <1>3, Push, Zenon
<1>5. UNCHANGED <<encBuf, encodeDepth, failing, out, count>>
  BY DEF BeginSequence
<1>6. IInv'
  BY <1>4, <1>5, Zenon DEF IInv, TypeOK, Aligned, Nested
<1>7. PatchStep
  <2>1. Len(encBuf) <= Len(encBuf')
    BY <1>1, <1>5
  <2> QED
    BY <1>5, <2>1, Zenon DEF PatchStep
<1> QED
  BY <1>5, <1>6, <1>7, Zenon DEF StepOK, FlushStep

\* An error, and a step of somebody else.
LEMMA QuietStep ==
  ASSUME IInv, UNCHANGED <<encBuf, encodeDepth, calls, out, count>>, failing' \in BOOLEAN
  PROVE  StepOK
<1>1. encBuf \in Seq(Nat) /\ Open' = Open
  BY DEF IInv, TypeOK, Open
<1>2. IInv'
  BY <1>1, Zenon DEF IInv, TypeOK, Aligned, Nested
<1>3. Len(encBuf) <= Len(encBuf')
  BY <1>1
<1> QED
  BY <1>2, <1>3, Zenon DEF StepOK, FlushStep, PatchStep

\* Every step keeps the invariant, flushes whole structures and patches only
\* the length of the structure that ends.
LEMMA Steps ==
  ASSUME IInv, [Next]_vars
  PROVE  StepOK
<1>1. CASE \E tag \in Tags, l \in Leaves, flush \in BOOLEAN : EncodeLeaf(tag, l, flush)
  BY <1>1, LeafStep, Zenon
<1>2. CASE CallFlush
  BY <1>2, FlushCallStep, Zenon
<1>3. CASE Refuse \/ UNCHANGED vars
  <2>1. UNCHANGED <<encBuf, encodeDepth, calls, out, count>> /\ failing' \in BOOLEAN
    BY <1>3, Zenon DEF Refuse, vars, IInv, TypeOK
  <2> QED
    BY <2>1, QuietStep, Zenon
<1>4. CASE \E tag \in Tags, kind \in HeaderCalls : BeginStructure(tag, kind)
  BY <1>4, BeginStructureStep, Zenon
<1>5. CASE \E kind \in {"slice", "marshaler"} : BeginSequence(kind)
  BY <1>5, BeginSequenceStep, Zenon
<1>6. CASE EndStructure
  BY <1>6, EndStructureStep, Zenon
<1>7. CASE EndSequence
  BY <1>7, EndSequenceStep, Zenon
<1> QED
  BY <1>1, <1>2, <1>3, <1>4, <1>5, <1>6, <1>7, Zenon DEF Next

\* A new Encoder satisfies the invariant.
LEMMA Initially == Init => IInv
<1> SUFFICES ASSUME Init PROVE IInv
  OBVIOUS
<1>1. Open = {}
  BY DEF Init, Open
<1>2. TypeOK
  <2>1. 0 \in Nat /\ <<>> \in Seq(Nat) /\ <<>> \in Seq(Call)
    OBVIOUS
  <2> QED
    BY <2>1, Zenon DEF Init, TypeOK
<1>3. Aligned
  BY <1>1 DEF Init, Aligned
<1>4. Nested
  BY <1>1, FS_EmptySet DEF Init, Nested
<1> QED
  BY <1>2, <1>3, <1>4 DEF IInv

\* The inductive invariant holds throughout.
THEOREM Invariance == Spec => []IInv
<1>1. IInv /\ [Next]_vars => IInv'
  BY Steps DEF StepOK
<1> QED
  BY Initially, <1>1, PTL DEF Spec

\* encBuf and out stay sequences of naturals, encodeDepth, which end decrements,
\* never falls below zero, and every pending call is one that Encoder makes.
THEOREM AlwaysTyped == Spec => []TypeOK
<1>1. IInv => TypeOK
  BY DEF IInv
<1> QED
  BY <1>1, Invariance, PTL

\* Whatever is encoded, in whatever nesting and with whatever errors in
\* between, everything that encBuf and the writer hold stays on multiples of
\* eight, where the readers look for the next value.
THEOREM AlwaysAligned == Spec => []Aligned
<1>1. IInv => Aligned
  BY DEF IInv
<1> QED
  BY <1>1, Invariance, PTL

\* encodeDepth always counts the structures that EncodeStructure has open,
\* errors notwithstanding, and their headers are where end patches them.
THEOREM AlwaysNested == Spec => []Nested
<1>1. IInv => Nested
  BY DEF IInv
<1> QED
  BY <1>1, Invariance, PTL

\* Flush never writes a structure whose length is still to come.
THEOREM FlushesWholeStructures == Spec => WholeStructures
<1>1. IInv /\ [Next]_vars => [FlushStep]_vars
  BY Steps DEF StepOK
<1> QED
  BY <1>1, Invariance, PTL DEF Spec, WholeStructures

\* end patches the length of its own structure and nothing else.
THEOREM EndPatchesOwnLength == Spec => PatchesOwnLength
<1>1. IInv /\ [Next]_vars => [PatchStep]_vars
  BY Steps DEF StepOK
<1> QED
  BY <1>1, Invariance, PTL DEF Spec, PatchesOwnLength
=============================================================================
