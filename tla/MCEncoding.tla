----------------------------- MODULE MCEncoding -----------------------------
(***************************************************************************)
(* The Encoder together with the readers of TTLV, on a small instance.     *)
(***************************************************************************)
EXTENDS Encoding, TTLVReader

\* One leaf of each shape: a fixed width with padding, a text
\* with padding, an empty one, and a big integer of two blocks.
MCLeaves ==
  {[type |-> TypeInteger,    raw |-> <<15, 15, 1, 8>>],
   [type |-> TypeTextString, raw |-> <<4, 2, 0>>],
   [type |-> TypeByteString, raw |-> <<>>],
   [type |-> TypeBigInteger, raw |-> BigEndian(-3, 8) \o BigEndian(7, 8)]}

\* 0x421 with bytes of four bits.
MCTags == {1057}
MCPrefixes == {4, 5}

\* The bytes of encBuf that belong to the structure open at depth d, without
\* those of a structure open inside it; depth 0 is the top level.
ContentAt(d) ==
  LET starts == [i \in 1 .. encodeDepth |->
                   (CHOOSE c \in {calls[k] : k \in Open} :
                      Cardinality({k \in Open : calls[k].pos <= c.pos}) = i).pos]
      first == IF d = 0 THEN 1 ELSE starts[d] + 1
      last  == IF d = encodeDepth THEN Len(encBuf) ELSE starts[d + 1] - lenHeader
  IN  SubSeq(encBuf, first, last)

\* What was encoded is what is read: TTLV.Valid accepts what the writer got,
\* what waits in encBuf and the content of every open structure so far, and
\* walking over them with Next gives exactly the values that were encoded,
\* structures cut short by an error included.
EncodedIsRead ==
  /\ AllValid(out) /\ Values(out) = sent
  /\ Len(values) = encodeDepth + 1
  /\ \A d \in 0 .. encodeDepth :
       AllValid(ContentAt(d)) /\ Values(ContentAt(d)) = values[d + 1]
=============================================================================
