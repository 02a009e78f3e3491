-------------------------- MODULE ConnectionProofs --------------------------
(***************************************************************************)
(* Proofs about Connection, for every header and buffer size, every set of *)
(* message lengths and any number of messages.                             *)
(***************************************************************************)
EXTENDS Connection, TLAPS

\* The provers have a minute for every leaf that asks for no other.
USE SMTT(60), ZenonT(60)

USE DEF clientVars, readVars

\* The invariant of conn.serve and NextTTLV holds before the first byte.
LEMMA InitInv == Init => IInv
<1> SUFFICES ASSUME Init PROVE IInv
  OBVIOUS
<1>1. Len(frames) = 0 /\ Len(requests) = 0
  BY DEF Init
<1>2. TypeOK
  BY DEF Init, TypeOK
<1>3. LayoutInv /\ CounterInv /\ WholeMessages
  BY <1>1 DEF Init, LayoutInv, CounterInv, WholeMessages, EndOf, Total
<1>4. AlignedInv /\ TurnInv
  BY <1>1 DEF Init, AlignedInv, TurnInv, EndOf
<1> QED
  BY <1>2, <1>3, <1>4 DEF IInv

\* The end of a message is a position.
LEMMA EndOfNat ==
  ASSUME TypeOK, NEW k \in 0 .. Len(frames)
  PROVE  EndOf(k) \in Nat
<1>1. CASE k = 0
  BY <1>1 DEF EndOf
<1>2. CASE k # 0
  <2>1. frames[k] \in Frame
    BY <1>2 DEF TypeOK
  <2>2. frames[k].start \in Nat /\ frames[k].len \in Nat
    BY <2>1, SizesAssumption, Zenon DEF Frame
  <2> QED
    BY <1>2, <2>2 DEF EndOf
<1> QED
  BY <1>1, <1>2

\* Composing a message keeps the invariant: the message goes to the end of
\* the stream.
LEMMA ComposeInv == IInv /\ Compose => IInv'
<1> SUFFICES ASSUME IInv, Compose PROVE IInv'
  OBVIOUS
<1> USE DEF IInv
<1>t. TypeOK
  OBVIOUS
<1>1. PICK n \in Lens, ok \in BOOLEAN :
        frames' = Append(frames, [start |-> Total, len |-> n, valid |-> ok])
  BY DEF Compose
<1>2. Total \in Nat /\ Len(frames) \in Nat
  BY EndOfNat, <1>t DEF Total, TypeOK
<1> DEFINE f == [start |-> Total, len |-> n, valid |-> ok]
<1>3. f \in Frame
  BY <1>2 DEF Frame
<1>4. /\ frames' \in Seq(Frame)
      /\ Len(frames') = Len(frames) + 1
      /\ \A i \in 1 .. Len(frames) : frames'[i] = frames[i]
      /\ frames'[Len(frames) + 1] = f
  BY <1>1, <1>3 DEF TypeOK
<1>5. \A k \in 0 .. Len(frames) : EndOf(k)' = EndOf(k)
  BY <1>4, <1>2 DEF EndOf
<1>l. PICK L \in Nat : L = Len(frames)
  BY <1>2
<1>6. /\ EndOf(L + 1)' = Total + n
      /\ Total' = Total + n
      /\ n \in Nat
  <2>1. n \in Nat
    BY SizesAssumption
  <2>2. EndOf(L + 1)' = Total + n
    BY <1>4, <1>2, <1>l DEF EndOf
  <2>3. Total' = EndOf(L + 1)'
    BY <1>4, <1>l DEF Total
  <2> QED
    BY <2>1, <2>2, <2>3
<1>7. TypeOK'
  BY <1>4 DEF TypeOK, Compose
<1>8. LayoutInv'
  <2>0. \A i \in 1 .. Len(frames) : EndOf(i) \in Nat
    BY EndOfNat, <1>t
  <2>1. \A i \in 1 .. Len(frames') : EndOf(i)' <= Total'
    <3> SUFFICES ASSUME NEW i \in 1 .. Len(frames')
                 PROVE  EndOf(i)' <= Total'
      OBVIOUS
    <3>1. CASE i = Len(frames) + 1
      BY <3>1, <1>2, <1>l, <1>6
    <3>2. CASE i # Len(frames) + 1
      <4>1. i \in 1 .. Len(frames)
        BY <1>2, <1>4, <3>2
      <4>2. EndOf(i)' = EndOf(i) /\ EndOf(i) <= Total /\ EndOf(i) \in Nat
        BY <4>1, <1>5, <2>0 DEF LayoutInv
      <4> QED
        BY <4>2, <1>2, <1>6
    <3> QED
      BY <3>1, <3>2
  <2>2. \A i, j \in 1 .. Len(frames') : i < j => EndOf(i)' <= frames'[j].start
    <3> SUFFICES ASSUME NEW i \in 1 .. Len(frames'), NEW j \in 1 .. Len(frames'), i < j
                 PROVE  EndOf(i)' <= frames'[j].start
      OBVIOUS
    <3>1. i \in 1 .. Len(frames) /\ EndOf(i)' = EndOf(i)
      BY <1>2, <1>4, <1>5
    <3>2. CASE j = Len(frames) + 1
      BY <3>1, <3>2, <1>4 DEF LayoutInv
    <3>3. CASE j # Len(frames) + 1
      <4>1. j \in 1 .. Len(frames)
        BY <1>2, <1>4, <3>3
      <4> QED
        BY <4>1, <3>1, <1>4 DEF LayoutInv
    <3> QED
      BY <3>2, <3>3
  <2>3. \A i \in 1 .. Len(frames') : frames'[i].start = EndOf(i - 1)'
    <3> SUFFICES ASSUME NEW i \in 1 .. Len(frames')
                 PROVE  frames'[i].start = EndOf(i - 1)'
      OBVIOUS
    <3>1. i - 1 \in 0 .. Len(frames) /\ EndOf(i - 1)' = EndOf(i - 1)
      BY <1>2, <1>4, <1>5
    <3>2. CASE i = Len(frames) + 1
      BY <3>1, <3>2, <1>2, <1>4 DEF Total
    <3>3. CASE i # Len(frames) + 1
      <4>1. i \in 1 .. Len(frames)
        BY <1>2, <1>4, <3>3
      <4> QED
        BY <4>1, <3>1, <1>4 DEF LayoutInv
    <3> QED
      BY <3>2, <3>3
  <2> QED
    BY <2>1, <2>2, <2>3 DEF LayoutInv
<1>9. CounterInv'
  BY <1>2, <1>6 DEF CounterInv, TypeOK, Compose
<1>10. Len(requests) \in Nat /\ Len(requests) <= Len(frames)
  BY DEF TypeOK, WholeMessages
<1>11. WholeMessages'
  BY <1>2, <1>4, <1>5, <1>10 DEF WholeMessages, Compose
<1>12. AlignedInv'
  BY <1>2, <1>4, <1>5, <1>10 DEF AlignedInv, Compose
<1>13. TurnInv'
  BY DEF TurnInv, Compose
<1> QED
  BY <1>7, <1>8, <1>9, <1>11, <1>12, <1>13

\* A step that leaves the messages, the wire and the requests alone keeps
\* where the messages lie and which of them were handed over.
LEMMA QuietStep ==
  ASSUME IInv, UNCHANGED <<frames, written, requests>>
  PROVE  /\ LayoutInv'
         /\ WholeMessages'
         /\ EndOf(Len(requests))' = EndOf(Len(requests))
         /\ Total' = Total
<1>1. \A k : EndOf(k)' = EndOf(k)
  BY DEF EndOf
<1>2. EndOf(Len(requests))' = EndOf(Len(requests)) /\ Total' = Total
  BY DEF EndOf, Total
<1>3. LayoutInv'
  BY <1>1, <1>2 DEF IInv, LayoutInv
<1> QED
  BY <1>2, <1>3 DEF IInv, WholeMessages

\* When NextTTLV has peeked a whole header, it is the header of the message
\* after the last request, and of no other.
LEMMA NextHeader ==
  ASSUME IInv, cpc = "peek", Buffered >= HeaderLen
  PROVE  /\ Len(requests) < Len(frames)
         /\ HeadersAt(consumed) = {frames[Len(requests) + 1]}
<1> USE DEF IInv
<1> DEFINE k == Len(requests) + 1
<1>1. /\ Len(requests) \in Nat /\ Len(frames) \in Nat
      /\ Len(requests) <= Len(frames)
      /\ consumed = EndOf(Len(requests))
  BY DEF TypeOK, WholeMessages, AlignedInv
<1>2. consumed < Total
  <2>1. Total \in Nat
    BY EndOfNat, <1>1 DEF Total
  <2> QED
    BY <2>1, SizesAssumption DEF TypeOK, CounterInv, Buffered
<1>3. Len(requests) # Len(frames)
  BY <1>1, <1>2 DEF Total, TypeOK
<1>4. k \in 1 .. Len(frames)
  BY <1>1, <1>3
<1>5. frames[k].start = consumed
  <2>1. frames[k].start = EndOf(k - 1)
    BY <1>4 DEF LayoutInv
  <2> QED
    BY <2>1, <1>1
<1>6. \A i \in 1 .. Len(frames) : frames[i].start \in Nat /\ frames[i].len \in Nat \ {0}
  <2> SUFFICES ASSUME NEW i \in 1 .. Len(frames)
               PROVE  frames[i].start \in Nat /\ frames[i].len \in Nat \ {0}
    OBVIOUS
  <2>1. frames[i] \in Frame
    BY DEF TypeOK
  <2>2. frames[i].start \in Nat /\ frames[i].len \in Lens
    BY <2>1 DEF Frame
  <2>3. \A n \in Lens : n \in Nat /\ n # 0
    BY SizesAssumption
  <2> QED
    BY <2>2, <2>3
<1>7. \A i \in 1 .. Len(frames) : frames[i].start = consumed => i = k
  <2> SUFFICES ASSUME NEW i \in 1 .. Len(frames), frames[i].start = consumed, i # k
               PROVE  FALSE
    OBVIOUS
  <2>1. CASE i < k
    <3>1. frames[i].start + frames[i].len <= frames[k].start
      BY <1>4, <2>1 DEF LayoutInv, EndOf
    <3> QED
      BY <3>1, <1>4, <1>5, <1>6
  <2>2. CASE k < i
    <3>1. frames[k].start + frames[k].len <= frames[i].start
      BY <1>4, <2>2 DEF LayoutInv, EndOf
    <3> QED
      BY <3>1, <1>4, <1>5, <1>6
  <2> QED
    BY <2>1, <2>2, <1>1
<1>8. {j \in 1 .. Len(frames) : frames[j].start = consumed} = {k}
  BY <1>4, <1>5, <1>7
<1>9. HeadersAt(consumed) = {frames[k]}
  BY <1>4, <1>5, <1>8 DEF HeadersAt
<1> QED
  BY <1>1, <1>4, <1>9

\* Copying n bytes into buf, no more than it has room for and than the
\* bufio.Reader has taken, keeps the invariant; when buf is full, the request
\* is the next message of the client.
LEMMA AdvanceInv ==
  ASSUME IInv, cpc = "read", NEW n \in Nat, n <= fullLen - totRead,
         Advance(n), taken' \in Nat, consumed + n <= taken', taken' <= written,
         UNCHANGED <<fullLen, replies, outcome, clientVars>>
  PROVE  IInv'
<1> USE DEF IInv
<1> DEFINE k == Len(requests) + 1
           e == EndOf(Len(requests))
<1>0. fullLen \in Nat /\ totRead \in Nat /\ consumed \in Nat
  BY DEF TypeOK, AlignedInv
<1>1. /\ Len(requests) \in Nat /\ Len(frames) \in Nat
      /\ k \in 1 .. Len(frames)
      /\ fullLen = frames[k].len /\ frames[k].valid
      /\ consumed = EndOf(Len(requests)) + totRead
      /\ fullLen \in Nat /\ totRead \in Nat /\ consumed \in Nat
      /\ totRead < fullLen
  BY DEF TypeOK, AlignedInv
<1>2. frames[k] \in Frame /\ frames[k].start = EndOf(Len(requests))
  <2>1. frames[k].start = EndOf(k - 1)
    BY <1>1 DEF LayoutInv
  <2> QED
    BY <1>1, <2>1 DEF TypeOK
<1>3. e \in Nat /\ consumed = e + totRead /\ frames[k].start = e
  BY <1>1, <1>2 DEF Frame
<1>4. /\ consumed' = consumed + n /\ totRead' = totRead + n
      /\ consumed' \in Nat /\ totRead' \in Nat
  <2>1. consumed' = consumed + n /\ totRead' = totRead + n
    BY Zenon DEF Advance
  <2> QED
    BY <2>1, <1>1
<1>5. CounterInv'
  BY <1>1, <1>4 DEF CounterInv, EndOf, Total, TypeOK
<1>6. CASE totRead + n >= fullLen
  <2> DEFINE r == [start |-> consumed + n - fullLen, len |-> fullLen, valid |-> TRUE]
  <2>1. totRead + n = fullLen
    <3> HIDE DEF IInv
    <3> QED
      BY <1>0, <1>6
  <2>2. cpc' = "serve" /\ requests' = Append(requests, r)
    BY <1>6 DEF Advance
  <2>3. r = frames[k]
    <3>1. consumed + n - fullLen = frames[k].start
      <4> HIDE DEF k, e, IInv
      <4> QED
        BY <1>0, <1>3, <2>1
    <3>2. frames[k].valid = TRUE
      BY <1>1, <1>2 DEF Frame
    <3>3. frames[k] = [start |-> frames[k].start, len |-> frames[k].len, valid |-> frames[k].valid]
      BY <1>2 DEF Frame
    <3> QED
      BY <3>1, <3>2, <3>3, <1>1, Zenon
  <2>4. /\ requests' \in Seq(Frame) /\ Len(requests') = k
        /\ \A i \in 1 .. Len(requests) : requests'[i] = requests[i]
        /\ requests'[k] = frames[k]
    BY <1>1, <1>2, <2>2, <2>3 DEF TypeOK
  <2>5. EndOf(Len(requests))' = frames[k].start + frames[k].len
    BY <2>4, <1>1 DEF EndOf
  <2>6. consumed' = EndOf(Len(requests))'
    <3>1. frames[k].len = fullLen
      BY <1>1
    <3> HIDE DEF k, e, IInv
    <3> QED
      BY <2>5, <2>1, <3>1, <1>0, <1>3, <1>4
  <2>7. TypeOK'
    BY <1>4, <2>2, <2>4 DEF TypeOK
  <2>8. LayoutInv'
    BY DEF LayoutInv, EndOf, Total
  <2>9. WholeMessages'
    <3>1. \A i \in 1 .. Len(requests') : requests'[i] = frames'[i]
      <4> SUFFICES ASSUME NEW i \in 1 .. k PROVE requests'[i] = frames[i]
        BY <2>4
      <4>1. CASE i = k
        BY <4>1, <2>4
      <4>2. CASE i # k
        <5>1. i \in 1 .. Len(requests)
          BY <4>2, <1>1
        <5> QED
          BY <5>1, <2>4 DEF WholeMessages
      <4> QED
        BY <4>1, <4>2
    <3>2. consumed' <= written'
      BY <1>4 DEF TypeOK
    <3> QED
      BY <3>1, <3>2, <2>4, <2>6, <1>1 DEF WholeMessages
  <2>10. AlignedInv'
    BY <2>2, <2>6 DEF AlignedInv
  <2>11. TurnInv'
    BY <2>2, <2>4, <1>1 DEF TurnInv, TypeOK
  <2> QED
    BY <2>7, <2>8, <1>5, <2>9, <2>10, <2>11
<1>7. CASE ~(totRead + n >= fullLen)
  <2>1. UNCHANGED <<cpc, requests>>
    BY <1>7 DEF Advance
  <2>2. LayoutInv' /\ WholeMessages' /\ EndOf(Len(requests))' = EndOf(Len(requests))
    BY <2>1, QuietStep
  <2>3. TypeOK'
    BY <1>4, <2>1 DEF TypeOK
  <2>4. AlignedInv'
    <3>1. /\ Len(requests') < Len(frames')
          /\ frames'[Len(requests') + 1].valid
          /\ fullLen' = frames'[Len(requests') + 1].len
      BY <1>1, <2>1
    <3>2. totRead' < fullLen'
      BY <1>1, <1>4, <1>7
    <3>3. consumed' = EndOf(Len(requests))' + totRead'
      BY <1>1, <1>3, <1>4, <2>2
    <3> QED
      BY <3>1, <3>2, <3>3, <2>1 DEF AlignedInv
  <2>5. TurnInv'
    BY <2>1 DEF TurnInv
  <2> QED
    BY <2>2, <2>3, <1>5, <2>4, <2>5
<1> QED
  BY <1>6, <1>7

\* Every step of the client and of conn.serve keeps the invariant.
LEMMA NextInv == IInv /\ [Next]_vars => IInv'
<1> SUFFICES ASSUME IInv, [Next]_vars PROVE IInv'
  OBVIOUS
<1> USE DEF IInv
<1>1. CASE Compose
  BY <1>1, ComposeInv
<1>2. CASE Write
  <2>1. PICK n \in 1 .. Total - written : written' = written + n
    BY <1>2 DEF Write
  <2>2. Total \in Nat
    BY EndOfNat DEF Total, TypeOK
  <2>3. written' \in Nat /\ written <= written' /\ written' <= Total
    BY <2>1, <2>2 DEF TypeOK
  <2>4. EndOf(Len(requests)) \in Nat
    BY EndOfNat DEF WholeMessages, TypeOK
  <2>5. EndOf(Len(requests))' = EndOf(Len(requests)) /\ Total' = Total
    BY <1>2 DEF Write, EndOf, Total
  <2>6. TypeOK'
    BY <1>2, <2>3 DEF Write, TypeOK
  <2>7. LayoutInv'
    BY <1>2 DEF Write, LayoutInv, EndOf, Total
  <2>8. CounterInv'
    BY <1>2, <2>3, <2>5 DEF Write, CounterInv, TypeOK
  <2>9. WholeMessages'
    <3>1. EndOf(Len(requests))' <= written'
      BY <2>3, <2>4, <2>5 DEF WholeMessages, TypeOK
    <3> QED
      BY <1>2, <3>1 DEF Write, WholeMessages
  <2>10. AlignedInv' /\ TurnInv'
    BY <1>2, <2>5 DEF Write, AlignedInv, TurnInv
  <2> QED
    BY <2>6, <2>7, <2>8, <2>9, <2>10
<1>3. CASE ClientEnds
  <2>1. LayoutInv' /\ WholeMessages' /\ EndOf(Len(requests))' = EndOf(Len(requests)) /\ Total' = Total
    BY <1>3, QuietStep DEF ClientEnds
  <2>2. TypeOK'
    BY <1>3 DEF ClientEnds, TypeOK
  <2>3. CounterInv' /\ AlignedInv' /\ TurnInv'
    BY <1>3, <2>1 DEF ClientEnds, CounterInv, AlignedInv, TurnInv
  <2> QED
    BY <2>1, <2>2, <2>3
<1>4. CASE Handshake
  <2>1. LayoutInv' /\ WholeMessages' /\ EndOf(Len(requests))' = EndOf(Len(requests)) /\ Total' = Total
    BY <1>4, QuietStep DEF Handshake
  <2>2. TypeOK'
    BY <1>4 DEF Handshake, Leave, TypeOK
  <2>3. CounterInv' /\ AlignedInv'
    BY <1>4, <2>1 DEF Handshake, Leave, CounterInv, AlignedInv
  <2>4. TurnInv'
    BY <1>4 DEF Handshake, Leave, TurnInv, TypeOK
  <2> QED
    BY <2>1, <2>2, <2>3, <2>4
<1>5. CASE PeekFails
  <2>1. LayoutInv' /\ WholeMessages' /\ EndOf(Len(requests))' = EndOf(Len(requests)) /\ Total' = Total
    BY <1>5, QuietStep DEF PeekFails
  <2>2. TypeOK'
    BY <1>5 DEF PeekFails, Leave, TypeOK
  <2>3. CounterInv' /\ AlignedInv'
    BY <1>5, <2>1 DEF PeekFails, Leave, CounterInv, AlignedInv
  <2>4. TurnInv'
    BY <1>5 DEF PeekFails, Leave, TurnInv, TypeOK
  <2> QED
    BY <2>1, <2>2, <2>3, <2>4
<1>6. CASE ReadFails
  <2>1. LayoutInv' /\ WholeMessages' /\ EndOf(Len(requests))' = EndOf(Len(requests)) /\ Total' = Total
    BY <1>6, QuietStep DEF ReadFails
  <2>2. TypeOK'
    BY <1>6 DEF ReadFails, Leave, TypeOK
  <2>3. CounterInv' /\ AlignedInv'
    BY <1>6, <2>1 DEF ReadFails, Leave, CounterInv, AlignedInv
  <2>4. TurnInv'
    BY <1>6 DEF ReadFails, Leave, TurnInv, TypeOK
  <2> QED
    BY <2>1, <2>2, <2>3, <2>4
<1>7. CASE ServeKMIP
  <2>1. LayoutInv' /\ WholeMessages' /\ EndOf(Len(requests))' = EndOf(Len(requests)) /\ Total' = Total
    BY <1>7, QuietStep DEF ServeKMIP
  <2>2. TypeOK'
    BY <1>7 DEF ServeKMIP, Leave, TypeOK
  <2>3. CounterInv' /\ AlignedInv'
    BY <1>7, <2>1 DEF ServeKMIP, Leave, CounterInv, AlignedInv
  <2>4. TurnInv'
    BY <1>7 DEF ServeKMIP, Leave, TurnInv, TypeOK
  <2> QED
    BY <2>1, <2>2, <2>3, <2>4
<1>8. CASE Flush
  <2>1. LayoutInv' /\ WholeMessages' /\ EndOf(Len(requests))' = EndOf(Len(requests)) /\ Total' = Total
    BY <1>8, QuietStep DEF Flush
  <2>2. TypeOK'
    BY <1>8 DEF Flush, Leave, TypeOK
  <2>3. CounterInv' /\ AlignedInv'
    BY <1>8, <2>1 DEF Flush, Leave, CounterInv, AlignedInv
  <2>4. TurnInv'
    BY <1>8 DEF Flush, Leave, TurnInv, TypeOK
  <2> QED
    BY <2>1, <2>2, <2>3, <2>4
<1>9. CASE CloseConn
  <2>1. LayoutInv' /\ WholeMessages' /\ EndOf(Len(requests))' = EndOf(Len(requests)) /\ Total' = Total
    BY <1>9, QuietStep DEF CloseConn
  <2>2. TypeOK'
    BY <1>9 DEF CloseConn, Leave, TypeOK
  <2>3. CounterInv' /\ AlignedInv'
    BY <1>9, <2>1 DEF CloseConn, Leave, CounterInv, AlignedInv
  <2>4. TurnInv'
    BY <1>9 DEF CloseConn, Leave, TurnInv, TypeOK
  <2> QED
    BY <2>1, <2>2, <2>3, <2>4
<1>10. CASE PeekFills
  <2>1. LayoutInv' /\ WholeMessages' /\ EndOf(Len(requests))' = EndOf(Len(requests)) /\ Total' = Total
    BY <1>10, QuietStep DEF PeekFills
  <2>2. taken' \in Nat /\ taken <= taken' /\ taken' <= written
    BY <1>10, SizesAssumption DEF PeekFills, Readable, AtMost, Buffered, TypeOK, CounterInv
  <2>3. TypeOK'
    BY <1>10, <2>2 DEF PeekFills, TypeOK
  <2>4. CounterInv'
    BY <1>10, <2>1, <2>2 DEF PeekFills, CounterInv, TypeOK
  <2>5. AlignedInv' /\ TurnInv'
    BY <1>10, <2>1 DEF PeekFills, AlignedInv, TurnInv
  <2> QED
    BY <2>1, <2>3, <2>4, <2>5
<1>11. CASE PeekHeader
  <2>1. LayoutInv' /\ WholeMessages' /\ EndOf(Len(requests))' = EndOf(Len(requests)) /\ Total' = Total
    BY <1>11, QuietStep DEF PeekHeader
  <2> DEFINE k == Len(requests) + 1
  <2>2. /\ Len(requests) < Len(frames)
        /\ HeadersAt(consumed) = {frames[k]}
    BY <1>11, NextHeader DEF PeekHeader
  <2>3. Len(requests) \in Nat /\ Len(frames) \in Nat /\ k \in 1 .. Len(frames)
    BY <2>2 DEF TypeOK
  <2>4. frames[k] \in Frame
    BY <2>3 DEF TypeOK
  <2>5. frames[k].len \in Nat /\ 0 < frames[k].len
    <3>1. frames[k].len \in Lens
      BY <2>4 DEF Frame
    <3>2. \A n \in Lens : n \in Nat /\ 0 < n
      BY SizesAssumption
    <3> QED
      BY <3>1, <3>2
  <2>6. CounterInv'
    BY <1>11, <2>1 DEF PeekHeader, CounterInv
  <2>7. CASE ~frames[k].valid
    <3>1. cpc' = "closing" /\ outcome' = "panic" /\ UNCHANGED <<fullLen, totRead>>
      BY <1>11, <2>2, <2>7 DEF PeekHeader, Leave
    <3>2. TypeOK'
      BY <1>11, <3>1 DEF PeekHeader, TypeOK
    <3>3. AlignedInv' /\ TurnInv'
      BY <1>11, <3>1 DEF PeekHeader, AlignedInv, TurnInv
    <3> QED
      BY <2>1, <2>6, <3>2, <3>3
  <2>8. CASE frames[k].valid
    <3>1. cpc' = "read" /\ fullLen' = frames[k].len /\ totRead' = 0 /\ UNCHANGED outcome
      BY <1>11, <2>2, <2>8 DEF PeekHeader
    <3>2. TypeOK'
      BY <1>11, <2>5, <3>1 DEF PeekHeader, TypeOK
    <3>3. consumed' = EndOf(Len(requests))' + totRead'
      <4>1. consumed = EndOf(Len(requests)) /\ consumed \in Nat /\ consumed' = consumed
        BY <1>11 DEF PeekHeader, AlignedInv, TypeOK
      <4> QED
        BY <4>1, <2>1, <3>1
    <3>4. AlignedInv'
      BY <1>11, <2>2, <2>5, <2>8, <3>1, <3>3 DEF PeekHeader, AlignedInv
    <3>5. TurnInv'
      BY <1>11, <3>1 DEF PeekHeader, TurnInv
    <3> QED
      BY <2>1, <2>6, <3>2, <3>4, <3>5
  <2> QED
    BY <2>7, <2>8
<1>12. CASE ReadBuffered
  <2> DEFINE c == AtMost(fullLen - totRead, Buffered)
  <2>1. cpc = "read" /\ Advance(c) /\ UNCHANGED <<taken, fullLen, replies, outcome, clientVars>>
    BY <1>12 DEF ReadBuffered
  <2>2. c \in Nat /\ c <= fullLen - totRead /\ consumed + c <= taken
    BY <1>12 DEF ReadBuffered, AtMost, Buffered, TypeOK, AlignedInv, CounterInv
  <2>3. taken' \in Nat /\ taken' <= written /\ consumed + c <= taken'
    BY <2>1, <2>2 DEF TypeOK, CounterInv
  <2> QED
    BY <2>1, <2>2, <2>3, AdvanceInv
<1>13. CASE ReadDirect
  <2>1. PICK n \in Readable(fullLen - totRead) : taken' = taken + n /\ Advance(n)
    BY <1>13 DEF ReadDirect
  <2> DEFINE c == n
  <2>2. cpc = "read" /\ Advance(c) /\ UNCHANGED <<fullLen, replies, outcome, clientVars>>
    BY <1>13, <2>1 DEF ReadDirect
  <2>3. /\ c \in Nat /\ c <= fullLen - totRead /\ c <= n
        /\ n \in Nat /\ taken + n <= written
    BY <1>13, SizesAssumption DEF ReadDirect, Readable, AtMost, Buffered, TypeOK, AlignedInv, CounterInv
  <2>4. taken' \in Nat /\ taken' <= written /\ consumed + c <= taken'
    BY <1>13, <2>1, <2>3 DEF ReadDirect, Buffered, TypeOK, CounterInv
  <2> QED
    BY <2>2, <2>3, <2>4, AdvanceInv
<1>14. CASE ReadThrough
  <2>1. PICK n \in Readable(BufSize) : taken' = taken + n /\ Advance(AtMost(fullLen - totRead, n))
    BY <1>14 DEF ReadThrough
  <2> DEFINE c == AtMost(fullLen - totRead, n)
  <2>2. cpc = "read" /\ Advance(c) /\ UNCHANGED <<fullLen, replies, outcome, clientVars>>
    BY <1>14, <2>1 DEF ReadThrough
  <2>3. /\ c \in Nat /\ c <= fullLen - totRead /\ c <= n
        /\ n \in Nat /\ taken + n <= written
    BY <1>14, SizesAssumption DEF ReadThrough, Readable, AtMost, Buffered, TypeOK, AlignedInv, CounterInv
  <2>4. taken' \in Nat /\ taken' <= written /\ consumed + c <= taken'
    BY <1>14, <2>1, <2>3 DEF ReadThrough, Buffered, TypeOK, CounterInv
  <2> QED
    BY <2>2, <2>3, <2>4, AdvanceInv
<1>15. CASE UNCHANGED vars
  <2>1. LayoutInv' /\ WholeMessages' /\ EndOf(Len(requests))' = EndOf(Len(requests)) /\ Total' = Total
    BY <1>15, QuietStep DEF vars
  <2> QED
    BY <1>15, <2>1 DEF vars, TypeOK, CounterInv, AlignedInv, TurnInv
<1> QED
  BY <1>1, <1>2, <1>3, <1>4, <1>5, <1>6, <1>7, <1>8, <1>9, <1>10, <1>11, <1>12, <1>13, <1>14, <1>15
     DEF Next, ClientStep, ServeStep

\* The invariant holds in every state of a connection.
THEOREM Invariance == Spec => []IInv
BY InitInv, NextInv, PTL DEF Spec

\* The counters of NextTTLV and of the bufio.Reader keep their types.
THEOREM TypeCorrect == Spec => []TypeOK
<1>1. IInv => TypeOK
  BY DEF IInv
<1> QED
  BY <1>1, Invariance, PTL

\* The handler gets the client's messages whole, in order and without gaps,
\* for every buffer size and every way the stream is cut.
THEOREM Framing == Spec => []WholeMessages
<1>1. IInv => WholeMessages
  BY DEF IInv
<1> QED
  BY <1>1, Invariance, PTL

\* conn.serve hands over no request before the last reply is flushed.
THEOREM Turns == Spec => []OneAtATime
<1>1. IInv => OneAtATime
  BY DEF IInv, TurnInv, OneAtATime
<1> QED
  BY <1>1, Invariance, PTL

\* A Read that completes a message hands over the next one that was sent;
\* every other Read is invisible to the handler.
LEMMA AdvanceRefines ==
  ASSUME IInv, IInv', cpc = "read", NEW n, Advance(n), UNCHANGED frames
  PROVE  Promise!Receive \/ UNCHANGED Promise!vars
<1> DEFINE r == [start |-> consumed + n - fullLen, len |-> fullLen, valid |-> TRUE]
<1>1. CASE totRead + n >= fullLen
  <2>1. cpc' = "serve" /\ requests' = Append(requests, r)
    BY <1>1 DEF Advance
  <2>2. Len(requests) \in Nat /\ Len(requests) < Len(frames) /\ requests \in Seq(Frame)
    BY DEF IInv, TypeOK, AlignedInv
  <2>3. Len(requests') = Len(requests) + 1 /\ requests'[Len(requests) + 1] = r
    BY <2>1, <2>2
  <2>4. \A i \in 1 .. Len(requests') : requests'[i] = frames'[i]
    BY DEF IInv, WholeMessages
  <2>5. r = frames[Len(requests) + 1]
    BY <2>2, <2>3, <2>4
  <2>6. requests' = Append(requests, frames[Len(requests) + 1])
    BY <2>1, <2>5
  <2> QED
    BY <2>1, <2>2, <2>6 DEF Promise!Receive
<1>2. CASE ~(totRead + n >= fullLen)
  BY <1>2 DEF Advance, Promise!vars
<1> QED
  BY <1>1, <1>2

\* Every step of Connection is a step of MessageStream or leaves its state
\* alone.
LEMMA StepRefines == IInv /\ IInv' /\ [Next]_vars => [Promise!Next]_(Promise!vars)
<1> SUFFICES ASSUME IInv, IInv', [Next]_vars PROVE [Promise!Next]_(Promise!vars)
  OBVIOUS
<1>1. CASE Compose
  <2>1. PICK f : frames' = Append(frames, f)
    BY <1>1 DEF Compose
  <2>2. frames \in Seq(Frame) /\ frames' \in Seq(Frame)
    BY DEF IInv, TypeOK
  <2>3. Len(frames') = Len(frames) + 1 /\ \A i \in 1 .. Len(frames) : frames'[i] = frames[i]
    BY <2>1, <2>2
  <2> QED
    BY <1>1, <2>2, <2>3 DEF Compose, Promise!Send, Promise!Next
<1>2. CASE Write \/ ClientEnds \/ PeekFills \/ CloseConn \/ UNCHANGED vars
  BY <1>2 DEF Write, ClientEnds, PeekFills, CloseConn, vars, Promise!vars
<1>3. CASE Handshake \/ PeekFails \/ ReadFails \/ ServeKMIP \/ Flush
  BY <1>3 DEF Handshake, PeekFails, ReadFails, ServeKMIP, Flush, Leave, Promise!Close, Promise!Next, Promise!vars
<1>4. CASE PeekHeader
  BY <1>4 DEF PeekHeader, Leave, Promise!Close, Promise!Next, Promise!vars
<1>5. CASE ReadBuffered
  BY <1>5, AdvanceRefines DEF ReadBuffered, Promise!Next
<1>6. CASE ReadDirect
  <2>1. PICK n : Advance(n)
    BY <1>6 DEF ReadDirect
  <2> QED
    BY <1>6, <2>1, AdvanceRefines DEF ReadDirect, Promise!Next
<1>7. CASE ReadThrough
  <2>1. PICK n : Advance(n)
    BY <1>7 DEF ReadThrough
  <2> QED
    BY <1>7, <2>1, AdvanceRefines DEF ReadThrough, Promise!Next
<1> QED
  BY <1>1, <1>2, <1>3, <1>4, <1>5, <1>6, <1>7 DEF Next, ClientStep, ServeStep

\* conn.serve, NextTTLV and the bufio.Reader implement MessageStream.
THEOREM Refinement == Spec => DeliversMessages
<1>1. Init => Promise!Init
  BY DEF Init, Promise!Init
<1> QED
  BY <1>1, StepRefines, Invariance, PTL DEF Spec, DeliversMessages, Promise!Spec
=============================================================================
