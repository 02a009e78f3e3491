----------------------------- MODULE Connection -----------------------------
(***************************************************************************)
(* One connection of a kmip.Server: conn.serve (requests.go) reading       *)
(* requests with Decoder.NextTTLV (ttlv/decoder.go) through a bufio.Reader *)
(* and handing them to the protocol handler one after the other.           *)
(*                                                                         *)
(* TCP delivers bytes in order, so a byte is its position in the stream:   *)
(* the client has written the bytes below `written', the bufio.Reader has  *)
(* taken those below `taken' from the socket, and NextTTLV has copied out  *)
(* those below `consumed'.  A message is a record of where it starts, its  *)
(* full length and whether its header is valid.                            *)
(***************************************************************************)
EXTENDS Integers, Sequences

CONSTANTS
  HeaderLen,  \* bytes of a TTLV header: 8
  BufSize,    \* bytes of the bufio.Reader: 4096
  Lens,       \* full lengths (header, value, padding) of the client's messages
  MaxFrames   \* bound: messages a client sends

ASSUME SizesAssumption ==
  /\ HeaderLen \in Nat \ {0}
  /\ BufSize \in Nat
  /\ HeaderLen <= BufSize
  /\ Lens \subseteq {n \in Nat : HeaderLen <= n}
  /\ MaxFrames \in Nat

VARIABLES
  frames,    \* the messages the client sends, in order
  written,   \* bytes the client has put on the wire
  ending,    \* the client's side: "open", "eof" (closed), "reset" (broken)
  taken,     \* bytes the bufio.Reader has read from the socket
  consumed,  \* bytes copied out of the bufio.Reader
  cpc,       \* where conn.serve is
  fullLen,   \* NextTTLV: length of the message being read
  totRead,   \* NextTTLV: bytes of it read so far
  requests,  \* the messages handed to the protocol handler, in order
  replies,   \* replies flushed to the client
  outcome    \* why conn.serve returned: "none" while it runs

vars == <<frames, written, ending, taken, consumed, cpc, fullLen, totRead,
          requests, replies, outcome>>

clientVars == <<frames, written, ending>>
readVars   == <<taken, consumed, fullLen, totRead, requests>>

Frame == [start : Nat, len : Lens, valid : BOOLEAN]

TypeOK ==
  /\ frames \in Seq(Frame)
  /\ written \in Nat
  /\ ending \in {"open", "eof", "reset"}
  /\ taken \in Nat
  /\ consumed \in Nat
  /\ cpc \in {"handshake", "peek", "read", "serve", "flush", "closing", "closed"}
  /\ fullLen \in Nat
  /\ totRead \in Nat
  /\ requests \in Seq(Frame)
  /\ replies \in Nat
  /\ outcome \in {"none", "handshake", "gone", "panic"}

Init ==
  /\ frames = <<>>
  /\ written = 0
  /\ ending = "open"
  /\ taken = 0
  /\ consumed = 0
  /\ cpc = "handshake"
  /\ fullLen = 0
  /\ totRead = 0
  /\ requests = <<>>
  /\ replies = 0
  /\ outcome = "none"

AtMost(a, b) == IF a <= b THEN a ELSE b

\* The position just after the k-th message.
EndOf(k) == IF k = 0 THEN 0 ELSE frames[k].start + frames[k].len

Total == EndOf(Len(frames))

----------------------------------------------------------------------------
(***************************************************************************)
(* The client.  It may pipeline messages, write them in any pieces, and    *)
(* stop in the middle of one.                                              *)
(***************************************************************************)

Compose ==
  /\ ending = "open"
  /\ Len(frames) < MaxFrames
  /\ \E n \in Lens, ok \in BOOLEAN :
       frames' = Append(frames, [start |-> Total, len |-> n, valid |-> ok])
  /\ UNCHANGED <<written, ending, cpc, replies, outcome, readVars>>

Write ==
  /\ ending = "open"
  /\ \E n \in 1 .. Total - written : written' = written + n
  /\ UNCHANGED <<frames, ending, cpc, replies, outcome, readVars>>

ClientEnds ==
  /\ ending = "open"
  /\ ending' \in {"eof", "reset"}
  /\ UNCHANGED <<frames, written, cpc, replies, outcome, readVars>>

----------------------------------------------------------------------------
(***************************************************************************)
(* The socket, as the bufio.Reader sees it.                                *)
(***************************************************************************)

\* One Read of the socket into a space of n bytes can return this many bytes.
\* After a reset the bytes not yet taken may be lost.
Readable(n) == 1 .. AtMost(n, written - taken)

\* One Read of the socket can fail: with io.EOF when everything was taken, or
\* with an error after a reset.
SocketFails == \/ ending = "eof" /\ taken = written
               \/ ending = "reset"

Buffered == taken - consumed

----------------------------------------------------------------------------
(***************************************************************************)
(* conn.serve.                                                             *)
(***************************************************************************)

\* Leaving conn.serve, by return or by panic, runs the deferred function.
Leave(why) ==
  /\ cpc' = "closing"
  /\ outcome' = why

\* The TLS handshake, or nothing on a plain connection; then the Decoder.
Handshake ==
  /\ cpc = "handshake"
  /\ \/ cpc' = "peek" /\ UNCHANGED outcome
     \/ Leave("handshake")
  /\ UNCHANGED <<replies, clientVars, readVars>>

\* NextTTLV: the Peek has too few bytes buffered and reads more.
PeekFills ==
  /\ cpc = "peek"
  /\ Buffered < HeaderLen
  /\ \E n \in Readable(BufSize - Buffered) : taken' = taken + n
  /\ UNCHANGED <<consumed, fullLen, totRead, requests, cpc, replies, outcome, clientVars>>

\* NextTTLV: the Peek fails.  io.EOF ends conn.serve, also when it cuts a
\* header short; every other error is a panic.
PeekFails ==
  /\ cpc = "peek"
  /\ Buffered < HeaderLen
  /\ SocketFails
  /\ Leave(IF ending = "eof" THEN "gone" ELSE "panic")
  /\ UNCHANGED <<replies, clientVars, readVars>>

\* What the bytes at position p say when they are read as a header: the header
\* of the message that starts there, anything at all in the middle of one.
HeadersAt(p) ==
  IF \E i \in 1 .. Len(frames) : frames[i].start = p
  THEN {frames[i] : i \in {j \in 1 .. Len(frames) : frames[j].start = p}}
  ELSE [start : {p}, len : Lens, valid : BOOLEAN]

\* NextTTLV: the header is there.  A bad one is an error, hence a panic; a
\* good one gives the length of the buffer to fill.
PeekHeader ==
  /\ cpc = "peek"
  /\ Buffered >= HeaderLen
  /\ \E h \in HeadersAt(consumed) :
       \/ /\ ~h.valid
          /\ Leave("panic")
          /\ UNCHANGED <<fullLen, totRead>>
       \/ /\ h.valid
          /\ cpc' = "read"
          /\ fullLen' = h.len
          /\ totRead' = 0
          /\ UNCHANGED outcome
  /\ UNCHANGED <<taken, consumed, requests, replies, clientVars>>

\* Variant: the message is complete one byte too late.
AdvanceOffByOne(n) ==
  /\ consumed' = consumed + n
  /\ totRead' = totRead + n
  /\ IF totRead + n > fullLen
     THEN /\ cpc' = "serve"
          /\ requests' = Append(requests,
               [start |-> consumed + n - fullLen, len |-> fullLen, valid |-> TRUE])
     ELSE UNCHANGED <<cpc, requests>>

\* NextTTLV: n more bytes are in buf; a full message is returned and becomes
\* the request that ServeKMIP gets.
Advance(n) ==
  /\ consumed' = consumed + n
  /\ totRead' = totRead + n
  /\ IF totRead + n >= fullLen
     THEN /\ cpc' = "serve"
          /\ requests' = Append(requests,
               [start |-> consumed + n - fullLen, len |-> fullLen, valid |-> TRUE])
     ELSE UNCHANGED <<cpc, requests>>

\* bufio.Reader.Read with bytes buffered: copies what it can, no socket.
ReadBuffered ==
  /\ cpc = "read"
  /\ Buffered > 0
  /\ Advance(AtMost(fullLen - totRead, Buffered))
  /\ UNCHANGED <<taken, fullLen, replies, outcome, clientVars>>

\* bufio.Reader.Read with nothing buffered and a large destination: reads
\* from the socket straight into it.
ReadDirect ==
  /\ cpc = "read"
  /\ Buffered = 0
  /\ fullLen - totRead >= BufSize
  /\ \E n \in Readable(fullLen - totRead) :
       /\ taken' = taken + n
       /\ Advance(n)
  /\ UNCHANGED <<fullLen, replies, outcome, clientVars>>

\* Variant: whatever the socket gave goes into the message.
ReadThroughOverrun ==
  /\ cpc = "read"
  /\ Buffered = 0
  /\ fullLen - totRead < BufSize
  /\ \E n \in Readable(BufSize) :
       /\ taken' = taken + n
       /\ Advance(n)
  /\ UNCHANGED <<fullLen, replies, outcome, clientVars>>

\* bufio.Reader.Read with nothing buffered and a small destination: one Read
\* into the buffer, which may bring bytes of later messages, then the copy.
ReadThrough ==
  /\ cpc = "read"
  /\ Buffered = 0
  /\ fullLen - totRead < BufSize
  /\ \E n \in Readable(BufSize) :
       /\ taken' = taken + n
       /\ Advance(AtMost(fullLen - totRead, n))
  /\ UNCHANGED <<fullLen, replies, outcome, clientVars>>

\* Variant: the end of the stream is read again instead of reported.
ReadFailsRetries ==
  /\ cpc = "read"
  /\ Buffered = 0
  /\ SocketFails
  /\ ending = "reset"
  /\ Leave("panic")
  /\ UNCHANGED <<replies, clientVars, readVars>>

\* bufio.Reader.Read fails in the middle of a message.  io.EOF is again taken
\* for a client that went away.
ReadFails ==
  /\ cpc = "read"
  /\ Buffered = 0
  /\ SocketFails
  /\ Leave(IF ending = "eof" THEN "gone" ELSE "panic")
  /\ UNCHANGED <<replies, clientVars, readVars>>

\* ServeKMIP returns, having filled the bufio.Writer, or panics.
ServeKMIP ==
  /\ cpc = "serve"
  /\ \/ cpc' = "flush" /\ UNCHANGED outcome
     \/ Leave("panic")
  /\ UNCHANGED <<replies, clientVars, readVars>>

\* writer.Flush(): the reply is written, or the client is gone and the error
\* is a panic.
Flush ==
  /\ cpc = "flush"
  /\ \/ /\ cpc' = "peek"
        /\ replies' = replies + 1
        /\ UNCHANGED outcome
     \/ /\ ending # "open"
        /\ Leave("panic")
        /\ UNCHANGED replies
  /\ UNCHANGED <<clientVars, readVars>>

\* The deferred function: recover, cancelCtx, close.
CloseConn ==
  /\ cpc = "closing"
  /\ cpc' = "closed"
  /\ UNCHANGED <<replies, outcome, clientVars, readVars>>

ClientStep == Compose \/ Write \/ ClientEnds

ServeStep ==
  \/ Handshake
  \/ PeekFills
  \/ PeekFails
  \/ PeekHeader
  \/ ReadBuffered
  \/ ReadDirect
  \/ ReadThrough
  \/ ReadFails
  \/ ServeKMIP
  \/ Flush
  \/ CloseConn

Next == ClientStep \/ ServeStep

Spec == Init /\ [][Next]_vars

\* The goroutine of the connection is scheduled, and a socket that has bytes
\* or has ended lets Read return.  Nothing makes the client do anything.
FairSpec == Spec /\ WF_vars(ServeStep)

----------------------------------------------------------------------------
(***************************************************************************)
(* Properties.                                                             *)
(***************************************************************************)

\* However the stream was cut into pieces, the requests the handler got are
\* the first messages of the client, byte for byte, with none skipped, merged
\* or cut short, and only messages that were written in full.
WholeMessages ==
  /\ Len(requests) <= Len(frames)
  /\ \A i \in 1 .. Len(requests) : requests[i] = frames[i]
  /\ EndOf(Len(requests)) <= written

\* The connection serves one request at a time: the next one is not handed
\* over before the reply to the last one was flushed.
OneAtATime ==
  /\ replies <= Len(requests)
  /\ Len(requests) <= replies + 1
  /\ cpc \in {"peek", "read"} => Len(requests) = replies

Promise == INSTANCE MessageStream
             WITH Message <- Frame, sent <- frames, received <- requests,
                  closed <- (cpc \in {"closing", "closed"})

\* Peek, Read and the buffers implement MessageStream.
DeliversMessages == Promise!Spec

\* A message that was written in full reaches the handler, unless the
\* connection is closed first.
WrittenIsServed ==
  \A k \in 1 .. MaxFrames :
    k <= Len(frames) /\ EndOf(k) <= written ~> Len(requests) >= k \/ cpc = "closed"

\* When the client closes or the socket breaks, also in the middle of a
\* header or a message, conn.serve ends and closes the connection.
EndsWithClient == ending # "open" ~> cpc = "closed"

----------------------------------------------------------------------------
(***************************************************************************)
(* The inductive invariant of the proofs.                                  *)
(***************************************************************************)

\* The messages lie one behind the other in the stream.
LayoutInv ==
  /\ \A i \in 1 .. Len(frames) : EndOf(i) <= Total
  /\ \A i, j \in 1 .. Len(frames) : i < j => EndOf(i) <= frames[j].start
  /\ \A i \in 1 .. Len(frames) : frames[i].start = EndOf(i - 1)

\* Nothing is taken before it is written, or consumed before it is taken.
CounterInv == consumed <= taken /\ taken <= written /\ written <= Total

\* Between messages NextTTLV stands exactly at the end of the last one, within
\* a message exactly totRead bytes into it.
AlignedInv ==
  /\ cpc \in {"handshake", "peek", "serve", "flush"} => consumed = EndOf(Len(requests))
  /\ cpc = "read" =>
       /\ Len(requests) < Len(frames)
       /\ frames[Len(requests) + 1].valid
       /\ fullLen = frames[Len(requests) + 1].len
       /\ totRead < fullLen
       /\ consumed = EndOf(Len(requests)) + totRead

\* Requests and replies alternate.
TurnInv ==
  /\ replies <= Len(requests)
  /\ Len(requests) <= replies + 1
  /\ cpc \in {"handshake", "peek", "read"} => Len(requests) = replies
  /\ cpc \in {"serve", "flush"} => Len(requests) = replies + 1

IInv ==
  /\ TypeOK
  /\ LayoutInv
  /\ CounterInv
  /\ WholeMessages
  /\ AlignedInv
  /\ TurnInv
=============================================================================
