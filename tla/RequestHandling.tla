-------------------------- MODULE RequestHandling --------------------------
(***************************************************************************)
(* From a request read off a connection to the flushed reply:              *)
(* StandardProtocolHandler.ServeKMIP and handleRequest, the pooled         *)
(* Response with its Encoder, and the OperationMux (requests.go), with all *)
(* connections of a server sharing the pool and the mux.                   *)
(*                                                                         *)
(* A request is what its handling tells apart: whether it parses, whether  *)
(* its protocol version matches, its size limit and its batch items.  A    *)
(* message of the server is its correlation value, its batch count and its *)
(* items; a buffer is the sequence of messages encoded into it.            *)
(***************************************************************************)
EXTENDS Naturals, Sequences

CONSTANTS
  Conns,       \* connections, each with its goroutine in conn.serve
  Objs,        \* Response objects
  Ops,         \* operations
  Values,      \* correlation values and batch item IDs
  None,        \* no value
  Partial,     \* the bytes a failed encoding leaves in an Encoder
  Requests,    \* the requests clients send
  LogTraffic,  \* StandardProtocolHandler.LogTraffic
  MaxTurns     \* bound: requests and reconnects of one connection

ReqItem == [op : Ops, uid : Values, extra : BOOLEAN]
Request == [ccv : Values, wellFormed : BOOLEAN, sameMajor : BOOLEAN, sameMinor : BOOLEAN,
            limit : Nat, items : Seq(ReqItem)]

ASSUME NoneAssumption == None \notin Objs \cup Ops \cup Values \cup Requests

ASSUME RequestsAssumption ==
  /\ Requests \subseteq Request
  /\ Requests # {}
  /\ LogTraffic \in BOOLEAN
  /\ MaxTurns \in Nat

VARIABLES
  hpc,       \* where each connection's conn.serve and ServeKMIP are
  turn,      \* requests read and reconnects, for the bound
  req,       \* the Request, None before the first
  disallow,  \* DisallowExtraValues of the Request's decoder
  done,      \* batch items handled so far
  resp,      \* the Response in use, or None
  wbuf,      \* the bufio.Writer of the request
  sent,      \* what was flushed to the client in reply to the request
  pool,      \* responsePool
  body,      \* ResponseMessage of each Response
  buf,       \* buf of each Response
  left,      \* whether the Encoder of a Response holds a partial encoding
  handlers,  \* operations with an ItemHandler in the OperationMux
  known      \* those registered when the request was read

connVars == <<hpc, turn, req, disallow, done, wbuf, sent, known>>
respVars == <<body, buf, left>>
vars == <<hpc, turn, req, disallow, done, resp, wbuf, sent, pool, body, buf, left, handlers, known>>

Result == {"ok", "unencodable", "reason", "NotSupported", "InvalidMessage", "TooLarge"}
Item   == [op : Ops \cup {None}, uid : Values \cup {None}, result : Result]
Msg    == [ccv : Values \cup {None}, count : Nat, items : Seq(Item)]

TypeOK ==
  /\ hpc \in [Conns -> {"idle", "new", "handle", "items", "write", "release", "flush", "dead"}]
  /\ turn \in [Conns -> 0 .. MaxTurns]
  /\ req \in [Conns -> Requests \cup {None}]
  /\ disallow \in [Conns -> BOOLEAN]
  /\ done \in [Conns -> Nat]
  /\ resp \in [Conns -> Objs \cup {None}]
  /\ wbuf \in [Conns -> Seq(Msg \cup {Partial})]
  /\ sent \in [Conns -> Seq(Msg \cup {Partial})]
  /\ pool \subseteq Objs
  /\ body \in [Objs -> Msg]
  /\ buf \in [Objs -> Seq(Msg \cup {Partial})]
  /\ left \in [Objs -> BOOLEAN]
  /\ handlers \subseteq Ops
  /\ known \in [Conns -> SUBSET Ops]

Message(v, n, items) == [ccv |-> v, count |-> n, items |-> items]

\* ResponseMessage{}
EmptyMessage == Message(None, 0, <<>>)

Init ==
  /\ hpc = [c \in Conns |-> "idle"]
  /\ turn = [c \in Conns |-> 0]
  /\ req = [c \in Conns |-> None]
  /\ disallow = [c \in Conns |-> FALSE]
  /\ done = [c \in Conns |-> 0]
  /\ resp = [c \in Conns |-> None]
  /\ wbuf = [c \in Conns |-> <<>>]
  /\ sent = [c \in Conns |-> <<>>]
  /\ pool = {}
  /\ body = [o \in Objs |-> EmptyMessage]
  /\ buf = [o \in Objs |-> <<>>]
  /\ left = [o \in Objs |-> FALSE]
  /\ handlers = {}
  /\ known = [c \in Conns |-> {}]

----------------------------------------------------------------------------
(***************************************************************************)
(* Helpers.                                                                *)
(***************************************************************************)

\* Response.errorResponse: the items are replaced, the header stays.
ErrorItems(reason) == <<[op |-> None, uid |-> None, result |-> reason]>>

\* Response.Bytes: what the buffer holds after encoding m with the Encoder of o.
Encoded(o, m) == IF left[o] THEN <<Partial, m>> ELSE <<m>>

Encodable(m) == \A i \in 1 .. Len(m.items) : m.items[i].result # "unencodable"

\* A panic is recovered in conn.serve, which closes the connection; the
\* Response becomes garbage.
Die(c) ==
  /\ hpc' = [hpc EXCEPT ![c] = "dead"]
  /\ resp' = [resp EXCEPT ![c] = None]
  /\ wbuf' = [wbuf EXCEPT ![c] = <<>>]

Goto(c, l) == hpc' = [hpc EXCEPT ![c] = l]

----------------------------------------------------------------------------
(***************************************************************************)
(* The connection.                                                         *)
(***************************************************************************)

\* conn.readRequest returns a new Request.
ReadRequest(c) ==
  /\ hpc[c] = "idle"
  /\ turn[c] < MaxTurns
  /\ turn' = [turn EXCEPT ![c] = @ + 1]
  /\ \E r \in Requests : req' = [req EXCEPT ![c] = r]
  /\ disallow' = [disallow EXCEPT ![c] = FALSE]
  /\ done' = [done EXCEPT ![c] = 0]
  /\ sent' = [sent EXCEPT ![c] = <<>>]
  /\ known' = [known EXCEPT ![c] = handlers]
  /\ Goto(c, "new")
  /\ UNCHANGED <<resp, wbuf, pool, handlers, respVars>>

\* writer.Flush in conn.serve: the reply goes out, or the error is a panic.
Flush(c) ==
  /\ hpc[c] = "flush"
  /\ \/ /\ sent' = [sent EXCEPT ![c] = wbuf[c]]
        /\ wbuf' = [wbuf EXCEPT ![c] = <<>>]
        /\ Goto(c, "idle")
        /\ UNCHANGED resp
     \/ Die(c) /\ UNCHANGED sent
  /\ UNCHANGED <<turn, req, disallow, done, pool, handlers, known, respVars>>

\* Server.Serve accepts another connection and starts conn.serve for it.
Accept(c) ==
  /\ hpc[c] = "dead"
  /\ turn[c] < MaxTurns
  /\ turn' = [turn EXCEPT ![c] = @ + 1]
  /\ req' = [req EXCEPT ![c] = None]
  /\ Goto(c, "idle")
  /\ UNCHANGED <<disallow, done, resp, wbuf, sent, pool, handlers, known, respVars>>

----------------------------------------------------------------------------
(***************************************************************************)
(* StandardProtocolHandler.ServeKMIP.                                      *)
(***************************************************************************)

Held == {resp[c] : c \in Conns}

\* Variant: a pooled Response is used as it is, without reset.
NewResponseWithoutReset(c) ==
  /\ hpc[c] = "new"
  /\ \E o \in Objs :
       /\ \/ /\ o \in pool
             /\ pool' = pool \ {o}
             /\ UNCHANGED <<left, body, buf>>
          \/ /\ o \notin pool \cup Held
             /\ left' = [left EXCEPT ![o] = FALSE]
             /\ body' = [body EXCEPT ![o] = EmptyMessage]
             /\ buf' = [buf EXCEPT ![o] = <<>>]
             /\ UNCHANGED pool
       /\ resp' = [resp EXCEPT ![c] = o]
  /\ Goto(c, "handle")
  /\ UNCHANGED <<turn, req, disallow, done, wbuf, sent, handlers, known>>

\* Variant: the Response stays in the pool while it is used.
NewResponseShared(c) ==
  /\ hpc[c] = "new"
  /\ \E o \in Objs :
       /\ o \in pool \/ o \notin Held
       /\ resp' = [resp EXCEPT ![c] = o]
       /\ body' = [body EXCEPT ![o] = EmptyMessage]
       /\ buf' = [buf EXCEPT ![o] = <<>>]
       /\ UNCHANGED <<pool, left>>
  /\ Goto(c, "handle")
  /\ UNCHANGED <<turn, req, disallow, done, wbuf, sent, handlers, known>>

\* Variant: newResponse waits for a pooled Response.
NewResponseWaits(c) ==
  /\ hpc[c] = "new"
  /\ \E o \in pool :
       /\ pool' = pool \ {o}
       /\ resp' = [resp EXCEPT ![c] = o]
       /\ body' = [body EXCEPT ![o] = EmptyMessage]
       /\ buf' = [buf EXCEPT ![o] = <<>>]
       /\ UNCHANGED left
  /\ Goto(c, "handle")
  /\ UNCHANGED <<turn, req, disallow, done, wbuf, sent, handlers, known>>

\* newResponse: one from the pool, reset, or a new one.  sync.Pool may have
\* nothing for this goroutine even when it is not empty.  reset leaves the
\* Encoder as it is.
NewResponse(c) ==
  /\ hpc[c] = "new"
  /\ \E o \in Objs :
       /\ \/ /\ o \in pool
             /\ pool' = pool \ {o}
             /\ UNCHANGED left
          \/ /\ o \notin pool \cup Held
             /\ left' = [left EXCEPT ![o] = FALSE]
             /\ UNCHANGED pool
       /\ resp' = [resp EXCEPT ![c] = o]
       /\ body' = [body EXCEPT ![o] = EmptyMessage]
       /\ buf' = [buf EXCEPT ![o] = <<>>]
  /\ Goto(c, "handle")
  /\ UNCHANGED <<turn, req, disallow, done, wbuf, sent, handlers, known>>

\* handleRequest up to the call of HandleMessage.  A request that does not
\* parse, or of another major version, gets an error item and nothing is
\* encoded.
HandleRequest(c) ==
  LET o == resp[c]
      r == req[c]
      n == Len(body[o].items)
  IN
  /\ hpc[c] = "handle"
  /\ \/ /\ ~r.wellFormed
        /\ body' = [body EXCEPT ![o] = Message(body[o].ccv, n, ErrorItems("InvalidMessage"))]
        /\ Goto(c, "write")
        /\ UNCHANGED disallow
     \/ /\ r.wellFormed /\ ~r.sameMajor
        /\ body' = [body EXCEPT ![o] = Message(r.ccv, n, ErrorItems("InvalidMessage"))]
        /\ Goto(c, "write")
        /\ UNCHANGED disallow
     \/ /\ r.wellFormed /\ r.sameMajor
        /\ body' = [body EXCEPT ![o] = Message(r.ccv, n, body[o].items)]
        /\ disallow' = [disallow EXCEPT ![c] = r.sameMinor]
        /\ Goto(c, "items")
  /\ UNCHANGED <<turn, req, done, resp, wbuf, sent, pool, buf, left, handlers, known>>

\* HandleMessage: append the item that answers the current one.
AppendItem(c, result) ==
  LET it == req[c].items[done[c] + 1] IN
  /\ body' = [body EXCEPT ![resp[c]].items =
                Append(@, [op |-> it.op, uid |-> it.uid, result |-> result])]
  /\ done' = [done EXCEPT ![c] = @ + 1]
  /\ UNCHANGED <<hpc, resp, wbuf>>

\* HandleMessage and bi for the next item.  With no handler the operation is
\* not supported.  Otherwise the handler decodes the payload, which resets the
\* decoder and its DisallowExtraValues first, and succeeds (perhaps with a
\* payload that cannot be encoded) or fails with an error that has a
\* ResultReason.  An error without one, a panic of the handler and a nil item
\* are all a panic.
HandleItem(c) ==
  /\ hpc[c] = "items"
  /\ done[c] < Len(req[c].items)
  /\ LET it == req[c].items[done[c] + 1] IN
     \/ /\ it.op \notin handlers
        /\ AppendItem(c, "NotSupported")
        /\ UNCHANGED disallow
     \/ /\ it.op \in handlers
        /\ disallow' = [disallow EXCEPT ![c] = FALSE]
        /\ \/ /\ it.extra => ~disallow'[c]
              /\ AppendItem(c, "ok") \/ AppendItem(c, "unencodable")
           \/ AppendItem(c, "reason")
           \/ Die(c) /\ UNCHANGED <<body, done>>
  /\ UNCHANGED <<turn, req, sent, pool, buf, left, handlers, known>>

\* The reply exceeds the MaximumResponseSize of the request; an item counts
\* one unit.
TooLarge(c, m) == req[c].limit > 0 /\ Len(m.items) > req[c].limit

\* handleRequest after HandleMessage: set the count, encode, compare the size
\* with the limit.  A reply that is too large is replaced in the Response but
\* not in its buffer.  An encoding that fails is a panic.
FinishMessage(c) ==
  LET o == resp[c]
      m == Message(body[o].ccv, Len(body[o].items), body[o].items)
  IN
  /\ hpc[c] = "items"
  /\ done[c] = Len(req[c].items)
  /\ \/ /\ Encodable(m)
        /\ body' = [body EXCEPT ![o] = IF TooLarge(c, m) THEN Message(m.ccv, m.count, ErrorItems("TooLarge")) ELSE m]
        /\ buf' = [buf EXCEPT ![o] = Encoded(o, m)]
        /\ left' = [left EXCEPT ![o] = FALSE]
        /\ Goto(c, "write")
        /\ UNCHANGED <<resp, wbuf>>
     \/ /\ ~Encodable(m)
        /\ body' = [body EXCEPT ![o] = m]
        /\ buf' = [buf EXCEPT ![o] = <<>>]
        /\ left' = [left EXCEPT ![o] = TRUE]
        /\ Die(c)
  /\ UNCHANGED <<turn, req, disallow, done, sent, pool, handlers, known>>

\* ServeKMIP writes the reply to the bufio.Writer: with LogTraffic the Response
\* encoded once more, otherwise whatever its buffer holds.  A long reply goes
\* to the socket at once, and an error of that is a panic.
WriteReply(c) ==
  LET o == resp[c] IN
  /\ hpc[c] = "write"
  /\ \/ /\ LogTraffic
        /\ buf' = [buf EXCEPT ![o] = Encoded(o, body[o])]
        /\ wbuf' = [wbuf EXCEPT ![c] = Encoded(o, body[o])]
        /\ left' = [left EXCEPT ![o] = FALSE]
        /\ Goto(c, "release")
        /\ UNCHANGED resp
     \/ /\ ~LogTraffic
        /\ wbuf' = [wbuf EXCEPT ![c] = buf[o]]
        /\ buf' = [buf EXCEPT ![o] = <<>>]
        /\ Goto(c, "release")
        /\ UNCHANGED <<left, resp>>
     \/ Die(c) /\ UNCHANGED <<buf, left>>
  /\ UNCHANGED <<turn, req, disallow, done, sent, pool, body, handlers, known>>

\* releaseResponse, the last thing ServeKMIP does.
Release(c) ==
  /\ hpc[c] = "release"
  /\ pool' = pool \cup {resp[c]}
  /\ resp' = [resp EXCEPT ![c] = None]
  /\ Goto(c, "flush")
  /\ UNCHANGED <<turn, req, disallow, done, wbuf, sent, handlers, known, respVars>>

\* The garbage collector takes a Response out of the pool.
PoolDrop(o) ==
  /\ o \in pool
  /\ pool' = pool \ {o}
  /\ UNCHANGED <<connVars, resp, handlers, respVars>>

\* OperationMux.Handle, at any time.
Handle(op) ==
  /\ op \notin handlers
  /\ handlers' = handlers \cup {op}
  /\ UNCHANGED <<connVars, resp, pool, respVars>>

ServeStep(c) ==
  \/ NewResponse(c)
  \/ HandleRequest(c)
  \/ HandleItem(c)
  \/ FinishMessage(c)
  \/ WriteReply(c)
  \/ Release(c)
  \/ Flush(c)

Next ==
  \/ \E c \in Conns : ReadRequest(c) \/ Accept(c) \/ ServeStep(c)
  \/ \E o \in Objs : PoolDrop(o)
  \/ \E op \in Ops : Handle(op)

Spec == Init /\ [][Next]_vars

\* The goroutine of each connection is scheduled.  Nothing makes a client send
\* a request or anyone register a handler.
FairSpec == Spec /\ \A c \in Conns : WF_vars(ServeStep(c))

----------------------------------------------------------------------------
(***************************************************************************)
(* Properties.                                                             *)
(***************************************************************************)

Phase(l) == IF l \in {"idle", "dead"} THEN l ELSE "busy"

Promise == INSTANCE ReplyPromise
             WITH phase <- [c \in Conns |-> Phase(hpc[c])], asked <- req, reply <- sent

\* The pool, the reused Encoders and the concurrent connections are invisible:
\* every connection behaves as if it had the server to itself, each request
\* answered item for item or the connection closed.
KeepsPromise == Promise!Spec

\* What a client has received when the server waits for its next request is
\* the answer to its own last request, whatever Response served it and
\* whatever that one was used for before.
ReplyMatches ==
  \A c \in Conns : hpc[c] = "idle" /\ req[c] # None => Promise!Answers(sent[c], req[c])

\* A Response is never in use by two connections, or in use and in the pool.
PoolExclusive ==
  \A c \in Conns : resp[c] # None =>
    /\ resp[c] \notin pool
    /\ \A d \in Conns : resp[d] = resp[c] => d = c

\* The Encoder of a Response that returns to the pool holds nothing of an
\* encoding that failed: those are never released.
PooledIsClean == \A o \in pool : ~left[o]

\* A request item is answered with OperationNotSupported only when its
\* operation had no handler yet when the request was read; a handler is never
\* lost by registering another.
SupportedIsHandled ==
  \A c \in Conns : resp[c] # None =>
    \A i \in 1 .. Len(body[resp[c]].items) :
      body[resp[c]].items[i].result = "NotSupported" => body[resp[c]].items[i].op \notin known[c]

\* While a connection does not move, nobody changes the Response it is using.
Isolation ==
  [][\A c \in Conns : resp[c] # None /\ hpc'[c] = hpc[c] /\ done'[c] = done[c] =>
       /\ body'[resp[c]] = body[resp[c]]
       /\ buf'[resp[c]] = buf[resp[c]]]_vars

\* Every request that was read is dealt with: the server gets back to reading,
\* or the connection is closed.
RequestsEnd == \A c \in Conns : hpc[c] = "new" ~> hpc[c] \in {"idle", "dead"}

(***************************************************************************)
(* What the comments say and the code does not do.                         *)
(***************************************************************************)

\* A request that is refused, or whose reply is above the client's limit, is
\* answered with the one item that errorResponse made (StandardProtocolHandler
\* "handles decoding the request and encoding the response"; handleRequest:
\* "new error resp").
ErrorResponseSent ==
  \A c \in Conns : hpc[c] = "idle" /\ req[c] # None =>
    /\ ~Promise!Accepted(req[c]) =>
         Len(sent[c]) = 1 /\ sent[c][1].items = ErrorItems("InvalidMessage")
    /\ Promise!Accepted(req[c]) /\ ~Promise!Fits(req[c], Len(req[c].items)) =>
         Len(sent[c]) = 1 /\ sent[c][1].items = ErrorItems("TooLarge")

----------------------------------------------------------------------------
(***************************************************************************)
(* The inductive invariant of the proofs.                                  *)
(***************************************************************************)

Holding == {"handle", "items", "write", "release"}

\* A connection has a request from reading it on, and a Response exactly from
\* newResponse to releaseResponse.
StageOK(c) ==
  /\ hpc[c] \notin {"idle", "dead"} => req[c] \in Requests
  /\ resp[c] \in Objs <=> hpc[c] \in Holding

\* No Encoder in use holds a partial encoding.
CleanOK(c) == resp[c] \in Objs => ~left[resp[c]]

\* The items of the message answer the first n of the request.
AnsweredTo(m, r, n) ==
  /\ n <= Len(r.items)
  /\ Len(m.items) = n
  /\ \A i \in 1 .. n : m.items[i].op = r.items[i].op /\ m.items[i].uid = r.items[i].uid

\* A request is taken to its handlers and its reply fits the limit.
Normal(r) == Promise!Accepted(r) /\ Promise!Fits(r, Len(r.items))

\* The message answers all of the request.
Complete(m, r) ==
  /\ m.ccv = r.ccv
  /\ m.count = Len(r.items)
  /\ AnsweredTo(m, r, Len(r.items))

\* How far the Response of a connection is.
BodyOK(c) ==
  /\ hpc[c] = "new" => done[c] = 0
  /\ hpc[c] = "handle" => body[resp[c]] = EmptyMessage /\ buf[resp[c]] = <<>> /\ done[c] = 0
  /\ hpc[c] = "items" =>
       /\ Promise!Accepted(req[c])
       /\ buf[resp[c]] = <<>>
       /\ body[resp[c]].ccv = req[c].ccv
       /\ AnsweredTo(body[resp[c]], req[c], done[c])
  /\ hpc[c] = "write" =>
       /\ Len(buf[resp[c]]) <= 1
       /\ Normal(req[c]) =>
            /\ buf[resp[c]] = <<body[resp[c]]>>
            /\ Complete(body[resp[c]], req[c])

\* What is written, and then flushed, is the answer.
ReplyOK(c) ==
  /\ hpc[c] \in {"release", "flush"} => Promise!Answers(wbuf[c], req[c])
  /\ hpc[c] = "idle" /\ req[c] # None => Promise!Answers(sent[c], req[c])

\* The mux only ever gains handlers, so that no item is refused for want of a
\* handler that was there when the request was read.
SupportOK(c) ==
  /\ known[c] \subseteq handlers
  /\ hpc[c] \in Holding =>
       \A i \in 1 .. Len(body[resp[c]].items) :
         body[resp[c]].items[i].result = "NotSupported" => body[resp[c]].items[i].op \notin known[c]

ConnInv(c) == StageOK(c) /\ CleanOK(c) /\ BodyOK(c) /\ ReplyOK(c) /\ SupportOK(c)

IInv ==
  /\ TypeOK
  /\ PoolExclusive
  /\ PooledIsClean
  /\ \A c \in Conns : ConnInv(c)
=============================================================================
